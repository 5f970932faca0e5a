-------------------------- MODULE ComponentsProofs --------------------------
(* The types of all the components of Components.                             *)
EXTENDS LinkRouterProofs, AgentRunsProofs, MatchingImportProofs

\* One of the five components is at work.
PartAtWork == part \in {"matching", "imports", "links", "router", "agents"}

\* Whichever component is at work, its state has its type: saves, confirmations, runs,
\* links, closes and streams never leave a record, a thread or a channel of another
\* shape.
THEOREM ComponentsTyped == ComponentsSpec => []ComponentsTypeOK
  <1>1. /\ MatchInv /\ ImportInv /\ LinkInv
        /\ RouterInv /\ RouterBounds /\ AgentInv /\ AgentBounds
        /\ PartAtWork
        => ComponentsTypeOK
    BY MatchTyped, ImportTyped, LinksTyped, RouterTyped, AgentTyped, Zenon
       DEF PartAtWork, ComponentsTypeOK
  <1>2. ComponentsInit => PartAtWork
    BY DEF ComponentsInit, PartAtWork
  <1>3. PartAtWork /\ [ComponentsNext]_<<part, vars, importVars, linkVars, routerVars, agentVars>>
        => PartAtWork'
    BY DEF ComponentsNext, Matching, Importing, Linking, Routing, Talking, PartAtWork
  <1> QED BY <1>1, <1>2, <1>3, MatchingInvariant, ImportingInvariant, LinksInvariant,
             RouterInvariant, RouterBounded, AgentInvariant, AgentBounded, PTL
         DEF ComponentsSpec
=============================================================================
