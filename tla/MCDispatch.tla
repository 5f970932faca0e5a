------------------------------ MODULE MCDispatch ------------------------------
(* Instances of Dispatch for TLC. *)
EXTENDS Dispatch

CONSTANTS c1, c2, t1, t2, g1, k, a, b

TwoPublishers == {c1, c2}

\* One key requested with two payloads, and a request without a key.
KeyedAndPlain == {[topic |-> t1, content |-> a, key |-> k],
                  [topic |-> t1, content |-> b, key |-> k],
                  [topic |-> t1, content |-> a, key |-> NoKey]}

\* And a request on another topic.
TwoTopicRequests == KeyedAndPlain \cup {[topic |-> t2, content |-> a, key |-> NoKey]}
=============================================================================
