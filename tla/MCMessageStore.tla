-------------------------- MODULE MCMessageStore --------------------------
(* Instances of MessageStore for TLC. *)
EXTENDS MessageStore

\* Two conversations; the user wrote the second message of the first one, which
\* has the time of the one before it.
TwoPeers == [m \in Msgs |-> IF m \in {"m1", "m2", "m3"} THEN "ann" ELSE "bob"]
OneTie == [m \in Msgs |-> IF m = "m3" THEN 2 ELSE 1]

\* Bounds: one sort of upset, and one message counted twice.  A message that is
\* deleted, stored and deleted again raises its session's counter each time.
Bounded ==
    /\ Cardinality(upset) <= 1
    /\ \A p \in Peers : count[p] <= Cardinality(Of(p)) + 1
=============================================================================
