---------------------------- MODULE AtomicStore ----------------------------
(***************************************************************************)
(* What the database owes its callers: the part of a task that runs in one *)
(* transaction is on the disk as a whole or not at all, and a task that    *)
(* depends on its first part never shows a later one without it.           *)
(***************************************************************************)
EXTENDS Naturals, Sequences

CONSTANTS Tasks,      \* the tasks
          Batches,    \* per task, the number of rows each of its transactions writes
          Careless    \* the tasks that go on after a transaction failed

VARIABLE disk         \* the rows that survive the process

Rows(j, p) == {<<j, p, i>> : i \in 1 .. Batches[j][p]}

Init == disk = {}

Apply(j, p) ==
    /\ j \in Careless \/ \A q \in 1 .. p - 1 : Rows(j, q) \subseteq disk
    /\ disk' = disk \union Rows(j, p)

Next == \E j \in Tasks : \E p \in DOMAIN Batches[j] : Apply(j, p)

Spec == Init /\ [][Next]_disk
=============================================================================
