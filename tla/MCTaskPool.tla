---------------------------- MODULE MCTaskPool ----------------------------
(* Instances of TaskPool for TLC. *)
EXTENDS TaskPool

\* A request whose callback saves its answer, another request of the same
\* pool, and a task of the database's own.
Places == [j \in Jobs |-> IF j \in {"fetch", "post"} THEN "http" ELSE "db"]
Saving == [j \in {"fetch"} |-> "save"]
=============================================================================
