--------------------------- MODULE DbConnection ---------------------------
(***************************************************************************)
(* One SQLite connection, _dataBass, shared by every thread of the client. *)
(* Most writers hand a task to the single thread of _dbPool and wait for   *)
(* its future; updateMessageReadFlags and batchInsertQuickReply open their *)
(* transactions on the calling thread.  All follow one pattern:            *)
(*                                                                         *)
(*   try   { exec("begin immediate;"); bind, executeStep ...;              *)
(*           exec("commit transaction;"); return true; }                   *)
(*   catch { exec("rollback transaction;"); return false; }                *)
(*                                                                         *)
(* A call of SQLite is atomic (the library is built in serialised mode)    *)
(* and knows the connection, not the thread: a "begin" inside the          *)
(* transaction of another thread fails, and the "rollback" that answers    *)
(* the failure ends that other transaction.                                *)
(***************************************************************************)
EXTENDS Naturals, Sequences, FiniteSets

CONSTANTS
    Tasks,       \* the tasks, each performed once
    Direct,      \* those that run on the calling thread
    Batches,     \* per task, the number of rows each of its transactions writes
    Careless,    \* the tasks that go on after a transaction failed (bulkDeleteGroup)
    DiskFaults,  \* which statements may fail: subset of {"begin", "row", "commit"}
    MaxFaults    \* bound on those failures

ASSUME TaskAssumption ==
    /\ Direct \subseteq Tasks /\ Careless \subseteq Tasks
    /\ DOMAIN Batches = Tasks
    /\ \A j \in Tasks : /\ Batches[j] \in Seq(Nat \ {0})
                        /\ Batches[j] # << >>
ASSUME FaultAssumption == DiskFaults \subseteq {"begin", "row", "commit"} /\ MaxFaults \in Nat

VARIABLES
    open,     \* the connection is inside a transaction
    dirty,    \* the rows written in it
    disk,     \* the rows that survive the process
    queue,    \* _dbPool's tasks
    running,  \* the task its thread runs, if any
    at,       \* per task, where it stands
    part,     \* per task, which of its transactions
    count,    \* per task, the rows of that transaction it went through
    answer,   \* per task, what its caller got
    up,       \* the process runs
    crossed,  \* history: a direct writer's transaction overlapped another, or a row failed unnoticed
    faults

db   == <<open, dirty, disk>>
pool == <<queue, running>>
ctl  == <<at, part, count, answer>>
vars == <<db, pool, ctl, up, crossed, faults>>

Rows(j, p) == {<<j, p, i>> : i \in 1 .. Batches[j][p]}
AllRows == UNION {UNION {Rows(j, p) : p \in DOMAIN Batches[j]} : j \in Tasks}
Pooled  == Tasks \ Direct

Init ==
    /\ open = FALSE /\ dirty = {} /\ disk = {}
    /\ queue = << >> /\ running = {}
    /\ at = [j \in Tasks |-> "idle"]
    /\ part = [j \in Tasks |-> 1] /\ count = [j \in Tasks |-> 0]
    /\ answer = [j \in Tasks |-> "none"]
    /\ up = TRUE /\ crossed = FALSE /\ faults = 0

Fault(f) == f \in DiskFaults /\ faults < MaxFaults /\ faults' = faults + 1

----------------------------------------------------------------------------
(* The pool: DataBasePlug's methods enqueue a task and wait for it.        *)

Call(j) ==
    /\ up /\ at[j] = "idle"
    /\ at' = [at EXCEPT ![j] = IF j \in Direct THEN "begin" ELSE "queued"]
    /\ queue' = IF j \in Direct THEN queue ELSE Append(queue, j)
    /\ UNCHANGED <<db, running, part, count, answer, up, crossed, faults>>

\* The pool has one thread, which takes the next task when the last returned.
\* Faulty variant: more than one thread.
FreeAlways == TRUE
Free == running = {}

Take ==
    /\ up /\ Free /\ queue # << >>
    /\ running' = running \union {Head(queue)} /\ queue' = Tail(queue)
    /\ at' = [at EXCEPT ![Head(queue)] = "begin"]
    /\ UNCHANGED <<db, part, count, answer, up, crossed, faults>>

----------------------------------------------------------------------------
(* One transaction, statement by statement.                                *)

\* The thread of j is between its "begin" and its "commit" or "rollback".
Inside(j) == at[j] \in {"write", "undo"}
\* j enters while another thread is inside, and one of the two bypasses the pool.
Cross(j) ==
    crossed' = (crossed \/ \E i \in Tasks \ {j} : Inside(i) /\ {i, j} \intersect Direct # {})

\* Faulty variant: a failed "begin" is ignored.
BeginAnyway(j) ==
    /\ up /\ at[j] = "begin"
    /\ \/ open' = TRUE /\ UNCHANGED faults
       \/ Fault("begin") /\ UNCHANGED open
    /\ at' = [at EXCEPT ![j] = "write"]
    /\ count' = [count EXCEPT ![j] = 0]
    /\ Cross(j)
    /\ UNCHANGED <<dirty, disk, pool, part, answer, up>>
\* exec("begin immediate;"), which fails inside a transaction.
Begin(j) ==
    /\ up /\ at[j] = "begin"
    /\ \/ ~open /\ open' = TRUE /\ at' = [at EXCEPT ![j] = "write"] /\ UNCHANGED faults
       \/ open /\ at' = [at EXCEPT ![j] = "undo"] /\ UNCHANGED <<open, faults>>
       \/ Fault("begin") /\ at' = [at EXCEPT ![j] = "undo"] /\ UNCHANGED open
    /\ count' = [count EXCEPT ![j] = 0]
    /\ Cross(j)
    /\ UNCHANGED <<dirty, disk, pool, part, answer, up>>

\* executeStep, whose result is logged at most: outside a transaction a
\* statement commits by itself, and one that fails may end the transaction.
Write(j) ==
    LET row == <<j, part[j], count[j] + 1>> IN
    /\ up /\ at[j] = "write" /\ count[j] < Batches[j][part[j]]
    /\ \/ /\ IF open THEN dirty' = dirty \union {row} /\ UNCHANGED disk
                     ELSE disk' = disk \union {row} /\ UNCHANGED dirty
          /\ UNCHANGED <<open, crossed, faults>>
       \/ Fault("row") /\ crossed' = TRUE /\ UNCHANGED <<open, dirty, disk>>
       \/ Fault("row") /\ crossed' = TRUE /\ open' = FALSE /\ dirty' = {} /\ UNCHANGED disk
    /\ count' = [count EXCEPT ![j] = @ + 1]
    /\ UNCHANGED <<pool, at, part, answer, up>>

\* A transaction returned ok: a task that needs it goes on only if it is TRUE.
\* Faulty variant: every task goes on.
GoesOnAlways(j, ok) == part[j] < Len(Batches[j])
GoesOn(j, ok) == part[j] < Len(Batches[j]) /\ (ok \/ j \in Careless)

\* Faulty variant: the thread does not survive the task.
LeaveForGood(j) == at' = [at EXCEPT ![j] = "ended"] /\ UNCHANGED running
\* The task returns to its caller, and the pool's thread is free.
Leave(j) ==
    /\ at' = [at EXCEPT ![j] = "ended"]
    /\ running' = running \ {j}

\* What the caller gets is the first transaction's result; bulkDeleteGroup
\* answers true.
EndPart(j, ok) ==
    /\ answer' = IF part[j] > 1 THEN answer
                 ELSE [answer EXCEPT ![j] = IF ok \/ j \in Careless THEN "true" ELSE "false"]
    /\ IF GoesOn(j, ok)
       THEN /\ part' = [part EXCEPT ![j] = @ + 1]
            /\ at' = [at EXCEPT ![j] = "begin"]
            /\ UNCHANGED running
       ELSE Leave(j) /\ UNCHANGED part

\* exec("commit transaction;"), which fails outside a transaction; on an I/O
\* error SQLite may or may not have rolled back by itself.
Commit(j) ==
    /\ up /\ at[j] = "write" /\ count[j] = Batches[j][part[j]]
    /\ \/ /\ open
          /\ disk' = disk \union dirty /\ dirty' = {} /\ open' = FALSE
          /\ EndPart(j, TRUE)
          /\ UNCHANGED faults
       \/ /\ \/ ~open /\ UNCHANGED <<open, dirty, faults>>
             \/ open /\ Fault("commit") /\ UNCHANGED <<open, dirty>>
             \/ open /\ Fault("commit") /\ open' = FALSE /\ dirty' = {}
          /\ at' = [at EXCEPT ![j] = "undo"]
          /\ UNCHANGED <<disk, running, part, answer>>
    /\ UNCHANGED <<queue, count, up, crossed>>

\* The handler's exec("rollback transaction;"): without a transaction it fails
\* too, and its exception leaves the handler.
Undo(j) ==
    /\ up /\ at[j] = "undo"
    /\ \/ /\ open
          /\ open' = FALSE /\ dirty' = {}
          /\ EndPart(j, FALSE)
       \/ /\ ~open
          /\ answer' = [answer EXCEPT ![j] = "thrown"]
          /\ Leave(j)
          /\ UNCHANGED <<open, dirty, part>>
    /\ UNCHANGED <<disk, queue, count, up, crossed, faults>>

----------------------------------------------------------------------------
\* The process ends; an open transaction is never committed.
Crash ==
    /\ up /\ up' = FALSE
    /\ open' = FALSE /\ dirty' = {}
    /\ UNCHANGED <<disk, pool, ctl, crossed, faults>>

Step(j) == Begin(j) \/ Write(j) \/ Commit(j) \/ Undo(j)

Next == \/ Take \/ Crash
        \/ \E j \in Tasks : Call(j) \/ Step(j)

Spec == Init /\ [][Next]_vars

\* Threads that can run do run.
Fairness == WF_vars(Take) /\ \A j \in Tasks : WF_vars(Step(j))
FairSpec == Spec /\ Fairness

----------------------------------------------------------------------------
(* Properties.                                                             *)

\* The sorts of all variables; the pool runs one task at a time and nothing is
\* pending outside a transaction.
TypeOK ==
    /\ open \in BOOLEAN /\ up \in BOOLEAN /\ crossed \in BOOLEAN
    /\ dirty \subseteq AllRows /\ disk \subseteq AllRows
    /\ queue \in Seq(Pooled)
    /\ running \subseteq Pooled /\ \A i, j \in running : i = j
    /\ at \in [Tasks -> {"idle", "queued", "begin", "write", "undo", "ended"}]
    /\ part \in [Tasks -> Nat] /\ count \in [Tasks -> Nat]
    /\ \A j \in Tasks : part[j] \in DOMAIN Batches[j]
    /\ answer \in [Tasks -> {"none", "true", "false", "thrown"}]
    /\ faults \in Nat
    /\ ~open => dirty = {}

\* Whenever the process dies, the disk holds each transaction as a whole or
\* not at all, whatever other threads do with the connection.
AllOrNothing ==
    \A j \in Tasks : \A p \in DOMAIN Batches[j] :
        Rows(j, p) \subseteq disk \/ Rows(j, p) \intersect disk = {}

\* The same as long as no writer that bypasses the pool met another one inside
\* a transaction, and no statement failed unnoticed.
WholeUnlessCrossed == ~crossed => AllOrNothing

\* A caller told "true" finds its rows after a restart, one told "false" or
\* given an exception finds none: a retry neither loses nor doubles them.
AnswersTell ==
    ~crossed => \A j \in Tasks \ Careless :
        /\ answer[j] = "true" => Rows(j, 1) \subseteq disk
        /\ answer[j] \in {"false", "thrown"} /\ part[j] = 1 =>
              Rows(j, 1) \intersect disk = {}

\* A session row is only written for messages that are stored, and the
\* messages of a session only deleted when the session is.
LaterPartsFollow ==
    ~crossed => \A j \in Tasks \ Careless : \A p \in DOMAIN Batches[j] :
        Rows(j, p) \intersect disk # {} =>
            \A q \in 1 .. p - 1 : Rows(j, q) \subseteq disk

\* No caller waits for ever: a task that was handed over ends, whatever fails,
\* unless the process does.
EveryCallReturns ==
    \A j \in Tasks : at[j] # "idle" ~> (at[j] = "ended" \/ ~up)

\* Until transactions cross, the connection implements a store with atomic
\* transactions.
A == INSTANCE AtomicStore WITH disk <- disk
Atomic == A!Init /\ [][A!Next \/ crossed']_disk
=============================================================================
