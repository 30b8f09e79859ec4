----------------------- MODULE DbConnection_proofs -----------------------
(***************************************************************************)
(* Proofs about DbConnection, for any number of tasks, transactions and    *)
(* rows: the sorts of its variables in every case, and, as long as no two  *)
(* transactions overlapped, atomic transactions.                           *)
(***************************************************************************)
EXTENDS DbConnection, TLAPS

\* What waits in the queue waits there once, and runs nowhere.
Queued ==
    /\ \A i \in DOMAIN queue : at[queue[i]] = "queued"
    /\ \A i, k \in DOMAIN queue : queue[i] = queue[k] => i = k

\* A task of the pool that is at work is the one its thread runs.
Runs == \A j \in Pooled : at[j] \in {"begin", "write", "undo"} => j \in running

\* One thread at most is inside a transaction.
Single == \A i, j \in Tasks : Inside(i) /\ Inside(j) => i = j

\* The rows the current transaction of j has written so far.
Pending(j) == {<<j, part[j], i>> : i \in 1 .. count[j]}

\* The open transaction is that of the thread inside.
Ownership ==
    up => \A j \in Tasks : at[j] = "write" =>
        open /\ dirty = Pending(j) /\ count[j] <= Batches[j][part[j]]
OpenMeansInside == open => \E j \in Tasks : Inside(j)

\* On the disk: whole transactions, and none of those still to come.
Whole ==
    \A j \in Tasks : \A p \in DOMAIN Batches[j] :
        \/ Rows(j, p) \intersect disk = {}
        \/ Rows(j, p) \subseteq disk /\ (p < part[j] \/ (p = part[j] /\ at[j] = "ended"))
Sequential ==
    \A j \in Tasks \ Careless : \A q \in 1 .. part[j] - 1 : Rows(j, q) \subseteq disk
Told ==
    \A j \in Tasks \ Careless :
        /\ answer[j] \in {"none", "false"} => part[j] = 1
        /\ answer[j] = "none" => at[j] # "ended"
        /\ answer[j] = "true" => Rows(j, 1) \subseteq disk
        /\ answer[j] \in {"false", "thrown"} /\ part[j] = 1 => Rows(j, 1) \intersect disk = {}
        /\ answer[j] \in {"false", "thrown"} => at[j] = "ended"

\* What holds until transactions cross; the pool is in order in any case.
Sound == Single /\ Ownership /\ OpenMeansInside /\ Whole /\ Sequential /\ Told
IInv == TypeOK /\ Queued /\ Runs /\ (~crossed => Sound)

-----------------------------------------------------------------------------
(* Sorts.                                                                  *)

LEMMA BatchSizes ==
  ASSUME NEW j \in Tasks
  PROVE  /\ Batches[j] \in Seq(Nat \ {0})
         /\ DOMAIN Batches[j] = 1 .. Len(Batches[j]) /\ Len(Batches[j]) \in Nat \ {0}
         /\ \A p \in DOMAIN Batches[j] : Batches[j][p] \in Nat \ {0}
  BY TaskAssumption

LEMMA TypeInit == Init => TypeOK
<1> SUFFICES ASSUME Init PROVE TypeOK
  OBVIOUS
<1>1. \A j \in Tasks : 1 \in DOMAIN Batches[j]
  BY BatchSizes
<1>2. open \in BOOLEAN /\ up \in BOOLEAN /\ crossed \in BOOLEAN
  BY DEF Init
<1>3. /\ dirty \subseteq AllRows /\ disk \subseteq AllRows
      /\ queue \in Seq(Pooled) /\ running \subseteq Pooled /\ \A i, k \in running : i = k
  BY DEF Init
<1>4. /\ at \in [Tasks -> {"idle", "queued", "begin", "write", "undo", "ended"}]
      /\ part \in [Tasks -> Nat] /\ count \in [Tasks -> Nat]
      /\ answer \in [Tasks -> {"none", "true", "false", "thrown"}]
      /\ faults \in Nat /\ (~open => dirty = {})
  BY DEF Init
<1>5. \A j \in Tasks : part[j] \in DOMAIN Batches[j]
  BY <1>1 DEF Init
<1> QED BY <1>2, <1>3, <1>4, <1>5 DEF TypeOK

LEMMA LeaveType ==
  ASSUME TypeOK, NEW j \in Tasks, Leave(j)
  PROVE  /\ at' \in [Tasks -> {"idle", "queued", "begin", "write", "undo", "ended"}]
         /\ running' \subseteq Pooled /\ \A i, k \in running' : i = k
  BY DEF TypeOK, Leave

LEMMA EndPartType ==
  ASSUME TypeOK, NEW j \in Tasks, NEW ok \in BOOLEAN, EndPart(j, ok)
  PROVE  /\ at' \in [Tasks -> {"idle", "queued", "begin", "write", "undo", "ended"}]
         /\ running' \subseteq Pooled /\ \A i, k \in running' : i = k
         /\ part' \in [Tasks -> Nat]
         /\ \A i \in Tasks : part'[i] \in DOMAIN Batches[i]
         /\ answer' \in [Tasks -> {"none", "true", "false", "thrown"}]
<1>1. answer' \in [Tasks -> {"none", "true", "false", "thrown"}]
  BY DEF EndPart, TypeOK
<1>2. CASE GoesOn(j, ok)
  <2>1. part' = [part EXCEPT ![j] = part[j] + 1] /\ part[j] < Len(Batches[j])
    BY <1>2 DEF EndPart, GoesOn
  <2>2. part'[j] \in DOMAIN Batches[j]
    BY <2>1, BatchSizes DEF TypeOK
  <2>3. part' \in [Tasks -> Nat] /\ \A i \in Tasks : part'[i] \in DOMAIN Batches[i]
    BY <2>1, <2>2 DEF TypeOK
  <2>4. at' = [at EXCEPT ![j] = "begin"] /\ running' = running
    BY <1>2 DEF EndPart
  <2> QED BY <1>1, <2>3, <2>4 DEF TypeOK
<1>3. CASE ~GoesOn(j, ok)
  BY <1>1, <1>3, LeaveType DEF EndPart, TypeOK
<1> QED BY <1>2, <1>3

LEMMA TypeStep == TypeOK /\ [Next]_vars => TypeOK'
<1> SUFFICES ASSUME TypeOK, [Next]_vars PROVE TypeOK'
  OBVIOUS
<1>1. CASE UNCHANGED vars
  BY <1>1 DEF vars, db, pool, ctl, TypeOK
<1>2. CASE Take
  <2>1. Head(queue) \in Pooled /\ Tail(queue) \in Seq(Pooled)
    BY <1>2 DEF Take, TypeOK
  <2> QED BY <1>2, <2>1 DEF Take, Free, TypeOK, db, Pooled
<1>3. CASE Crash
  BY <1>3 DEF Crash, TypeOK, pool, ctl
<1>4. ASSUME NEW j \in Tasks, Call(j) PROVE TypeOK'
  <2>1. queue' \in Seq(Pooled)
    BY <1>4 DEF Call, TypeOK, Pooled
  <2>2. at' \in [Tasks -> {"idle", "queued", "begin", "write", "undo", "ended"}]
    BY <1>4 DEF Call, TypeOK
  <2> QED BY <1>4, <2>1, <2>2 DEF Call, TypeOK, db
<1>5. ASSUME NEW j \in Tasks, Begin(j) PROVE TypeOK'
  <2>1. \/ ~open /\ open' = TRUE
        \/ open' = open
    BY <1>5, Zenon DEF Begin
  <2>2. (at' = [at EXCEPT ![j] = "write"] \/ at' = [at EXCEPT ![j] = "undo"])
    BY <1>5 DEF Begin
  <2>3. faults' \in Nat /\ crossed' \in BOOLEAN
    <3>1. faults' \in Nat
      BY <1>5 DEF Begin, Fault, TypeOK
    <3>2. crossed' \in BOOLEAN
      BY <1>5, Zenon DEF Begin, Cross, TypeOK
    <3> QED BY <3>1, <3>2
  <2>4. count' \in [Tasks -> Nat]
    BY <1>5 DEF Begin, TypeOK
  <2>5. dirty' = dirty
    BY <1>5 DEF Begin
  <2>6. open' \in BOOLEAN
    BY <2>1 DEF TypeOK
  <2>7. ~open' => dirty' = {}
    BY <2>1, <2>5 DEF TypeOK
  <2> QED BY <1>5, <2>2, <2>3, <2>4, <2>5, <2>6, <2>7 DEF Begin, TypeOK, pool
<1>6. ASSUME NEW j \in Tasks, Write(j) PROVE TypeOK'
  <2> DEFINE row == <<j, part[j], count[j] + 1>>
  <2>1. row \in Rows(j, part[j])
    BY <1>6, BatchSizes DEF Write, Rows, TypeOK
  <2>2. row \in AllRows
    BY <2>1 DEF AllRows, TypeOK
  <2>3. dirty' \subseteq AllRows /\ disk' \subseteq AllRows /\ (~open => dirty' = {})
    BY <1>6, <2>2 DEF Write, TypeOK
  <2>4. faults' \in Nat /\ count' \in [Tasks -> Nat]
    BY <1>6 DEF Write, Fault, TypeOK
  <2>5. crossed' \in BOOLEAN
    BY <1>6, Zenon DEF Write, TypeOK
  <2> QED BY <1>6, <2>3, <2>4, <2>5 DEF Write, TypeOK, pool
<1>7. ASSUME NEW j \in Tasks, Commit(j) PROVE TypeOK'
  <2>1. CASE /\ open /\ disk' = disk \union dirty /\ dirty' = {} /\ open' = FALSE
             /\ EndPart(j, TRUE) /\ UNCHANGED faults
    BY <1>7, <2>1, EndPartType DEF Commit, TypeOK
  <2>2. CASE /\ at' = [at EXCEPT ![j] = "undo"]
             /\ UNCHANGED <<disk, running, part, answer>>
             /\ \/ ~open /\ UNCHANGED <<open, dirty, faults>>
                \/ open /\ Fault("commit") /\ UNCHANGED <<open, dirty>>
                \/ open /\ Fault("commit") /\ open' = FALSE /\ dirty' = {}
    <3>1. faults' \in Nat
      BY <2>2 DEF Fault, TypeOK
    <3>2. /\ open' \in BOOLEAN /\ dirty' \subseteq AllRows
          /\ (~open' => dirty' = {})
      BY <2>2 DEF TypeOK
    <3> QED BY <1>7, <2>2, <3>1, <3>2 DEF Commit, TypeOK
  <2> QED BY <1>7, <2>1, <2>2 DEF Commit
<1>8. ASSUME NEW j \in Tasks, Undo(j) PROVE TypeOK'
  <2>1. CASE open
    BY <1>8, <2>1, EndPartType DEF Undo, TypeOK
  <2>2. CASE ~open
    BY <1>8, <2>2, LeaveType DEF Undo, TypeOK
  <2> QED BY <2>1, <2>2
<1> QED BY <1>1, <1>2, <1>3, <1>4, <1>5, <1>6, <1>7, <1>8 DEF Next, Step

\* The sorts of all variables, and a pool that runs one task at a time.
THEOREM TypeCorrect == Spec => []TypeOK
  BY TypeInit, TypeStep, PTL DEF Spec

-----------------------------------------------------------------------------
(* Atomic transactions.                                                    *)

LEMMA RowsApart ==
  ASSUME NEW i \in Tasks, NEW j \in Tasks, NEW p, NEW q, i # j \/ p # q
  PROVE  Rows(i, p) \intersect Rows(j, q) = {}
  BY DEF Rows

LEMMA InitIInv == Init => IInv
<1> SUFFICES ASSUME Init PROVE IInv
  OBVIOUS
<1>1. TypeOK
  BY TypeInit
<1>2. Queued /\ Runs /\ Single /\ Ownership /\ OpenMeansInside
  BY DEF Init, Queued, Runs, Pooled, Single, Ownership, OpenMeansInside, Inside
<1>3. Whole /\ Sequential /\ Told
  BY DEF Init, Whole, Sequential, Told
<1> QED BY <1>1, <1>2, <1>3 DEF IInv, Sound

\* The queue, when the task of a step is not in it and no other one moves.
LEMMA QueueKept ==
  ASSUME TypeOK, Queued, NEW j \in Tasks, at[j] # "queued", queue' = queue,
         \A i \in Tasks \ {j} : at'[i] = at[i]
  PROVE  Queued'
<1>1. \A i \in DOMAIN queue : queue[i] \in Tasks \ {j}
  BY DEF Queued, TypeOK, Pooled
<1> QED BY <1>1 DEF Queued

LEMMA NextQueued == TypeOK /\ Queued /\ [Next]_vars => Queued'
<1> SUFFICES ASSUME TypeOK, Queued, [Next]_vars PROVE Queued'
  OBVIOUS
<1>1. CASE UNCHANGED vars \/ Crash
  BY <1>1 DEF vars, pool, ctl, Crash, Queued
<1>2. CASE Take
  <2> DEFINE h == Head(queue)
  <2>1. /\ h \in Tasks /\ queue # << >> /\ queue' = Tail(queue)
        /\ at' = [at EXCEPT ![h] = "begin"]
    BY <1>2 DEF Take, TypeOK, Pooled
  <2>2. 1 \in DOMAIN queue /\ h = queue[1] /\ at[h] = "queued"
    BY <2>1 DEF Queued, TypeOK
  <2>3. \A i \in DOMAIN queue' : queue'[i] = queue[i + 1] /\ i + 1 \in DOMAIN queue /\ i \in Nat
    BY <2>1 DEF TypeOK
  <2>4. \A i \in DOMAIN queue' : queue'[i] # h /\ at[queue'[i]] = "queued" /\ queue'[i] \in Tasks
    BY <2>2, <2>3, <2>1 DEF Queued, TypeOK, Pooled
  <2>5. \A i \in DOMAIN queue' : at'[queue'[i]] = "queued"
    BY <2>1, <2>4 DEF TypeOK
  <2>6. \A i, k \in DOMAIN queue' : queue'[i] = queue'[k] => i = k
    BY <2>3 DEF Queued
  <2> QED BY <2>5, <2>6 DEF Queued
<1>3. ASSUME NEW j \in Tasks, Call(j) PROVE Queued'
  <2>1. at[j] = "idle" /\ \A i \in Tasks \ {j} : at'[i] = at[i]
    BY <1>3 DEF Call, TypeOK
  <2>2. CASE j \in Direct
    BY <1>3, <2>1, <2>2, QueueKept DEF Call
  <2>3. CASE j \notin Direct
    <3>1. queue' = Append(queue, j) /\ at'[j] = "queued"
      BY <1>3, <2>3 DEF Call, TypeOK
    <3>2. \A i \in DOMAIN queue : queue[i] \in Tasks /\ queue[i] # j /\ queue'[i] = queue[i]
      BY <2>1, <3>1 DEF Queued, TypeOK, Pooled
    <3>3. DOMAIN queue' = DOMAIN queue \union {Len(queue) + 1} /\ queue'[Len(queue) + 1] = j
          /\ Len(queue) + 1 \notin DOMAIN queue
      BY <3>1 DEF TypeOK
    <3>4. \A i \in DOMAIN queue' : at'[queue'[i]] = "queued"
      BY <2>1, <3>1, <3>2, <3>3 DEF Queued
    <3>5. \A i, k \in DOMAIN queue' : queue'[i] = queue'[k] => i = k
      BY <3>2, <3>3 DEF Queued
    <3> QED BY <3>4, <3>5 DEF Queued
  <2> QED BY <2>2, <2>3
<1>4. ASSUME NEW j \in Tasks, Step(j) PROVE Queued'
  <2>1. at[j] # "queued" /\ queue' = queue
    BY <1>4 DEF Step, Begin, Write, Commit, Undo, pool
  <2>2. \E v : at' = [at EXCEPT ![j] = v]
    <3>1. ASSUME NEW ok, EndPart(j, ok) PROVE \E v : at' = [at EXCEPT ![j] = v]
      BY <3>1 DEF EndPart, Leave
    <3>2. CASE Begin(j)
      BY <3>2 DEF Begin
    <3>3. CASE Write(j)
      <4>1. at' = [at EXCEPT ![j] = at[j]]
        BY <3>3 DEF Write, TypeOK
      <4> QED BY <4>1
    <3>4. CASE Commit(j)
      BY <3>1, <3>4 DEF Commit
    <3>5. CASE Undo(j)
      BY <3>1, <3>5 DEF Undo, Leave
    <3> QED BY <1>4, <3>2, <3>3, <3>4, <3>5 DEF Step
  <2>3. \A i \in Tasks \ {j} : at'[i] = at[i]
    BY <2>2 DEF TypeOK
  <2> QED BY <2>1, <2>3, QueueKept
<1> QED BY <1>1, <1>2, <1>3, <1>4 DEF Next

LEMMA NextRuns == TypeOK /\ Runs /\ [Next]_vars => Runs'
<1> SUFFICES ASSUME TypeOK, Runs, [Next]_vars PROVE Runs'
  OBVIOUS
<1>1. CASE UNCHANGED vars \/ Crash
  BY <1>1 DEF vars, pool, ctl, Crash, Runs
<1>2. CASE Take
  BY <1>2 DEF Take, Runs, TypeOK
<1>3. ASSUME NEW j \in Tasks, Call(j) PROVE Runs'
  BY <1>3 DEF Call, Runs, TypeOK, Pooled
<1>4. ASSUME NEW j \in Tasks, Begin(j) PROVE Runs'
  <2>1. \A i \in Tasks : i # j => at'[i] = at[i]
    BY <1>4 DEF Begin, TypeOK
  <2> QED BY <1>4, <2>1 DEF Begin, Runs, Pooled, pool
<1>5. ASSUME NEW j \in Tasks, Write(j) PROVE Runs'
  BY <1>5 DEF Write, Runs, pool
<1>6. ASSUME NEW j \in Tasks, NEW ok \in BOOLEAN, EndPart(j, ok), at[j] \in {"write", "undo"}
      PROVE  Runs'
  <2>1. \A i \in Tasks : i # j => at'[i] = at[i]
    BY <1>6 DEF EndPart, Leave, TypeOK
  <2>2. \/ running' = running
        \/ running' = running \ {j} /\ at'[j] = "ended"
    BY <1>6 DEF EndPart, Leave, TypeOK
  <2> QED BY <1>6, <2>1, <2>2 DEF Runs, Pooled
<1>7. ASSUME NEW j \in Tasks, Commit(j) PROVE Runs'
  <2>1. CASE EndPart(j, TRUE)
    BY <1>6, <1>7, <2>1 DEF Commit
  <2>2. CASE at' = [at EXCEPT ![j] = "undo"] /\ running' = running
    BY <1>7, <2>2 DEF Commit, Runs, TypeOK
  <2> QED BY <1>7, <2>1, <2>2 DEF Commit
<1>8. ASSUME NEW j \in Tasks, Undo(j) PROVE Runs'
  <2>1. CASE EndPart(j, FALSE)
    BY <1>6, <1>8, <2>1 DEF Undo
  <2>2. CASE Leave(j)
    BY <1>8, <2>2 DEF Undo, Leave, Runs, TypeOK
  <2> QED BY <1>8, <2>1, <2>2 DEF Undo
<1> QED BY <1>1, <1>2, <1>3, <1>4, <1>5, <1>7, <1>8 DEF Next, Step

\* A transaction that ends, in a commit or in a rollback, keeps what is sound.
LEMMA EndPartKeeps ==
  ASSUME TypeOK, Sound, NEW j \in Tasks, Inside(j), NEW ok \in BOOLEAN, EndPart(j, ok),
         up' = up, ~open', count' = count,
         disk' = IF ok THEN disk \union Rows(j, part[j]) ELSE disk
  PROVE  Sound'
<1> USE DEF Sound
<1>1. /\ at' = [at EXCEPT ![j] = IF GoesOn(j, ok) THEN "begin" ELSE "ended"]
      /\ part' = IF GoesOn(j, ok) THEN [part EXCEPT ![j] = part[j] + 1] ELSE part
  BY DEF EndPart, Leave
<1>2. \A i \in Tasks : /\ i # j => at'[i] = at[i] /\ part'[i] = part[i] /\ ~Inside(i)
                       /\ part[i] \in Nat /\ part[i] \in DOMAIN Batches[i]
  BY <1>1 DEF TypeOK, Single
<1>3. at'[j] = (IF GoesOn(j, ok) THEN "begin" ELSE "ended")
      /\ part'[j] = (IF GoesOn(j, ok) THEN part[j] + 1 ELSE part[j])
  BY <1>1 DEF TypeOK
<1>4. \A i \in Tasks : ~Inside(i)'
  BY <1>2, <1>3 DEF Inside
<1>5. Single' /\ Ownership' /\ OpenMeansInside'
  BY <1>4 DEF Single, Ownership, OpenMeansInside, Inside
<1>7. Whole'
  <2> SUFFICES ASSUME NEW i \in Tasks, NEW p \in DOMAIN Batches[i]
               PROVE  \/ Rows(i, p) \intersect disk' = {}
                      \/ Rows(i, p) \subseteq disk' /\ (p < part'[i] \/ (p = part'[i] /\ at'[i] = "ended"))
    BY DEF Whole, Rows
  <2>1. CASE i = j /\ p = part[j] /\ ok
    <3>1. Rows(i, p) \subseteq disk'
      BY <2>1
    <3>2. CASE GoesOn(j, ok)
      BY <1>2, <1>3, <2>1, <3>1, <3>2
    <3>3. CASE ~GoesOn(j, ok)
      BY <1>3, <2>1, <3>1, <3>3
    <3> QED BY <3>2, <3>3
  <2>2. CASE ~(i = j /\ p = part[j] /\ ok)
    <3>1. Rows(i, p) \intersect disk' = Rows(i, p) \intersect disk
      BY <2>2, RowsApart
    <3>2. disk \subseteq disk'
      OBVIOUS
    <3>3. \/ Rows(i, p) \intersect disk = {}
          \/ Rows(i, p) \subseteq disk /\ (p < part[i] \/ (p = part[i] /\ at[i] = "ended"))
      BY DEF Whole
    <3>4. p < part[i] => p < part'[i]
      BY <1>2, <1>3, BatchSizes
    <3>5. i = j => at[i] # "ended"
      BY DEF Inside
    <3> QED BY <1>2, <3>1, <3>2, <3>3, <3>4, <3>5
  <2> QED BY <2>1, <2>2
<1>8. Sequential'
  <2> SUFFICES ASSUME NEW i \in Tasks \ Careless, NEW q \in 1 .. part'[i] - 1
               PROVE  Rows(i, q) \subseteq disk'
    BY DEF Sequential, Rows
  <2>1. CASE q \in 1 .. part[i] - 1
    BY <2>1 DEF Sequential
  <2>2. CASE q \notin 1 .. part[i] - 1
    <3>1. i = j /\ GoesOn(j, ok) /\ q = part[j]
      BY <1>2, <1>3, <2>2
    <3> QED BY <3>1 DEF GoesOn
  <2> QED BY <2>1, <2>2
<1>9. Told'
  <2> SUFFICES ASSUME NEW i \in Tasks \ Careless
               PROVE  /\ answer'[i] \in {"none", "false"} => part'[i] = 1
                      /\ answer'[i] = "none" => at'[i] # "ended"
                      /\ answer'[i] = "true" => Rows(i, 1) \subseteq disk'
                      /\ answer'[i] \in {"false", "thrown"} /\ part'[i] = 1
                            => Rows(i, 1) \intersect disk' = {}
                      /\ answer'[i] \in {"false", "thrown"} => at'[i] = "ended"
    BY DEF Told, Rows
  <2>1. answer' = IF part[j] > 1 THEN answer
                  ELSE [answer EXCEPT ![j] = IF ok \/ j \in Careless THEN "true" ELSE "false"]
    BY DEF EndPart
  <2>2. CASE i # j
    <3>1. answer'[i] = answer[i] /\ at'[i] = at[i] /\ part'[i] = part[i]
      BY <1>2, <2>1, <2>2 DEF TypeOK
    <3>2. part[i] = 1 => Rows(i, 1) \intersect disk' = Rows(i, 1) \intersect disk
      BY <2>2, RowsApart
    <3>3. disk \subseteq disk'
      OBVIOUS
    <3> QED BY <3>1, <3>2, <3>3 DEF Told
  <2>3. CASE i = j /\ part[j] > 1
    <3>1. answer'[i] = answer[i] /\ at[i] # "ended"
      BY <2>1, <2>3 DEF Inside
    <3>2. answer[i] = "true"
      BY <2>3, <3>1 DEF Told, TypeOK
    <3>3. Rows(i, 1) \subseteq disk'
      BY <3>1, <3>2 DEF Told
    <3> QED BY <3>1, <3>2, <3>3
  <2>4. CASE i = j /\ ~(part[j] > 1)
    <3>1. part[j] = 1 /\ answer'[j] = (IF ok THEN "true" ELSE "false")
      <4>1. part[j] = 1
        BY <1>2, <2>4, BatchSizes
      <4> QED BY <2>1, <2>4, <4>1 DEF TypeOK
    <3>2. 1 \in DOMAIN Batches[j] /\ at[j] # "ended" /\ ~(1 < part[j])
      BY <1>2, <3>1 DEF Inside
    <3>3. Rows(j, 1) \intersect disk = {}
      BY <3>2 DEF Whole
    <3>4. ~ok => ~GoesOn(j, ok)
      BY <2>4 DEF GoesOn
    <3>5. ~ok => part'[j] = 1 /\ at'[j] = "ended" /\ Rows(j, 1) \intersect disk' = {}
      BY <1>3, <3>1, <3>2, <3>3, <3>4
    <3>6. ok => Rows(j, 1) \subseteq disk'
      BY <3>1
    <3> QED BY <2>4, <3>1, <3>5, <3>6
  <2> QED BY <2>2, <2>3, <2>4
<1> QED BY <1>5, <1>7, <1>8, <1>9

\* A step that leaves the disk alone and ends no task keeps what the disk holds.
LEMMA DiskKept ==
  ASSUME Sound, disk' = disk, part' = part, answer' = answer,
         \A i \in Tasks : at[i] = "ended" <=> at'[i] = "ended"
  PROVE  Whole' /\ Sequential' /\ Told'
<1> USE DEF Sound
<1>1. Whole' /\ Sequential'
  BY DEF Whole, Sequential, Rows
<1>2. Told'
  BY DEF Told, Rows
<1> QED BY <1>1, <1>2

LEMMA NextSound ==
  ASSUME TypeOK, Queued, Runs, ~crossed => Sound, [Next]_vars, ~crossed'
  PROVE  Sound'
<1> USE DEF Sound
<1>0. Sound
  BY DEF Next, vars, Take, Crash, Call, Step, Begin, Cross, Write, Commit, Undo, TypeOK
<1> HIDE DEF Sound
<1>1. CASE UNCHANGED vars
  BY <1>0, <1>1 DEF vars, db, pool, ctl, Sound, Single, Ownership, OpenMeansInside,
     Whole, Sequential, Told, Inside, Pending, Rows
<1>2. CASE Take
  <2> DEFINE h == Head(queue)
  <2>1. /\ h \in Tasks /\ queue # << >> /\ at' = [at EXCEPT ![h] = "begin"]
    BY <1>2 DEF Take, TypeOK, Pooled
  <2>2. at[h] = "queued"
    BY <2>1 DEF Queued, TypeOK
  <2>3. \A i \in Tasks : /\ at'[i] = "ended" <=> at[i] = "ended"
                         /\ at'[i] = "write" <=> at[i] = "write"
                         /\ at'[i] = "undo" <=> at[i] = "undo"
    BY <2>1, <2>2 DEF TypeOK
  <2>4. Whole' /\ Sequential' /\ Told'
    BY <1>0, <1>2, <2>3, DiskKept DEF Take, db
  <2>5. Single' /\ Ownership' /\ OpenMeansInside'
    BY <1>0, <1>2, <2>3 DEF Take, db, Sound, Single, Ownership, OpenMeansInside, Inside, Pending
  <2> QED BY <2>4, <2>5 DEF Sound
<1>3. CASE Crash
  <2>1. Single' /\ Ownership' /\ OpenMeansInside'
    BY <1>0, <1>3 DEF Crash, ctl, Sound, Single, Ownership, OpenMeansInside, Inside
  <2>2. Whole' /\ Sequential' /\ Told'
    BY <1>0, <1>3, DiskKept DEF Crash, ctl
  <2> QED BY <2>1, <2>2 DEF Sound
<1>4. ASSUME NEW j \in Tasks, Call(j) PROVE Sound'
  <2>1. \A i \in Tasks : /\ at'[i] = "ended" <=> at[i] = "ended"
                         /\ at'[i] = "write" <=> at[i] = "write"
                         /\ at'[i] = "undo" <=> at[i] = "undo"
    BY <1>4 DEF Call, TypeOK
  <2>2. Whole' /\ Sequential' /\ Told'
    BY <1>0, <1>4, <2>1, DiskKept DEF Call, db
  <2>3. Single' /\ Ownership' /\ OpenMeansInside'
    BY <1>0, <1>4, <2>1 DEF Call, db, Sound, Single, Ownership, OpenMeansInside, Inside, Pending
  <2> QED BY <2>2, <2>3 DEF Sound
<1>5. ASSUME NEW j \in Tasks, Begin(j) PROVE Sound'
  <2>1. up /\ at[j] = "begin" /\ \A i \in Tasks : ~Inside(i)
    <3>1. up /\ at[j] = "begin"
      BY <1>5 DEF Begin
    <3>2. ASSUME NEW i \in Tasks \ {j}, Inside(i) PROVE FALSE
      <4>1. i \in Pooled /\ j \in Pooled
        BY <1>5, <3>2 DEF Begin, Cross, Pooled
      <4>2. i \in running /\ j \in running
        BY <3>1, <3>2, <4>1 DEF Runs, Inside
      <4> QED BY <4>2 DEF TypeOK
    <3> QED BY <3>1, <3>2 DEF Inside
  <2>2. ~open /\ dirty = {}
    BY <1>0, <2>1 DEF Sound, OpenMeansInside, TypeOK
  <2>3. /\ dirty' = dirty /\ disk' = disk /\ part' = part /\ answer' = answer /\ up' = up
        /\ count' = [count EXCEPT ![j] = 0]
    BY <1>5 DEF Begin, pool
  <2>4. \/ open' /\ at' = [at EXCEPT ![j] = "write"]
        \/ open' = open /\ at' = [at EXCEPT ![j] = "undo"]
    BY <1>5, <2>2 DEF Begin
  <2>5. \A i \in Tasks : /\ i # j => at'[i] = at[i] /\ at'[i] \notin {"write", "undo"}
                         /\ at'[j] \in {"write", "undo"}
                         /\ at'[j] = "write" => open'
    BY <2>1, <2>4 DEF TypeOK, Inside
  <2>6. count'[j] = 0 /\ Pending(j)' = {} /\ Batches[j][part[j]] \in Nat
    BY <2>3, BatchSizes DEF TypeOK, Pending
  <2>7. Single' /\ OpenMeansInside'
    BY <2>5 DEF Single, OpenMeansInside, Inside
  <2>8. Ownership'
    <3>1. \A i \in Tasks : at'[i] = "write" => i = j
      BY <2>5
    <3> QED BY <2>2, <2>3, <2>5, <2>6, <3>1 DEF Ownership
  <2>9. Whole' /\ Sequential' /\ Told'
    BY <1>0, <2>1, <2>3, <2>5, DiskKept
  <2> QED BY <2>7, <2>8, <2>9 DEF Sound
<1>6. ASSUME NEW j \in Tasks, Write(j) PROVE Sound'
  <2>1. up /\ at[j] = "write" /\ open /\ dirty = Pending(j) /\ count[j] < Batches[j][part[j]]
    BY <1>0, <1>6 DEF Write, Sound, Ownership
  <2>2. /\ dirty' = dirty \union {<<j, part[j], count[j] + 1>>} /\ disk' = disk
        /\ count' = [count EXCEPT ![j] = count[j] + 1]
        /\ open' = open /\ at' = at /\ part' = part /\ answer' = answer /\ up' = up
    BY <1>6, <2>1 DEF Write, pool
  <2>3. count'[j] = count[j] + 1 /\ count[j] \in Nat /\ Batches[j][part[j]] \in Nat
    BY <2>2, BatchSizes DEF TypeOK
  <2>4. Pending(j)' = dirty'
    BY <2>1, <2>2, <2>3 DEF Pending
  <2>5. Single' /\ OpenMeansInside'
    BY <1>0, <2>2 DEF Sound, Single, OpenMeansInside, Inside
  <2>6. Ownership'
    <3>1. \A i \in Tasks : at[i] = "write" => i = j
      BY <1>0, <2>1 DEF Sound, Single, Inside
    <3> QED BY <2>1, <2>2, <2>3, <2>4, <3>1 DEF Ownership
  <2>7. Whole' /\ Sequential' /\ Told'
    BY <1>0, <2>2, DiskKept
  <2> QED BY <2>5, <2>6, <2>7 DEF Sound
<1>7. ASSUME NEW j \in Tasks, Commit(j) PROVE Sound'
  <2>1. up /\ at[j] = "write" /\ open /\ dirty = Pending(j) /\ Inside(j)
        /\ count[j] = Batches[j][part[j]] /\ count' = count /\ up' = up
    BY <1>0, <1>7 DEF Commit, Sound, Ownership, Inside
  <2>2. dirty = Rows(j, part[j])
    BY <2>1 DEF Pending, Rows
  <2>3. CASE disk' = disk \union dirty /\ dirty' = {} /\ open' = FALSE /\ EndPart(j, TRUE)
    <3>1. ~open'
      BY <2>3
    <3> QED BY <1>0, <2>1, <2>2, <2>3, <3>1, EndPartKeeps
  <2>4. CASE /\ at' = [at EXCEPT ![j] = "undo"]
             /\ UNCHANGED <<disk, running, part, answer>>
             /\ (open' = open \/ ~open')
    <3>1. \A i \in Tasks : /\ i # j => at'[i] = at[i] /\ at'[i] \notin {"write", "undo"}
                           /\ at'[j] = "undo"
      BY <1>0, <2>1, <2>4 DEF TypeOK, Sound, Single, Inside
    <3>2. Single' /\ Ownership' /\ OpenMeansInside'
      BY <3>1 DEF Single, Ownership, OpenMeansInside, Inside
    <3>3. Whole' /\ Sequential' /\ Told'
      BY <1>0, <2>1, <2>4, <3>1, DiskKept
    <3> QED BY <3>2, <3>3 DEF Sound
  <2> QED BY <1>7, <2>1, <2>3, <2>4 DEF Commit
<1>8. ASSUME NEW j \in Tasks, Undo(j) PROVE Sound'
  <2>1. up /\ at[j] = "undo" /\ Inside(j) /\ disk' = disk /\ count' = count /\ up' = up
    BY <1>8 DEF Undo, Inside
  <2>2. CASE open /\ open' = FALSE /\ EndPart(j, FALSE)
    <3>1. ~open'
      BY <2>2
    <3> QED BY <1>0, <2>1, <2>2, <3>1, EndPartKeeps
  <2>3. CASE /\ ~open /\ answer' = [answer EXCEPT ![j] = "thrown"]
             /\ Leave(j) /\ open' = open /\ part' = part
    <3>1. at' = [at EXCEPT ![j] = "ended"]
      BY <2>3 DEF Leave
    <3>2. \A i \in Tasks : /\ i # j => at'[i] = at[i] /\ answer'[i] = answer[i]
                                       /\ at'[i] \notin {"write", "undo"}
                           /\ at'[j] = "ended" /\ answer'[j] = "thrown"
      BY <1>0, <2>1, <2>3, <3>1 DEF TypeOK, Sound, Single, Inside
    <3>4. Single' /\ Ownership' /\ OpenMeansInside'
      BY <2>3, <3>2 DEF Single, Ownership, OpenMeansInside, Inside
    <3>5. Whole' /\ Sequential'
      BY <1>0, <2>1, <2>3, <3>2 DEF Sound, Whole, Sequential, Rows
    <3>6. part[j] = 1 => Rows(j, 1) \intersect disk = {}
      BY <1>0, <2>1, BatchSizes DEF Sound, Whole
    <3>7. Told'
      BY <1>0, <2>1, <2>3, <3>2, <3>6 DEF Sound, Told, Rows
    <3> QED BY <3>4, <3>5, <3>7 DEF Sound
  <2> QED BY <1>8, <2>2, <2>3 DEF Undo
<1> QED BY <1>1, <1>2, <1>3, <1>4, <1>5, <1>6, <1>7, <1>8 DEF Next, Step

LEMMA Invariance == Spec => []IInv
<1>1. Init => IInv
  BY InitIInv
<1>2. IInv /\ [Next]_vars => IInv'
  BY TypeStep, NextQueued, NextRuns, NextSound DEF IInv
<1> QED BY <1>1, <1>2, PTL DEF Spec

\* As long as no direct writer met another and no statement failed in silence:
\* whenever the process dies, the disk holds each one as a whole or not at all.
THEOREM TransactionsAtomic == Spec => []WholeUnlessCrossed
<1>1. IInv => WholeUnlessCrossed
  BY DEF IInv, Sound, Whole, AllOrNothing, WholeUnlessCrossed
<1> QED BY <1>1, Invariance, PTL

\* In the same case: "true" means stored, and anything else means untouched.
THEOREM AnswersTrue == Spec => []AnswersTell
<1>1. IInv => AnswersTell
  BY DEF IInv, Sound, Told, AnswersTell
<1> QED BY <1>1, Invariance, PTL

\* In the same case: no session without its messages.
THEOREM PartsInOrder == Spec => []LaterPartsFollow
<1>1. IInv => LaterPartsFollow
  <2> SUFFICES ASSUME IInv, ~crossed, NEW j \in Tasks \ Careless, NEW p \in DOMAIN Batches[j],
                      Rows(j, p) \intersect disk # {}, NEW q \in 1 .. p - 1
               PROVE  Rows(j, q) \subseteq disk
    BY DEF LaterPartsFollow
  <2>1. p <= part[j] /\ p \in Nat /\ part[j] \in Nat
    <3>1. p < part[j] \/ p = part[j]
      BY DEF IInv, Sound, Whole
    <3>2. p \in Nat /\ part[j] \in Nat
      BY BatchSizes DEF IInv, TypeOK
    <3> QED BY <3>1, <3>2
  <2>2. q \in 1 .. part[j] - 1
    BY <2>1
  <2> QED BY <2>2 DEF IInv, Sound, Sequential
<1> QED BY <1>1, Invariance, PTL

\* In the same case the connection implements AtomicStore: each step
\* puts one whole transaction on the disk, in its task's order, or nothing.
THEOREM Refinement == Spec => Atomic
<1>1. Init => A!Init
  BY DEF Init, A!Init
<1>2. IInv /\ [Next]_vars => [A!Next \/ crossed']_disk
  <2> SUFFICES ASSUME IInv, [Next]_vars, ~crossed' PROVE [A!Next]_disk
    BY Zenon
  <2>0. TypeOK /\ Sound
    BY DEF IInv, Next, vars, Take, Crash, Call, Step, Begin, Cross, Write, Commit, Undo, TypeOK
  <2>1. CASE UNCHANGED vars \/ Take \/ Crash
    BY <2>1 DEF vars, db, Take, Crash
  <2>2. ASSUME NEW j \in Tasks, Call(j) \/ Begin(j) \/ Undo(j) PROVE disk' = disk
    BY <2>2 DEF Call, Begin, Undo, db
  <2>3. ASSUME NEW j \in Tasks, Write(j) PROVE disk' = disk
    BY <2>0, <2>3 DEF Write, Sound, Ownership
  <2>4. ASSUME NEW j \in Tasks, Commit(j) PROVE [A!Next]_disk
    <3>1. open /\ dirty = Rows(j, part[j]) /\ part[j] \in DOMAIN Batches[j] /\ part[j] \in Nat
      BY <2>0, <2>4 DEF Commit, Sound, Ownership, Pending, Rows, TypeOK
    <3>2. CASE disk' = disk
      BY <3>2
    <3>3. CASE disk' = disk \union dirty
      <4>1. \A q : A!Rows(j, q) = Rows(j, q)
        BY DEF A!Rows, Rows
      <4>2. A!Apply(j, part[j])
        BY <2>0, <3>1, <3>3, <4>1 DEF A!Apply, Sound, Sequential
      <4> QED BY <3>1, <4>2 DEF A!Next
    <3> QED BY <2>4, <3>2, <3>3 DEF Commit
  <2> QED BY <2>1, <2>2, <2>3, <2>4 DEF Next, Step
<1> QED BY <1>1, <1>2, Invariance, PTL DEF Spec, Atomic
=============================================================================
