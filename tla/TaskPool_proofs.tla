-------------------------- MODULE TaskPool_proofs --------------------------
(***************************************************************************)
(* Proofs about TaskPool, for any number of pools and tasks, any nesting   *)
(* the assumptions allow and any pools that are destroyed at any moment.   *)
(***************************************************************************)
EXTENDS TaskPool, SequenceTheorems, TLAPS

\* The destructor is past its first line.
Stopping == \A p \in Pools : ending[p] \in {"clear", "notify", "join", "gone"} => stop[p]

\* A task in a queue is of that pool, once; its caller waits, and its thread is
\* not at it.
Queued ==
    \A p \in Pools :
        /\ \A i \in DOMAIN queue[p] : /\ PoolOf[queue[p][i]] = p
                                      /\ caller[queue[p][i]] = "waiting"
                                      /\ queue[p][i] \notin running[p]
        /\ \A i, k \in DOMAIN queue[p] : queue[p][i] = queue[p][k] => i = k

\* So does the caller of the task that runs.
Runs == \A p \in Pools : \A j \in running[p] : PoolOf[j] = p /\ caller[j] = "waiting"

\* What a thread took it runs, or has answered.
Taken ==
    \A p \in Pools : \A i \in DOMAIN taken[p] :
        /\ PoolOf[taken[p][i]] = p
        /\ \/ caller[taken[p][i]] = "answered"
           \/ caller[taken[p][i]] = "waiting" /\ running[p] = {taken[p][i]}

IInv == TypeOK /\ Stopping /\ Queued /\ Runs /\ Taken

-----------------------------------------------------------------------------
(* Queues.                                                                 *)

\* Removing the first element.
LEMMA Popped ==
  ASSUME NEW S, NEW q \in Seq(S), q # << >>
  PROVE  /\ SubSeq(q, 1, 0) \o SubSeq(q, 2, Len(q)) = Tail(q)
         /\ Tail(q) \in Seq(S) /\ q[1] \in S /\ Head(q) = q[1]
         /\ Len(q) \in Nat \ {0} /\ Len(Tail(q)) = Len(q) - 1
         /\ DOMAIN q = 1 .. Len(q) /\ DOMAIN Tail(q) = 1 .. Len(q) - 1
         /\ \A i \in 1 .. Len(q) - 1 : Tail(q)[i] = q[i + 1]
<1>1. /\ Tail(q) \in Seq(S) /\ q[1] \in S /\ Head(q) = q[1]
      /\ Len(q) \in Nat \ {0} /\ Len(Tail(q)) = Len(q) - 1
      /\ DOMAIN q = 1 .. Len(q) /\ DOMAIN Tail(q) = 1 .. Len(q) - 1
      /\ \A i \in 1 .. Len(q) - 1 : Tail(q)[i] = q[i + 1]
  OBVIOUS
<1>2. SubSeq(q, 1, 0) = << >>
  OBVIOUS
<1>3. SubSeq(q, 2, Len(q)) = Tail(q)
  BY <1>1
<1>4. << >> \o Tail(q) = Tail(q)
  BY <1>1
<1> QED
  BY <1>1, <1>2, <1>3, <1>4

\* Adding an element at the end.
LEMMA Pushed ==
  ASSUME NEW S, NEW q \in Seq(S), NEW e \in S
  PROVE  /\ Append(q, e) \in Seq(S)
         /\ Len(q) \in Nat /\ DOMAIN q = 1 .. Len(q)
         /\ DOMAIN Append(q, e) = 1 .. Len(q) + 1
         /\ \A i \in 1 .. Len(q) : Append(q, e)[i] = q[i]
         /\ Append(q, e)[Len(q) + 1] = e
  OBVIOUS

\* The first of the second sequence may as well be the last of the first.
LEMMA Handed ==
  ASSUME NEW S, NEW s \in Seq(S), NEW q \in Seq(S), q # << >>
  PROVE  s \o q = Append(s, q[1]) \o Tail(q)
<1> DEFINE one == << q[1] >>
<1>1. q[1] \in S /\ Tail(q) \in Seq(S) /\ one \in Seq(S)
  BY Popped
<1>2. q = one \o Tail(q)
  <2>1. one \o Tail(q) \in Seq(S)
    BY <1>1, ConcatProperties
  <2>2. Len(one \o Tail(q)) = Len(q)
    BY <1>1, Popped, ConcatProperties
  <2>3. ASSUME NEW i \in 1 .. Len(q) PROVE (one \o Tail(q))[i] = q[i]
    BY <1>1, Popped, ConcatProperties
  <2> QED
    BY <2>1, <2>2, <2>3, SeqEqual
<1>3. (s \o one) \o Tail(q) = s \o (one \o Tail(q))
  BY <1>1, ConcatAssociative
<1>4. Append(s, q[1]) = s \o one
  BY <1>1, AppendIsConcat
<1> QED
  BY <1>2, <1>3, <1>4

-----------------------------------------------------------------------------
(* The inductive invariant.                                                *)

LEMMA Initially == Init => IInv /\ NoLostTask /\ RunsInOrder
<1> SUFFICES ASSUME Init PROVE IInv /\ NoLostTask /\ RunsInOrder
  OBVIOUS
<1>1. TypeOK
  BY DEF Init, TypeOK
<1>2. Stopping /\ Queued /\ Runs /\ Taken
  BY DEF Init, Stopping, Queued, Runs, Taken
<1>3. NoLostTask
  BY DEF Init, NoLostTask
<1>4. << >> = << >> \o << >>
  BY ConcatEmptySeq, EmptySeq
<1>5. RunsInOrder
  BY <1>4 DEF Init, RunsInOrder
<1> QED
  BY <1>1, <1>2, <1>3, <1>5 DEF IInv

\* A step of the worker that neither takes a task nor ends one.
LEMMA Idle ==
  ASSUME IInv, NEW p \in Pools, Loop(p) \/ Test(p) \/ Sleep(p) \/ Stir(p)
  PROVE  IInv'
<1> USE DEF IInv
<1>1. /\ UNCHANGED <<queue, running, stop, ending, caller, accepted, taken, up>>
      /\ worker[p] # "run"
      /\ \E w \in {"exited", "enter", "grab", "drowsy", "asleep"} :
            worker' = [worker EXCEPT ![p] = w]
  BY DEF Loop, Test, Sleep, Stir, history
<1>2. TypeOK'
  BY <1>1 DEF TypeOK
<1>3. Stopping' /\ Queued' /\ Runs' /\ Taken'
  BY <1>1 DEF Stopping, Queued, Runs, Taken
<1> QED
  BY <1>2, <1>3

\* A step that only moves a pool's end on, and Collide and Exit.
LEMMA Ending ==
  ASSUME IInv, NEW p \in Pools, Delete(p) \/ Halt(p) \/ Collide(p) \/ Exit
  PROVE  IInv'
<1> USE DEF IInv
<1>1. UNCHANGED <<queue, worker, running, caller, accepted, taken>>
  BY DEF Delete, Halt, Collide, Exit, history
<1>2. TypeOK' /\ Stopping'
  BY <1>1 DEF TypeOK, Stopping, Delete, Halt, Collide, Exit
<1>3. Queued' /\ Runs' /\ Taken'
  BY <1>1 DEF Queued, Runs, Taken
<1> QED
  BY <1>2, <1>3

LEMMA Notified ==
  ASSUME IInv, NEW p \in Pools, Notify(p)
  PROVE  IInv'
<1> USE DEF IInv
<1>1. /\ UNCHANGED <<queue, running, stop, caller, accepted, taken, up>>
      /\ ending[p] = "notify" /\ ending' = [ending EXCEPT ![p] = "join"]
      /\ \/ worker' = worker
         \/ worker[p] = "asleep" /\ worker' = [worker EXCEPT ![p] = "enter"]
  BY DEF Notify, Woken, history
<1>2. TypeOK' /\ Stopping'
  BY <1>1 DEF TypeOK, Stopping
<1>3. Queued' /\ Runs' /\ Taken'
  BY <1>1 DEF Queued, Runs, Taken
<1> QED
  BY <1>2, <1>3

LEMMA Called ==
  ASSUME IInv, NEW j \in Jobs, Call(j)
  PROVE  IInv'
<1> USE DEF IInv
<1>1. /\ UNCHANGED <<queue, worker, running, stop, ending, accepted, taken, up>>
      /\ caller[j] = "idle"
      /\ \E c \in {"thrown", "entering"} : caller' = [caller EXCEPT ![j] = c]
  BY DEF Call, history
<1>2. TypeOK' /\ Stopping'
  BY <1>1 DEF TypeOK, Stopping
<1>3. \A k \in Jobs : caller[k] \in {"waiting", "answered"} => caller'[k] = caller[k]
  BY <1>1 DEF TypeOK
<1>4. Queued'
  BY <1>1, <1>3 DEF Queued, TypeOK
<1>5. Runs'
  BY <1>1, <1>3 DEF Runs, TypeOK
<1>6. Taken'
  BY <1>1, <1>3 DEF Taken, TypeOK
<1> QED
  BY <1>2, <1>4, <1>5, <1>6

LEMMA Inserted ==
  ASSUME IInv, NEW j \in Jobs, Insert(j)
  PROVE  IInv'
<1> DEFINE p == PoolOf[j]
<1> USE DEF IInv
<1>0. p \in Pools
  BY PoolAssumption
<1>1. /\ UNCHANGED <<running, stop, ending, taken, up>>
      /\ caller[j] = "entering" /\ caller' = [caller EXCEPT ![j] = "waiting"]
      /\ queue' = [queue EXCEPT ![p] = Append(@, j)]
      /\ accepted' = [accepted EXCEPT ![p] = Append(@, j)]
      /\ \/ worker' = worker
         \/ worker[p] = "asleep" /\ worker' = [worker EXCEPT ![p] = "enter"]
  BY DEF Insert, Woken
<1>2. TypeOK'
  <2>1. queue[p] \in Seq(Jobs) /\ accepted[p] \in Seq(Jobs)
    BY <1>0 DEF TypeOK
  <2>2. Append(queue[p], j) \in Seq(Jobs) /\ Append(accepted[p], j) \in Seq(Jobs)
    BY <2>1, Pushed
  <2> HIDE DEF p
  <2>3. queue' \in [Pools -> Seq(Jobs)] /\ accepted' \in [Pools -> Seq(Jobs)]
    BY <1>0, <1>1, <2>2 DEF TypeOK
  <2> QED
    BY <1>0, <1>1, <2>3 DEF TypeOK
<1>3. Stopping'
  BY <1>1 DEF Stopping
<1>4. \A k \in Jobs : caller[k] \in {"waiting", "answered"}
                       => k # j /\ caller'[k] = caller[k]
  BY <1>1 DEF TypeOK
<1>5. caller'[j] = "waiting"
  BY <1>1 DEF TypeOK
<1>6. Queued'
  <2> SUFFICES ASSUME NEW r \in Pools
               PROVE  /\ \A i \in DOMAIN queue'[r] :
                            /\ PoolOf[queue'[r][i]] = r /\ caller'[queue'[r][i]] = "waiting"
                            /\ queue'[r][i] \notin running[r]
                      /\ \A i, k \in DOMAIN queue'[r] : queue'[r][i] = queue'[r][k] => i = k
    BY <1>1 DEF Queued
  <2>1. /\ queue[r] \in Seq(Jobs) /\ DOMAIN queue[r] = 1 .. Len(queue[r]) /\ Len(queue[r]) \in Nat
        /\ \A i \in 1 .. Len(queue[r]) :
              /\ queue[r][i] \in Jobs
              /\ PoolOf[queue[r][i]] = r /\ caller[queue[r][i]] = "waiting"
              /\ queue[r][i] \notin running[r]
        /\ \A i, k \in 1 .. Len(queue[r]) : queue[r][i] = queue[r][k] => i = k
    BY LenProperties, ElementOfSeq DEF Queued, TypeOK
  <2>2. CASE r # p
    <3>1. queue'[r] = queue[r]
      BY <1>1, <2>2 DEF TypeOK
    <3> QED
      BY <1>4, <2>1, <3>1
  <2>3. CASE r = p
    <3>1. queue'[r] = Append(queue[r], j)
      BY <1>0, <1>1, <2>3 DEF TypeOK
    <3>2. /\ DOMAIN queue'[r] = 1 .. Len(queue[r]) + 1
          /\ \A i \in 1 .. Len(queue[r]) : queue'[r][i] = queue[r][i]
          /\ queue'[r][Len(queue[r]) + 1] = j
      BY <2>1, <3>1, Pushed
    <3>3. j \notin running[r]
      BY <1>1 DEF Runs
    <3> DEFINE n == Len(queue[r])
    <3>4. ASSUME NEW i \in 1 .. n + 1, i # n + 1
          PROVE  /\ i \in 1 .. n /\ queue'[r][i] = queue[r][i]
                 /\ PoolOf[queue'[r][i]] = r /\ caller'[queue'[r][i]] = "waiting"
                 /\ queue'[r][i] \notin running[r] /\ queue'[r][i] # j
      <4>1. i \in 1 .. n
        BY <2>1, <3>4
      <4>2. queue'[r][i] = queue[r][i]
        BY <3>2, <4>1
      <4> QED
        BY <1>4, <2>1, <4>1, <4>2
    <3>5. \A i \in 1 .. n + 1 : /\ PoolOf[queue'[r][i]] = r
                                /\ caller'[queue'[r][i]] = "waiting"
                                /\ queue'[r][i] \notin running[r]
      BY <1>5, <2>3, <3>2, <3>3, <3>4
    <3>6. ASSUME NEW i \in 1 .. n + 1, NEW k \in 1 .. n + 1, queue'[r][i] = queue'[r][k]
          PROVE  i = k
      <4>1. CASE i = n + 1 \/ k = n + 1
        BY <3>2, <3>4, <3>6, <4>1
      <4>2. CASE i # n + 1 /\ k # n + 1
        BY <2>1, <3>4, <3>6, <4>2
      <4> QED
        BY <4>1, <4>2
    <3> QED
      BY <3>2, <3>5, <3>6
  <2> QED
    BY <2>2, <2>3
<1>7. Runs'
  BY <1>1, <1>4 DEF Runs, TypeOK
<1>8. Taken'
  BY <1>1, <1>4, LenProperties, ElementOfSeq DEF Taken, TypeOK
<1> QED
  BY <1>2, <1>3, <1>6, <1>7, <1>8

\* What Grab does when the queue is not empty.
LEMMA Grabbed ==
  ASSUME IInv, NEW p \in Pools, Grab(p), queue[p] # << >>
  PROVE  /\ queue[p][1] \in Jobs
         /\ running' = [running EXCEPT ![p] = {queue[p][1]}]
         /\ queue' = [queue EXCEPT ![p] = Tail(queue[p])]
         /\ taken' = [taken EXCEPT ![p] = Append(taken[p], queue[p][1])]
         /\ worker' = [worker EXCEPT ![p] = "run"]
         /\ worker[p] = "grab"
         /\ UNCHANGED <<stop, ending, caller, accepted, up>>
<1>1. queue[p] \in Seq(Jobs) /\ queue \in [Pools -> Seq(Jobs)]
  BY DEF IInv, TypeOK
<1>2. /\ SubSeq(queue[p], 1, 0) \o SubSeq(queue[p], 2, Len(queue[p])) = Tail(queue[p])
      /\ queue[p][1] \in Jobs
  BY <1>1, Popped
<1>3. queue' = [queue EXCEPT ![p] =
                  SubSeq(queue[p], 1, 1 - 1) \o SubSeq(queue[p], 1 + 1, Len(queue[p]))]
  BY <1>1 DEF Grab, NextIndex
<1>4. queue' = [queue EXCEPT ![p] = Tail(queue[p])]
  <2>1. 1 - 1 = 0 /\ 1 + 1 = 2
    OBVIOUS
  <2> QED
    BY <1>2, <1>3, <2>1
<1> QED
  BY <1>2, <1>4 DEF Grab, NextIndex

LEMMA GrabKeeps ==
  ASSUME IInv, NEW p \in Pools, Grab(p)
  PROVE  IInv'
<1> USE DEF IInv
<1>1. CASE queue[p] = << >>
  <2>1. UNCHANGED <<queue, worker, running, stop, ending, caller, accepted, taken>>
        /\ up' = FALSE
    BY <1>1 DEF Grab
  <2>2. TypeOK' /\ Stopping'
    BY <2>1 DEF TypeOK, Stopping
  <2>3. Queued' /\ Runs' /\ Taken'
    BY <2>1 DEF Queued, Runs, Taken
  <2> QED
    BY <2>2, <2>3
<1>2. CASE queue[p] # << >>
  <2> DEFINE q == queue[p]
             e == q[1]
  <2>1. /\ e \in Jobs
        /\ running' = [running EXCEPT ![p] = {e}]
        /\ queue' = [queue EXCEPT ![p] = Tail(q)]
        /\ taken' = [taken EXCEPT ![p] = Append(taken[p], e)]
        /\ worker' = [worker EXCEPT ![p] = "run"]
        /\ worker[p] = "grab"
        /\ UNCHANGED <<stop, ending, caller, accepted, up>>
    BY <1>2, Grabbed
  <2>2. q \in Seq(Jobs) /\ taken[p] \in Seq(Jobs)
    BY DEF TypeOK
  <2>3. /\ Tail(q) \in Seq(Jobs) /\ Len(q) \in Nat \ {0}
        /\ DOMAIN q = 1 .. Len(q) /\ DOMAIN Tail(q) = 1 .. Len(q) - 1
        /\ \A i \in 1 .. Len(q) - 1 : Tail(q)[i] = q[i + 1]
    BY <1>2, <2>2, Popped
  <2>4. Append(taken[p], e) \in Seq(Jobs)
    BY <2>1, <2>2, Pushed
  <2>5. /\ \A i \in 1 .. Len(q) : /\ PoolOf[q[i]] = p /\ caller[q[i]] = "waiting"
        /\ \A i, k \in 1 .. Len(q) : q[i] = q[k] => i = k
    BY <2>3 DEF Queued
  <2>6. PoolOf[e] = p /\ caller[e] = "waiting"
    BY <2>3, <2>5
  <2>7. \A i \in 1 .. Len(q) - 1 :
           /\ PoolOf[Tail(q)[i]] = p /\ caller[Tail(q)[i]] = "waiting" /\ Tail(q)[i] # e
    BY <2>3, <2>5
  <2>8. \A i, k \in 1 .. Len(q) - 1 : Tail(q)[i] = Tail(q)[k] => i = k
    BY <2>3, <2>5
  <2>9. running[p] = {}
    BY <2>1 DEF TypeOK
  <2> HIDE DEF q, e
  <2>10. TypeOK'
    <3>1. queue' \in [Pools -> Seq(Jobs)] /\ taken' \in [Pools -> Seq(Jobs)]
      BY <2>1, <2>3, <2>4 DEF TypeOK
    <3>2. running' \in [Pools -> SUBSET Jobs]
      BY <2>1 DEF TypeOK
    <3>3. ASSUME NEW r \in Pools
          PROVE  IF worker'[r] = "run" THEN \E j \in Jobs : running'[r] = {j}
                                       ELSE running'[r] = {}
      BY <2>1 DEF TypeOK
    <3> QED
      BY <2>1, <3>1, <3>2, <3>3 DEF TypeOK
  <2>11. Stopping'
    BY <2>1 DEF Stopping
  <2>12. ASSUME NEW r \in Pools, r # p
         PROVE  /\ queue'[r] = queue[r] /\ running'[r] = running[r] /\ taken'[r] = taken[r]
    BY <2>1, <2>12 DEF TypeOK
  <2>13. queue'[p] = Tail(q) /\ running'[p] = {e} /\ taken'[p] = Append(taken[p], e)
    BY <2>1 DEF TypeOK
  <2>14. Queued'
    <3> SUFFICES ASSUME NEW r \in Pools
                 PROVE  /\ \A i \in DOMAIN queue'[r] :
                              /\ PoolOf[queue'[r][i]] = r /\ caller[queue'[r][i]] = "waiting"
                              /\ queue'[r][i] \notin running'[r]
                        /\ \A i, k \in DOMAIN queue'[r] :
                              queue'[r][i] = queue'[r][k] => i = k
      BY <2>1 DEF Queued
    <3>1. CASE r = p
      <4>1. /\ queue'[r] = Tail(q) /\ running'[r] = {e}
            /\ DOMAIN queue'[r] = 1 .. Len(q) - 1
        BY <2>3, <2>13, <3>1
      <4> QED
        BY <2>7, <2>8, <3>1, <4>1
    <3>2. CASE r # p
      BY <2>12, <3>2 DEF Queued
    <3> QED
      BY <3>1, <3>2
  <2>15. Runs'
    BY <2>1, <2>6, <2>12, <2>13 DEF Runs
  <2>16. Taken'
    <3> SUFFICES ASSUME NEW r \in Pools, NEW i \in DOMAIN taken'[r]
                 PROVE  /\ PoolOf[taken'[r][i]] = r
                        /\ \/ caller[taken'[r][i]] = "answered"
                           \/ caller[taken'[r][i]] = "waiting" /\ running'[r] = {taken'[r][i]}
      BY <2>1 DEF Taken
    <3>1. CASE r # p
      BY <2>12, <3>1 DEF Taken
    <3>2. CASE r = p
      <4>1. /\ DOMAIN taken[p] = 1 .. Len(taken[p]) /\ Len(taken[p]) \in Nat
            /\ DOMAIN taken'[p] = 1 .. Len(taken[p]) + 1
            /\ \A k \in 1 .. Len(taken[p]) : taken'[p][k] = taken[p][k]
            /\ taken'[p][Len(taken[p]) + 1] = e
        BY <2>1, <2>2, <2>13, Pushed
      <4>2. CASE i = Len(taken[p]) + 1
        BY <2>6, <2>13, <3>2, <4>1, <4>2
      <4>3. CASE i # Len(taken[p]) + 1
        <5>1. i \in DOMAIN taken[p] /\ taken'[p][i] = taken[p][i]
          BY <3>2, <4>1, <4>3
        <5> QED
          BY <2>9, <3>2, <5>1 DEF Taken
      <4> QED
        BY <4>2, <4>3
    <3> QED
      BY <3>1, <3>2
  <2> QED
    BY <2>10, <2>11, <2>14, <2>15, <2>16
<1> QED
  BY <1>1, <1>2

LEMMA Finished ==
  ASSUME IInv, NEW p \in Pools, NEW j \in Jobs, Finish(p, j)
  PROVE  IInv'
<1> USE DEF IInv
<1>1. CASE UNCHANGED <<worker, running, caller>> /\ up' = FALSE
  <2>1. UNCHANGED <<queue, worker, running, stop, ending, caller, accepted, taken>>
    BY <1>1 DEF Finish, history
  <2>2. TypeOK' /\ Stopping'
    BY <1>1, <2>1 DEF TypeOK, Stopping
  <2>3. Queued' /\ Runs' /\ Taken'
    BY <2>1 DEF Queued, Runs, Taken
  <2> QED
    BY <2>2, <2>3
<1>2. CASE ~(UNCHANGED <<worker, running, caller>> /\ up' = FALSE)
  <2>1. /\ worker[p] = "run" /\ worker' = [worker EXCEPT ![p] = "loop"]
        /\ running' = [running EXCEPT ![p] = {}]
        /\ caller' = [caller EXCEPT ![j] = "answered"]
        /\ UNCHANGED <<queue, stop, ending, accepted, taken, up>>
        /\ j \in running[p]
    BY <1>2 DEF Finish, Rested, history
  <2>2. running[p] = {j} /\ PoolOf[j] = p
    BY <2>1 DEF TypeOK, Runs
  <2>3. TypeOK' /\ Stopping'
    BY <2>1 DEF TypeOK, Stopping
  <2>4. caller'[j] = "answered" /\ \A k \in Jobs \ {j} : caller'[k] = caller[k]
    BY <2>1 DEF TypeOK
  <2>5. running'[p] = {} /\ \A r \in Pools \ {p} : running'[r] = running[r]
    BY <2>1 DEF TypeOK
  <2>6. ASSUME NEW r \in Pools, NEW i \in DOMAIN queue[r]
        PROVE  queue[r][i] \in Jobs \ {j}
    BY <2>2, LenProperties, ElementOfSeq DEF TypeOK, Queued
  <2>7. Queued'
    BY <2>1, <2>4, <2>5, <2>6 DEF Queued
  <2>8. Runs'
    <3> SUFFICES ASSUME NEW r \in Pools, NEW k \in running'[r]
                 PROVE  PoolOf[k] = r /\ caller'[k] = "waiting"
      BY DEF Runs
    <3>1. r # p /\ k \in running[r]
      BY <2>5
    <3>2. k \in Jobs /\ PoolOf[k] = r /\ caller[k] = "waiting"
      BY <3>1 DEF Runs, TypeOK
    <3> QED
      BY <2>2, <2>4, <3>1, <3>2
  <2>9. Taken'
    <3> SUFFICES ASSUME NEW r \in Pools, NEW i \in DOMAIN taken[r]
                 PROVE  /\ PoolOf[taken[r][i]] = r
                        /\ \/ caller'[taken[r][i]] = "answered"
                           \/ caller'[taken[r][i]] = "waiting" /\ running'[r] = {taken[r][i]}
      BY <2>1 DEF Taken
    <3>1. taken[r][i] \in Jobs
      BY LenProperties, ElementOfSeq DEF TypeOK
    <3> QED
      BY <2>2, <2>4, <2>5, <3>1 DEF Taken
  <2> QED
    BY <2>3, <2>7, <2>8, <2>9
<1> QED
  BY <1>1, <1>2

LEMMA Cleared ==
  ASSUME IInv, NEW p \in Pools, Clear(p)
  PROVE  IInv'
<1> USE DEF IInv
<1>1. CASE queue[p] = << >>
  <2>1. UNCHANGED <<queue, worker, running, stop, caller, accepted, taken, up>>
        /\ ending[p] = "clear" /\ ending' = [ending EXCEPT ![p] = "notify"]
    BY <1>1 DEF Clear, history
  <2>2. TypeOK' /\ Stopping'
    BY <2>1 DEF TypeOK, Stopping
  <2>3. Queued' /\ Runs' /\ Taken'
    BY <2>1 DEF Queued, Runs, Taken
  <2> QED
    BY <2>2, <2>3
<1>2. CASE queue[p] # << >>
  <2> DEFINE q == queue[p]
             e == Head(q)
  <2>1. /\ queue' = [queue EXCEPT ![p] = Tail(q)]
        /\ caller' = [caller EXCEPT ![e] = "thrown"]
        /\ UNCHANGED <<worker, running, stop, ending, accepted, taken, up>>
    BY <1>2 DEF Clear, history, TypeOK
  <2>2. q \in Seq(Jobs)
    BY DEF TypeOK
  <2>3. /\ Tail(q) \in Seq(Jobs) /\ Len(q) \in Nat \ {0} /\ e = q[1] /\ e \in Jobs
        /\ DOMAIN q = 1 .. Len(q) /\ DOMAIN Tail(q) = 1 .. Len(q) - 1
        /\ \A i \in 1 .. Len(q) - 1 : Tail(q)[i] = q[i + 1]
    BY <1>2, <2>2, Popped
  <2>4. /\ \A i \in 1 .. Len(q) : /\ PoolOf[q[i]] = p /\ caller[q[i]] = "waiting"
                                  /\ q[i] \notin running[p]
        /\ \A i, k \in 1 .. Len(q) : q[i] = q[k] => i = k
    BY <2>3 DEF Queued
  <2>5. PoolOf[e] = p /\ caller[e] = "waiting" /\ e \notin running[p]
    BY <2>3, <2>4
  <2>6. /\ \A i \in 1 .. Len(q) - 1 :
              /\ Tail(q)[i] \in Jobs \ {e}
              /\ PoolOf[Tail(q)[i]] = p /\ caller[Tail(q)[i]] = "waiting"
              /\ Tail(q)[i] \notin running[p]
        /\ \A i, k \in 1 .. Len(q) - 1 : Tail(q)[i] = Tail(q)[k] => i = k
    <3>1. \A i \in 1 .. Len(q) - 1 : Tail(q)[i] = q[i + 1] /\ i + 1 \in 1 .. Len(q)
      BY <2>3
    <3>2. \A i \in 1 .. Len(q) - 1 : Tail(q)[i] \in Jobs
      BY <2>2, <2>3, <3>1, ElementOfSeq
    <3> QED
      BY <2>3, <2>4, <3>1, <3>2
  <2> HIDE DEF q, e
  <2>7. TypeOK'
    <3>1. queue' \in [Pools -> Seq(Jobs)]
      BY <2>1, <2>3 DEF TypeOK
    <3> QED
      BY <2>1, <2>3, <3>1 DEF TypeOK
  <2>8. Stopping'
    BY <2>1 DEF Stopping
  <2>9. caller'[e] = "thrown" /\ \A k \in Jobs \ {e} : caller'[k] = caller[k]
    BY <2>1, <2>3 DEF TypeOK
  <2>10. queue'[p] = Tail(q) /\ \A r \in Pools \ {p} : queue'[r] = queue[r]
    BY <2>1 DEF TypeOK
  <2>11. Queued'
    <3> SUFFICES ASSUME NEW r \in Pools
                 PROVE  /\ \A i \in DOMAIN queue'[r] :
                              /\ PoolOf[queue'[r][i]] = r /\ caller'[queue'[r][i]] = "waiting"
                              /\ queue'[r][i] \notin running[r]
                        /\ \A i, k \in DOMAIN queue'[r] :
                              queue'[r][i] = queue'[r][k] => i = k
      BY <2>1 DEF Queued
    <3>1. CASE r = p
      <4>1. queue'[r] = Tail(q) /\ DOMAIN queue'[r] = 1 .. Len(q) - 1
        BY <2>3, <2>10, <3>1
      <4> QED
        BY <2>6, <2>9, <3>1, <4>1
    <3>2. CASE r # p
      <4>1. \A i \in DOMAIN queue[r] : queue[r][i] \in Jobs \ {e}
        BY <2>5, <3>2, LenProperties, ElementOfSeq DEF TypeOK, Queued
      <4> QED
        BY <2>9, <2>10, <3>2, <4>1 DEF Queued
    <3> QED
      BY <3>1, <3>2
  <2>12. Runs'
    BY <2>1, <2>5, <2>9 DEF Runs, TypeOK
  <2>13. Taken'
    <3> SUFFICES ASSUME NEW r \in Pools, NEW i \in DOMAIN taken[r]
                 PROVE  /\ PoolOf[taken[r][i]] = r
                        /\ \/ caller'[taken[r][i]] = "answered"
                           \/ caller'[taken[r][i]] = "waiting" /\ running[r] = {taken[r][i]}
      BY <2>1 DEF Taken
    <3>1. taken[r][i] \in Jobs
      BY LenProperties, ElementOfSeq DEF TypeOK
    <3>2. taken[r][i] # e
      BY <2>5 DEF Taken
    <3> QED
      BY <2>9, <3>1, <3>2 DEF Taken
  <2> QED
    BY <2>7, <2>8, <2>11, <2>12, <2>13
<1> QED
  BY <1>1, <1>2

LEMMA Joined ==
  ASSUME IInv, NEW p \in Pools, Join(p)
  PROVE  IInv'
<1> USE DEF IInv
<1>1. /\ ending[p] = "join" /\ worker[p] = "exited"
      /\ ending' = [ending EXCEPT ![p] = "gone"]
      /\ caller' = [j \in Jobs |-> IF PoolOf[j] = p /\ caller[j] = "waiting" THEN "thrown"
                                   ELSE caller[j]]
      /\ queue' = [queue EXCEPT ![p] = << >>]
      /\ UNCHANGED <<worker, running, stop, accepted, taken, up>>
  BY DEF Join, history
<1>2. TypeOK'
  <2>1. queue' \in [Pools -> Seq(Jobs)]
    BY <1>1, EmptySeq DEF TypeOK
  <2>2. caller' \in [Jobs -> {"idle", "entering", "waiting", "answered", "thrown"}]
    BY <1>1 DEF TypeOK
  <2>3. ending' \in [Pools -> {"no", "deleted", "clear", "notify", "join", "gone"}]
    BY <1>1 DEF TypeOK
  <2> QED
    BY <1>1, <2>1, <2>2, <2>3 DEF TypeOK
<1>3. Stopping'
  BY <1>1 DEF Stopping, TypeOK
<1>4. running[p] = {}
  BY <1>1 DEF TypeOK
<1>5. queue'[p] = << >> /\ \A r \in Pools \ {p} : queue'[r] = queue[r]
  BY <1>1 DEF TypeOK
<1>6. \A j \in Jobs : PoolOf[j] # p \/ caller[j] # "waiting" => caller'[j] = caller[j]
  BY <1>1
<1>7. Queued'
  <2> SUFFICES ASSUME NEW r \in Pools
               PROVE  /\ \A i \in DOMAIN queue'[r] :
                            /\ PoolOf[queue'[r][i]] = r /\ caller'[queue'[r][i]] = "waiting"
                            /\ queue'[r][i] \notin running[r]
                      /\ \A i, k \in DOMAIN queue'[r] : queue'[r][i] = queue'[r][k] => i = k
    BY <1>1 DEF Queued
  <2>1. CASE r = p
    <3>1. DOMAIN queue'[r] = {}
      BY <1>5, <2>1
    <3> QED
      BY <3>1
  <2>2. CASE r # p
    <3>1. \A i \in DOMAIN queue[r] : queue[r][i] \in Jobs
      BY LenProperties, ElementOfSeq DEF TypeOK
    <3> QED
      BY <1>5, <1>6, <2>2, <3>1 DEF Queued
  <2> QED
    BY <2>1, <2>2
<1>8. Runs'
  BY <1>1, <1>4, <1>6 DEF Runs, TypeOK
<1>9. Taken'
  <2> SUFFICES ASSUME NEW r \in Pools, NEW i \in DOMAIN taken[r]
               PROVE  /\ PoolOf[taken[r][i]] = r
                      /\ \/ caller'[taken[r][i]] = "answered"
                         \/ caller'[taken[r][i]] = "waiting" /\ running[r] = {taken[r][i]}
    BY <1>1 DEF Taken
  <2>1. taken[r][i] \in Jobs
    BY LenProperties, ElementOfSeq DEF TypeOK
  <2>2. PoolOf[taken[r][i]] # p \/ caller[taken[r][i]] # "waiting"
    BY <1>4 DEF Taken
  <2> QED
    BY <1>6, <2>1, <2>2 DEF Taken
<1> QED
  BY <1>2, <1>3, <1>7, <1>8, <1>9

LEMMA Step == IInv /\ [Next]_vars => IInv'
<1> SUFFICES ASSUME IInv, [Next]_vars PROVE IInv'
  OBVIOUS
<1>1. ASSUME NEW j \in Jobs, Call(j) \/ Insert(j) PROVE IInv'
  BY <1>1, Called, Inserted
<1>2. ASSUME NEW p \in Pools, Work(p) PROVE IInv'
  BY <1>2, Idle, GrabKeeps, Finished DEF Work
<1>3. ASSUME NEW p \in Pools, Close(p) PROVE IInv'
  BY <1>3, Ending, Cleared, Notified, Joined DEF Close
<1>4. ASSUME NEW p \in Pools, Stir(p) \/ Delete(p) \/ Collide(p) PROVE IInv'
  BY <1>4, Idle, Ending
<1>5. ASSUME Exit PROVE IInv'
  <2>1. \E p \in Pools : p \in Ends
    BY <1>5, PoolAssumption DEF Exit
  <2> QED
    BY <1>5, <2>1, Ending
<1>6. CASE UNCHANGED vars
  <2>1. UNCHANGED <<queue, worker, running, stop, ending, caller, accepted, taken, up>>
    BY <1>6 DEF vars, history
  <2>2. TypeOK' /\ Stopping'
    BY <2>1 DEF IInv, TypeOK, Stopping
  <2>3. Queued' /\ Runs' /\ Taken'
    BY <2>1 DEF IInv, Queued, Runs, Taken
  <2> QED
    BY <2>2, <2>3 DEF IInv
<1> QED
  BY <1>1, <1>2, <1>3, <1>4, <1>5, <1>6 DEF Next

-----------------------------------------------------------------------------
(* Two properties that are inductive beside it.                            *)

LEMMA NoLostTaskStep == IInv /\ NoLostTask /\ [Next]_vars => NoLostTask'
<1> SUFFICES ASSUME IInv, NoLostTask, [Next]_vars PROVE NoLostTask'
  OBVIOUS
<1> USE DEF IInv
<1>1. ASSUME NEW j \in Jobs, Call(j) PROVE NoLostTask'
  BY <1>1 DEF Call, NoLostTask
<1>2. ASSUME NEW j \in Jobs, Insert(j) PROVE NoLostTask'
  <2> DEFINE p == PoolOf[j]
  <2>1. p \in Pools /\ worker[p] \notin {"drowsy", "grab"}
    BY <1>2, PoolAssumption DEF Insert, MayInsert, Locked
  <2>2. worker'[p] \notin {"drowsy", "asleep"}
    BY <1>2, <2>1 DEF Insert, Woken, TypeOK
  <2>3. \A r \in Pools \ {p} : worker'[r] = worker[r] /\ queue'[r] = queue[r]
    BY <1>2, <2>1 DEF Insert, Woken, TypeOK
  <2> QED
    BY <2>1, <2>2, <2>3 DEF NoLostTask
<1>3. ASSUME NEW p \in Pools, Loop(p) \/ Test(p) \/ Sleep(p) \/ Stir(p) PROVE NoLostTask'
  BY <1>3 DEF Loop, Test, Sleep, Stir, NoLostTask, TypeOK
<1>4. ASSUME NEW p \in Pools, Grab(p) PROVE NoLostTask'
  <2>1. CASE queue[p] = << >>
    BY <1>4, <2>1 DEF Grab, NoLostTask
  <2>2. CASE queue[p] # << >>
    <3>1. /\ queue' = [queue EXCEPT ![p] = Tail(queue[p])]
          /\ worker' = [worker EXCEPT ![p] = "run"]
      BY <1>4, <2>2, Grabbed
    <3> QED
      BY <3>1 DEF NoLostTask, TypeOK
  <2> QED
    BY <2>1, <2>2
<1>5. ASSUME NEW p \in Pools, NEW j \in Jobs, Finish(p, j) PROVE NoLostTask'
  BY <1>5 DEF Finish, NoLostTask, TypeOK
<1>6. ASSUME NEW p \in Pools, Delete(p) \/ Halt(p) \/ Collide(p) PROVE NoLostTask'
  BY <1>6 DEF Delete, Halt, Collide, NoLostTask
<1>7. ASSUME NEW p \in Pools, Clear(p) \/ Join(p) PROVE NoLostTask'
  BY <1>7, EmptySeq DEF Clear, Join, NoLostTask, TypeOK
<1>8. ASSUME NEW p \in Pools, Notify(p) PROVE NoLostTask'
  BY <1>8 DEF Notify, Woken, NoLostTask, TypeOK
<1>9. CASE UNCHANGED vars
  BY <1>9 DEF vars, NoLostTask
<1>10. Exit => NoLostTask'
  BY DEF Exit, NoLostTask
<1> QED
  BY <1>1, <1>2, <1>3, <1>4, <1>5, <1>6, <1>7, <1>8, <1>9, <1>10 DEF Next, Work, Close

LEMMA RunsInOrderStep == IInv /\ RunsInOrder /\ [Next]_vars => RunsInOrder'
<1> SUFFICES ASSUME IInv, RunsInOrder, [Next]_vars PROVE RunsInOrder'
  OBVIOUS
<1> USE DEF IInv
<1>1. ASSUME NEW j \in Jobs, Call(j) PROVE RunsInOrder'
  BY <1>1 DEF Call, RunsInOrder, history
<1>2. ASSUME NEW j \in Jobs, Insert(j) PROVE RunsInOrder'
  <2> DEFINE p == PoolOf[j]
  <2>1. p \in Pools /\ queue[p] \in Seq(Jobs) /\ taken[p] \in Seq(Jobs)
    BY PoolAssumption DEF TypeOK
  <2>2. /\ queue'[p] = Append(queue[p], j) /\ accepted'[p] = Append(accepted[p], j)
        /\ \A r \in Pools \ {p} : queue'[r] = queue[r] /\ accepted'[r] = accepted[r]
        /\ UNCHANGED <<taken, stop>>
    BY <1>2, <2>1 DEF Insert, TypeOK
  <2> HIDE DEF p
  <2>3. Append(taken[p] \o queue[p], j) = taken[p] \o Append(queue[p], j)
    <3> DEFINE s == taken[p]
               q == queue[p]
    <3>1. s \in Seq(Jobs) /\ q \in Seq(Jobs) /\ j \in Jobs
      BY <2>1
    <3> HIDE DEF s, q
    <3>2. s \o q \in Seq(Jobs) /\ << j >> \in Seq(Jobs)
      BY <3>1, ConcatProperties
    <3>3. Append(s \o q, j) = (s \o q) \o << j >> /\ Append(q, j) = q \o << j >>
      BY <3>1, <3>2, AppendIsConcat
    <3>4. (s \o q) \o << j >> = s \o (q \o << j >>)
      BY <3>1, <3>2, ConcatAssociative
    <3> QED
      BY <3>3, <3>4 DEF s, q
  <2>4. ~stop'[p] => accepted'[p] = taken'[p] \o queue'[p]
    BY <2>1, <2>2, <2>3 DEF RunsInOrder
  <2> QED
    BY <2>1, <2>2, <2>4 DEF RunsInOrder
<1>3. ASSUME NEW p \in Pools, Loop(p) \/ Test(p) \/ Sleep(p) \/ Stir(p) PROVE RunsInOrder'
  BY <1>3 DEF Loop, Test, Sleep, Stir, RunsInOrder, history
<1>4. ASSUME NEW p \in Pools, Grab(p) PROVE RunsInOrder'
  <2>1. CASE queue[p] = << >>
    BY <1>4, <2>1 DEF Grab, RunsInOrder
  <2>2. CASE queue[p] # << >>
    <3>1. /\ queue' = [queue EXCEPT ![p] = Tail(queue[p])]
          /\ taken' = [taken EXCEPT ![p] = Append(taken[p], queue[p][1])]
          /\ UNCHANGED <<accepted, stop>>
      BY <1>4, <2>2, Grabbed
    <3>2. taken[p] \o queue[p] = Append(taken[p], queue[p][1]) \o Tail(queue[p])
      BY <2>2, Handed DEF TypeOK
    <3>3. taken'[p] \o queue'[p] = taken[p] \o queue[p]
      BY <3>1, <3>2 DEF TypeOK
    <3>4. \A r \in Pools \ {p} : taken'[r] = taken[r] /\ queue'[r] = queue[r]
      BY <3>1 DEF TypeOK
    <3> QED
      BY <3>1, <3>3, <3>4 DEF RunsInOrder
  <2> QED
    BY <2>1, <2>2
<1>5. ASSUME NEW p \in Pools, NEW j \in Jobs, Finish(p, j) PROVE RunsInOrder'
  BY <1>5 DEF Finish, RunsInOrder, history
<1>6. ASSUME NEW p \in Pools, Delete(p) \/ Collide(p) \/ Notify(p) PROVE RunsInOrder'
  BY <1>6 DEF Delete, Collide, Notify, RunsInOrder, history
<1>7. ASSUME NEW p \in Pools, Halt(p) PROVE RunsInOrder'
  BY <1>7 DEF Halt, RunsInOrder, history, TypeOK
<1>8. ASSUME NEW p \in Pools, Clear(p) \/ Join(p) PROVE RunsInOrder'
  <2>1. stop[p] /\ UNCHANGED <<stop, accepted, taken>>
    BY <1>8 DEF Clear, Join, Stopping, history
  <2>2. \A r \in Pools \ {p} : queue'[r] = queue[r]
    BY <1>8 DEF Clear, Join, TypeOK
  <2> QED
    BY <2>1, <2>2 DEF RunsInOrder
<1>9. CASE UNCHANGED vars
  BY <1>9 DEF vars, history, RunsInOrder
<1>10. Exit => RunsInOrder'
  BY DEF Exit, RunsInOrder, history
<1> QED
  BY <1>1, <1>2, <1>3, <1>4, <1>5, <1>6, <1>7, <1>8, <1>9, <1>10 DEF Next, Work, Close

-----------------------------------------------------------------------------
(* The theorems.                                                           *)

LEMMA Inductive == Spec => []IInv
<1>1. Init => IInv
  BY Initially
<1> QED
  BY <1>1, Step, PTL DEF Spec

\* The pools, their threads, their ends and their callers have their sorts, and
\* a thread that runs has one task.
THEOREM TypeCorrect == Spec => []TypeOK
<1>1. IInv => TypeOK
  BY DEF IInv
<1> QED
  BY <1>1, Inductive, PTL

\* enqueue and the worker's wait: no thread sleeps over a task, however the
\* callers, the spurious wake-ups and the destructor fall between its steps.
THEOREM NeverSleepsOverATask == Spec => []NoLostTask
<1>1. Init => NoLostTask
  BY Initially
<1> QED
  BY <1>1, Inductive, NoLostTaskStep, PTL DEF Spec

\* enqueue and the worker's pop: until stop, what was accepted is what was
\* taken followed by what is queued.
THEOREM TakesInOrder == Spec => []RunsInOrder
<1>1. Init => RunsInOrder
  BY Initially
<1> QED
  BY <1>1, Inductive, RunsInOrderStep, PTL DEF Spec

\* A broken promise means the task was not run: the destructor breaks only those
\* of tasks no thread took.
THEOREM ThrownWasNotRun == Spec => []ThrownNeverRuns
<1>1. IInv => ThrownNeverRuns
  BY DEF IInv, Taken, ThrownNeverRuns
<1> QED
  BY <1>1, Inductive, PTL
=============================================================================
