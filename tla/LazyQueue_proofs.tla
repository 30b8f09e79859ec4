-------------------------- MODULE LazyQueue_proofs --------------------------
(***************************************************************************)
(* Proofs about LazyQueue, for any number of pushes: any number of runners *)
(* at any place of the loop.                                               *)
(***************************************************************************)
EXTENDS LazyQueue, TLAPS

\* The queue holds the last elements pushed, in order.
Ordered ==
    /\ Len(queue) <= pushed
    /\ \A i \in DOMAIN queue : queue[i] <= pushed
    /\ \A i, k \in DOMAIN queue : i < k => queue[i] < queue[k]
    /\ queue # << >> => queue[Len(queue)] = pushed

\* What was served and what is being served came before what waits.
Served ==
    /\ \A e \in batch : e <= pushed /\ \A i \in DOMAIN queue : e < queue[i]
    /\ \A j \in DOMAIN shown : \A e \in shown[j] :
          /\ e <= pushed /\ (key # 0 => e < key)
          /\ \A i \in DOMAIN queue : e < queue[i]
          /\ kind # "search" => \A f \in batch : e < f

\* A search has its key from tail() on, and the others have none; when the
\* queue was found empty, the key came before what was pushed since.
Keyed ==
    /\ key <= pushed /\ (kind # "search" => key = 0)
    /\ \A r \in Elements :
          /\ runner[r] \in {"delay", "tail"} => key = 0 /\ batch = {}
          /\ runner[r] = "tail" => kind = "search"
          /\ runner[r] \in {"look", "take", "serve"} /\ kind = "search" /\ ~broken => key # 0
          /\ runner[r] = "serve" /\ key # 0 => \A i \in DOMAIN queue : key < queue[i]

\* Runners come with pushes, and after the destructor none goes on.
Started == \A r \in Elements : r > pushed => runner[r] = "none"
Stopped ==
    ended \in {"halted", "gone"} =>
        ~run /\ \A r \in Elements : ~InFunc(r) /\ runner[r] # "delay"

IInv == TypeOK /\ Ordered /\ Served /\ Keyed /\ Started /\ Stopped

-----------------------------------------------------------------------------
(* Queues.                                                                 *)

LEMMA Queue ==
  ASSUME NEW S, NEW q \in Seq(S)
  PROVE  /\ Len(q) \in Nat /\ DOMAIN q = 1 .. Len(q)
         /\ \A i \in DOMAIN q : q[i] \in S
         /\ q = << >> <=> Len(q) = 0
  OBVIOUS

LEMMA Popped ==
  ASSUME NEW S, NEW q \in Seq(S), q # << >>
  PROVE  /\ Tail(q) \in Seq(S) /\ q[1] \in S /\ Head(q) = q[1]
         /\ Len(q) \in Nat \ {0} /\ Len(Tail(q)) = Len(q) - 1
         /\ DOMAIN q = 1 .. Len(q) /\ DOMAIN Tail(q) = 1 .. Len(q) - 1
         /\ \A i \in 1 .. Len(q) - 1 : Tail(q)[i] = q[i + 1]
  OBVIOUS

LEMMA Pushed ==
  ASSUME NEW S, NEW q \in Seq(S), NEW e \in S
  PROVE  /\ Append(q, e) \in Seq(S) /\ Append(q, e) # << >>
         /\ Len(q) \in Nat /\ DOMAIN q = 1 .. Len(q)
         /\ Len(Append(q, e)) = Len(q) + 1
         /\ DOMAIN Append(q, e) = 1 .. Len(q) + 1
         /\ \A i \in 1 .. Len(q) : Append(q, e)[i] = q[i]
         /\ Append(q, e)[Len(q) + 1] = e
  OBVIOUS

\* An element of a queue that was pushed to is the new one or an old one.
LEMMA PushedAt ==
  ASSUME NEW S, NEW q \in Seq(S), NEW e \in S, NEW i \in DOMAIN Append(q, e)
  PROVE  \/ i = Len(q) + 1 /\ Append(q, e)[i] = e
         \/ i \in DOMAIN q /\ Append(q, e)[i] = q[i] /\ i # Len(q) + 1
<1>1. /\ Len(q) \in Nat /\ DOMAIN q = 1 .. Len(q)
      /\ DOMAIN Append(q, e) = 1 .. Len(q) + 1
      /\ \A k \in 1 .. Len(q) : Append(q, e)[k] = q[k]
      /\ Append(q, e)[Len(q) + 1] = e
  BY Pushed
<1>2. i \in 1 .. Len(q) \/ i = Len(q) + 1
  BY <1>1
<1> QED
  BY <1>1, <1>2

-----------------------------------------------------------------------------
(* The inductive invariant.                                                *)

LEMMA Numbers == MaxPush \in Nat /\ Elements = 1 .. MaxPush /\ 0 \notin Elements
  BY MaxPushAssumption DEF Elements

LEMMA Initially == Init => IInv
<1> SUFFICES ASSUME Init PROVE IInv
  OBVIOUS
<1>1. queue = << >> /\ shown = << >> /\ Len(queue) = 0 /\ DOMAIN queue = {} /\ DOMAIN shown = {}
  BY DEF Init
<1>2. TypeOK
  <2>1. /\ queue \in Seq(Elements) /\ shown \in Seq(SUBSET Elements)
        /\ pushed \in 0 .. MaxPush /\ holder \in 0 .. MaxPush /\ size \in 0 .. MaxPush
        /\ key \in 0 .. MaxPush
    BY <1>1, Numbers DEF Init
  <2>2. runner \in [Elements -> {"none", "test", "lock", "delay", "done"} \union Serving]
    BY DEF Init
  <2>3. \A r \in Elements : ~InFunc(r) /\ runner[r] # "delay"
    BY DEF Init, InFunc, Serving
  <2> QED
    BY <2>1, <2>2, <2>3 DEF Init, TypeOK
<1>3. Ordered /\ Served /\ Keyed /\ Started /\ Stopped
  BY <1>1, Numbers DEF Init, Ordered, Served, Keyed, Started, Stopped
<1> QED
  BY <1>2, <1>3 DEF IInv

LEMMA PushKeeps == IInv /\ Push => IInv'
<1> SUFFICES ASSUME IInv, Push PROVE IInv'
  OBVIOUS
<1> USE DEF IInv
<1> DEFINE e == pushed + 1
<1>1. /\ e \in Elements /\ pushed' = e /\ queue' = Append(queue, e) /\ ended = "no"
      /\ \E w \in {"test", "none"} : runner' = [runner EXCEPT ![e] = w]
      /\ missed' \in BOOLEAN
      /\ UNCHANGED <<holder, size, key, batch, shown, kind, run, ended, broken>>
  BY DEF Push, TypeOK, consumer, owner
<1>2. pushed \in Nat /\ e > pushed /\ queue \in Seq(Elements)
  BY Numbers DEF TypeOK
<1> HIDE DEF e
<1>3. /\ queue' \in Seq(Elements) /\ queue' # << >> /\ Len(queue) \in Nat
      /\ DOMAIN queue = 1 .. Len(queue)
      /\ Len(queue') = Len(queue) + 1 /\ DOMAIN queue' = 1 .. Len(queue) + 1
      /\ queue'[Len(queue) + 1] = e
  BY <1>1, <1>2, Pushed
<1>4. \A i \in DOMAIN queue' : \/ i = Len(queue) + 1 /\ queue'[i] = e
                               \/ i \in DOMAIN queue /\ queue'[i] = queue[i]
                                  /\ i # Len(queue) + 1
  BY <1>1, <1>2, PushedAt
<1>5. \A i \in DOMAIN queue : queue[i] \in Nat /\ queue[i] <= pushed /\ queue[i] < e
  BY <1>2, <1>3, Queue, Numbers DEF Ordered
<1>6. \A r \in Elements : r # e => runner'[r] = runner[r]
  BY <1>1 DEF TypeOK
<1>7. runner'[e] \in {"test", "none"}
  BY <1>1 DEF TypeOK
<1>8. TypeOK'
  <2>1. pushed' \in 0 .. MaxPush
    BY <1>1, Numbers
  <2>2. runner' \in [Elements -> {"none", "test", "lock", "delay", "done"} \union Serving]
    BY <1>1 DEF TypeOK
  <2>3. \A r \in Elements : (InFunc(r)' \/ runner'[r] = "delay") => holder' = r
    BY <1>1, <1>6, <1>7 DEF TypeOK, InFunc, Serving
  <2> QED
    BY <1>1, <1>3, <2>1, <2>2, <2>3 DEF TypeOK
<1>9. Ordered'
  <2>1. Len(queue') <= pushed'
    BY <1>1, <1>2, <1>3 DEF Ordered, e
  <2>2. \A i \in DOMAIN queue' : queue'[i] <= pushed'
    BY <1>1, <1>2, <1>4, <1>5 DEF e
  <2>3. ASSUME NEW i \in DOMAIN queue', NEW k \in DOMAIN queue', i < k
        PROVE  queue'[i] < queue'[k]
    <3>1. i # Len(queue) + 1
      BY <1>3, <2>3
    <3> QED
      BY <1>4, <1>5, <2>3, <3>1 DEF Ordered
  <2> QED
    BY <1>1, <1>3, <2>1, <2>2, <2>3 DEF Ordered
<1>10. Served'
  <2>1. ASSUME NEW n \in Nat, n <= pushed, \A i \in DOMAIN queue : n < queue[i]
        PROVE  n <= pushed' /\ \A i \in DOMAIN queue' : n < queue'[i]
    BY <1>1, <1>2, <1>4, <2>1 DEF e
  <2>2. \A f \in batch : f \in Nat
    BY Numbers DEF TypeOK
  <2>3. \A j \in DOMAIN shown : \A f \in shown[j] : f \in Nat
    BY Queue, Numbers DEF TypeOK
  <2> QED
    BY <1>1, <2>1, <2>2, <2>3 DEF Served
<1>11. Keyed'
  <2>1. key <= pushed /\ key \in Nat
    BY Numbers DEF Keyed, TypeOK
  <2>2. key' <= pushed' /\ (kind' # "search" => key' = 0)
    BY <1>1, <1>2, <2>1 DEF Keyed, e
  <2>3. ASSUME NEW r \in Elements
        PROVE  /\ runner'[r] \in {"delay", "tail"} => key' = 0 /\ batch' = {}
               /\ runner'[r] = "tail" => kind' = "search"
               /\ runner'[r] \in {"look", "take", "serve"} /\ kind' = "search" /\ ~broken'
                     => key' # 0
               /\ runner'[r] = "serve" /\ key' # 0 => \A i \in DOMAIN queue' : key' < queue'[i]
    <3>1. CASE r = e
      BY <1>7, <3>1
    <3>2. CASE r # e
      <4>1. runner'[r] = runner[r]
        BY <1>6, <3>2
      <4>2. key < e
        BY <1>2, <2>1 DEF e
      <4> QED
        BY <1>1, <1>4, <4>1, <4>2 DEF Keyed
    <3> QED
      BY <3>1, <3>2
  <2> QED
    BY <2>2, <2>3 DEF Keyed
<1>12. Started'
  <2> SUFFICES ASSUME NEW r \in Elements, r > e PROVE runner'[r] = "none"
    BY <1>1 DEF Started
  <2>1. r # e /\ r > pushed
    BY <1>2, Numbers DEF e
  <2> QED
    BY <1>6, <2>1 DEF Started
<1>13. Stopped'
  BY <1>1 DEF Stopped
<1> QED
  BY <1>8, <1>9, <1>10, <1>11, <1>12, <1>13

\* Steps of the owner that end the queue.
LEMMA EndKeeps == IInv /\ (Clear \/ Halt \/ Free) => IInv'
<1> SUFFICES ASSUME IInv, Clear \/ Halt \/ Free PROVE IInv'
  OBVIOUS
<1> USE DEF IInv
<1>1. /\ UNCHANGED <<pushed, runner, holder, size, key, batch, shown, missed, kind, broken>>
      /\ queue' = queue \/ queue' = << >>
      /\ run' \in BOOLEAN /\ ended' \in {"cleared", "halted", "gone"}
  BY DEF Clear, Halt, Free, TypeOK, consumer
<1>2. CASE queue' = queue
  <2>1. TypeOK'
    BY <1>1, <1>2 DEF TypeOK, InFunc
  <2>2. Ordered' /\ Served' /\ Keyed' /\ Started'
    BY <1>1, <1>2 DEF Ordered, Served, Keyed, Started
  <2> QED
    <3>1. Stopped'
      <4>1. CASE Clear
        BY <4>1 DEF Clear, Stopped
      <4>2. CASE Halt
        <5>1. \A r \in Elements : ~InFunc(r) /\ runner[r] # "delay"
          BY <4>2, Numbers DEF Halt, MayHalt, TypeOK
        <5> QED
          BY <1>1, <4>2, <5>1 DEF Halt, Stopped, InFunc
      <4>3. CASE Free
        BY <1>1, <4>3 DEF Free, Stopped, InFunc
      <4> QED
        BY <4>1, <4>2, <4>3
    <3> QED
      BY <2>1, <2>2, <3>1
<1>3. CASE queue' = << >> /\ queue' # queue
  <2>1. Clear
    BY <1>3 DEF Halt, Free
  <2>2. queue' \in Seq(Elements) /\ Len(queue') = 0 /\ DOMAIN queue' = {}
    BY <1>3
  <2>3. TypeOK'
    BY <1>1, <2>2 DEF TypeOK, InFunc
  <2>4. Ordered'
    BY <1>1, <1>3, <2>2, Numbers DEF Ordered, TypeOK
  <2>5. Served' /\ Keyed' /\ Started'
    BY <1>1, <2>2 DEF Served, Keyed, Started
  <2>6. Stopped'
    BY <2>1 DEF Clear, Stopped
  <2> QED
    BY <2>3, <2>4, <2>5, <2>6
<1> QED
  BY <1>1, <1>2, <1>3

\* What every step of a runner of a queue that is there has in common.
LEMMA Moved ==
  ASSUME IInv, NEW r \in Elements, NEW from, NEW to, Goes(r, from, to)
  PROVE  /\ UNCHANGED <<pushed, missed, kind, run, ended>>
         /\ broken = FALSE /\ ended # "gone" /\ runner[r] = from
         /\ runner' = [runner EXCEPT ![r] = to] /\ runner'[r] = to
         /\ \A s \in Elements : s # r => runner'[s] = runner[s]
         /\ r <= pushed \/ from = "none"
         /\ r \in 0 .. MaxPush /\ r # 0
  BY Numbers DEF Goes, owner, IInv, TypeOK, Started

\* A step that leaves the queue, the consumer and the mutex alone.
LEMMA WalkKeeps ==
  ASSUME IInv, NEW r \in Elements, Test(r) \/ Look(r)
  PROVE  IInv'
<1> USE DEF IInv
<1>1. PICK from, to :
        /\ Goes(r, from, to) /\ UNCHANGED <<queue, holder, size, key, batch, shown, broken>>
        /\ \/ from = "test" /\ to \in {"done", "lock"}
           \/ from = "look" /\ to = "take"
           \/ from = "look" /\ to = "serve" /\ queue = << >>
  BY DEF Test, Look, consumer
<1>2. /\ UNCHANGED <<pushed, missed, kind, run, ended>>
      /\ broken = FALSE /\ ended # "gone" /\ runner[r] = from
      /\ runner' = [runner EXCEPT ![r] = to] /\ runner'[r] = to
      /\ \A s \in Elements : s # r => runner'[s] = runner[s]
      /\ r <= pushed \/ from = "none"
  BY <1>1, Moved
<1>3. to \in {"none", "test", "lock", "delay", "done"} \union Serving
  BY <1>1 DEF Serving
<1>4. TypeOK'
  <2>1. runner' \in [Elements -> {"none", "test", "lock", "delay", "done"} \union Serving]
    BY <1>2, <1>3 DEF TypeOK
  <2>2. ASSUME NEW s \in Elements, InFunc(s)' \/ runner'[s] = "delay" PROVE holder' = s
    <3>1. CASE s = r
      BY <1>1, <1>2, <2>2, <3>1 DEF TypeOK, InFunc, Serving
    <3>2. CASE s # r
      BY <1>1, <1>2, <2>2, <3>2 DEF TypeOK, InFunc
    <3> QED
      BY <3>1, <3>2
  <2> QED
    BY <1>1, <1>2, <2>1, <2>2 DEF TypeOK
<1>5. Ordered' /\ Served'
  BY <1>1, <1>2 DEF Ordered, Served
<1>6. Keyed'
  <2>1. ASSUME NEW s \in Elements
        PROVE  /\ runner'[s] \in {"delay", "tail"} => key = 0 /\ batch = {}
               /\ runner'[s] = "tail" => kind = "search"
               /\ runner'[s] \in {"look", "take", "serve"} /\ kind = "search" /\ ~broken
                     => key # 0
               /\ runner'[s] = "serve" /\ key # 0 => \A i \in DOMAIN queue : key < queue[i]
    <3>1. CASE s # r
      BY <1>2, <3>1 DEF Keyed
    <3>2. CASE s = r
      BY <1>1, <1>2, <3>2 DEF Keyed
    <3> QED
      BY <3>1, <3>2
  <2> QED
    BY <1>1, <1>2, <2>1 DEF Keyed
<1>7. Started'
  BY <1>1, <1>2, Numbers DEF Started, TypeOK
<1>8. Stopped'
  BY <1>1, <1>2 DEF Stopped, InFunc, Serving
<1> QED
  BY <1>4, <1>5, <1>6, <1>7, <1>8

LEMMA EnterKeeps ==
  ASSUME IInv, NEW r \in Elements, Enter(r)
  PROVE  IInv'
<1> USE DEF IInv
<1> DEFINE to == IF run THEN "delay" ELSE "done"
<1>1. /\ holder = 0 /\ Goes(r, "lock", to) /\ holder' = (IF run THEN r ELSE 0)
      /\ size' = Len(queue) /\ UNCHANGED <<queue, key, batch, shown, broken>>
  BY DEF Enter, MayEnter, consumer
<1>2. /\ UNCHANGED <<pushed, missed, kind, run, ended>>
      /\ broken = FALSE /\ ended # "gone" /\ runner[r] = "lock"
      /\ runner' = [runner EXCEPT ![r] = to] /\ runner'[r] = to
      /\ \A s \in Elements : s # r => runner'[s] = runner[s]
      /\ r <= pushed /\ r \in 0 .. MaxPush /\ r # 0
  BY <1>1, Moved
<1>3. key = 0 /\ batch = {} /\ \A s \in Elements : ~InFunc(s) /\ runner[s] # "delay"
  BY <1>1, Numbers DEF TypeOK
<1>4. TypeOK'
  <2>1. runner' \in [Elements -> {"none", "test", "lock", "delay", "done"} \union Serving]
    BY <1>2 DEF TypeOK
  <2>2. size' \in 0 .. MaxPush /\ holder' \in 0 .. MaxPush
    BY <1>1, <1>2, Queue, Numbers DEF TypeOK, Ordered
  <2>3. ASSUME NEW s \in Elements, InFunc(s)' \/ runner'[s] = "delay" PROVE holder' = s
    <3>1. s = r
      BY <1>2, <1>3, <2>3 DEF InFunc
    <3>2. run
      BY <1>2, <2>3, <3>1 DEF InFunc, Serving
    <3> QED
      BY <1>1, <3>1, <3>2
  <2> QED
    BY <1>1, <1>2, <1>3, <2>1, <2>2, <2>3 DEF TypeOK
<1>5. Ordered' /\ Served'
  BY <1>1, <1>2 DEF Ordered, Served
<1>6. Keyed'
  <2>1. \A s \in Elements : runner'[s] \notin {"tail", "look", "take", "serve"}
    BY <1>2, <1>3 DEF InFunc, Serving
  <2> QED
    BY <1>1, <1>2, <1>3, <2>1 DEF Keyed
<1>7. Started'
  BY <1>2, Numbers DEF Started, TypeOK
<1>8. Stopped'
  BY <1>2 DEF Stopped, InFunc, Serving
<1> QED
  BY <1>4, <1>5, <1>6, <1>7, <1>8

LEMMA SettleKeeps ==
  ASSUME IInv, NEW r \in Elements, Settle(r)
  PROVE  IInv'
<1> USE DEF IInv
<1>1. PICK to :
        /\ Goes(r, "delay", to) /\ UNCHANGED <<queue, size, key, batch, shown, broken>>
        /\ \/ to = "test" /\ holder' = 0
           \/ /\ holder' = holder
              /\ \/ to = "tail" /\ kind = "search"
                 \/ to = "look" /\ kind # "search"
  BY DEF Settle, consumer
<1>2. /\ UNCHANGED <<pushed, missed, kind, run, ended>>
      /\ broken = FALSE /\ ended # "gone" /\ runner[r] = "delay"
      /\ runner' = [runner EXCEPT ![r] = to] /\ runner'[r] = to
      /\ \A s \in Elements : s # r => runner'[s] = runner[s]
      /\ r <= pushed /\ r \in 0 .. MaxPush /\ r # 0
  BY <1>1, Moved
<1>3. /\ key = 0 /\ batch = {} /\ holder = r
      /\ \A s \in Elements : s # r => ~InFunc(s) /\ runner[s] # "delay"
  BY <1>2 DEF Keyed, TypeOK
<1>4. TypeOK'
  <2>1. runner' \in [Elements -> {"none", "test", "lock", "delay", "done"} \union Serving]
    BY <1>1, <1>2 DEF TypeOK, Serving
  <2>2. ASSUME NEW s \in Elements, InFunc(s)' \/ runner'[s] = "delay" PROVE holder' = s
    <3>1. s = r
      BY <1>2, <1>3, <2>2 DEF InFunc
    <3>2. to # "test"
      BY <1>2, <2>2, <3>1 DEF InFunc, Serving
    <3> QED
      BY <1>1, <1>3, <3>1, <3>2
  <2>3. holder' \in 0 .. MaxPush
    BY <1>1, Numbers DEF TypeOK
  <2> QED
    BY <1>1, <1>2, <1>3, <2>1, <2>2, <2>3 DEF TypeOK
<1>5. Ordered' /\ Served'
  BY <1>1, <1>2 DEF Ordered, Served
<1>6. Keyed'
  <2>1. \A s \in Elements : s # r => runner'[s] \notin {"tail", "look", "take", "serve"}
    BY <1>2, <1>3 DEF InFunc, Serving
  <2> QED
    BY <1>1, <1>2, <1>3, <2>1 DEF Keyed
<1>7. Started'
  BY <1>2, Numbers DEF Started, TypeOK
<1>8. Stopped'
  BY <1>2 DEF Stopped, InFunc
<1> QED
  BY <1>4, <1>5, <1>6, <1>7, <1>8

LEMMA NewestKeeps ==
  ASSUME IInv, NEW r \in Elements, Newest(r)
  PROVE  IInv'
<1> USE DEF IInv
<1>1. /\ Goes(r, "tail", "look") /\ UNCHANGED <<queue, holder, size, batch, shown>>
      /\ \/ queue = << >> /\ broken' = TRUE /\ key' = key
         \/ queue # << >> /\ key' = queue[Len(queue)] /\ broken' = broken
  BY DEF Newest, Pick, Last
<1>2. /\ UNCHANGED <<pushed, missed, kind, run, ended>>
      /\ broken = FALSE /\ ended # "gone" /\ runner[r] = "tail"
      /\ runner' = [runner EXCEPT ![r] = "look"] /\ runner'[r] = "look"
      /\ \A s \in Elements : s # r => runner'[s] = runner[s]
      /\ r <= pushed /\ r \in 0 .. MaxPush /\ r # 0
  BY <1>1, Moved
<1>3. /\ key = 0 /\ batch = {} /\ kind = "search" /\ holder = r
      /\ \A s \in Elements : s # r => ~InFunc(s) /\ runner[s] # "delay"
  BY <1>2 DEF Keyed, TypeOK, InFunc, Serving
<1>4. /\ Len(queue) \in Nat /\ DOMAIN queue = 1 .. Len(queue)
      /\ queue = << >> <=> Len(queue) = 0
  BY Queue DEF TypeOK
<1>5. \/ queue = << >> /\ key' = 0
      \/ /\ queue # << >> /\ key' = pushed /\ pushed \in Elements /\ broken' = FALSE
         /\ Len(queue) \in DOMAIN queue /\ queue[Len(queue)] = pushed
  <2>1. CASE queue = << >>
    BY <1>1, <1>3, <2>1
  <2>2. CASE queue # << >>
    <3>1. Len(queue) \in DOMAIN queue /\ queue[Len(queue)] = pushed
      BY <1>4, <2>2 DEF Ordered
    <3>2. pushed \in Elements
      BY <3>1, Queue DEF TypeOK
    <3> QED
      BY <1>1, <1>2, <2>2, <3>1, <3>2
  <2> QED
    BY <2>1, <2>2
<1>6. TypeOK'
  <2>1. runner' \in [Elements -> {"none", "test", "lock", "delay", "done"} \union Serving]
    BY <1>2 DEF TypeOK, Serving
  <2>2. ASSUME NEW s \in Elements, InFunc(s)' \/ runner'[s] = "delay" PROVE holder' = s
    BY <1>1, <1>2, <1>3, <2>2 DEF InFunc
  <2>3. key' \in 0 .. MaxPush
    BY <1>5, Numbers
  <2>4. broken' \in BOOLEAN
    BY <1>1 DEF TypeOK
  <2> QED
    BY <1>1, <1>2, <1>3, <2>1, <2>2, <2>3, <2>4 DEF TypeOK
<1>7. Ordered'
  BY <1>1, <1>2 DEF Ordered
<1>8. Served'
  BY <1>1, <1>2, <1>3, <1>5 DEF Served
<1>9. Keyed'
  <2>1. key' <= pushed'
    BY <1>2, <1>5, Numbers DEF TypeOK
  <2>2. \A s \in Elements : runner'[s] \notin {"delay", "tail", "serve"}
    BY <1>2, <1>3 DEF InFunc, Serving
  <2>3. ~broken' => key' # 0
    BY <1>1, <1>5, Numbers
  <2> QED
    BY <1>2, <1>3, <2>1, <2>2, <2>3 DEF Keyed
<1>10. Started'
  BY <1>2, Numbers DEF Started, TypeOK
<1>11. Stopped'
  BY <1>2 DEF Stopped, InFunc, Serving
<1> QED
  BY <1>6, <1>7, <1>8, <1>9, <1>10, <1>11

LEMMA TakeKeeps ==
  ASSUME IInv, NEW r \in Elements, Take(r)
  PROVE  IInv'
<1> USE DEF IInv
<1>0. Goes(r, "take", "look")
  BY DEF Take
<1>1. /\ UNCHANGED <<holder, size, key, shown>>
      /\ \/ queue = << >> /\ broken' = TRUE /\ queue' = queue /\ batch' = batch
         \/ /\ queue # << >> /\ queue' = Tail(queue) /\ broken' = broken
            /\ batch' = batch \union {Head(queue)}
  BY DEF Take
<1>2. /\ UNCHANGED <<pushed, missed, kind, run, ended>>
      /\ broken = FALSE /\ ended # "gone" /\ runner[r] = "take"
      /\ runner' = [runner EXCEPT ![r] = "look"] /\ runner'[r] = "look"
      /\ \A s \in Elements : s # r => runner'[s] = runner[s]
      /\ r <= pushed /\ r \in 0 .. MaxPush /\ r # 0
  BY <1>0, Moved
<1>3. /\ holder = r /\ \A s \in Elements : s # r => ~InFunc(s) /\ runner[s] # "delay"
  BY <1>2 DEF TypeOK, InFunc, Serving
<1>4. \A s \in Elements : runner'[s] \notin {"delay", "tail", "serve"}
  BY <1>2, <1>3 DEF InFunc, Serving
<1>5. kind = "search" => key # 0
  BY <1>2 DEF Keyed
<1>6. runner' \in [Elements -> {"none", "test", "lock", "delay", "done"} \union Serving]
  BY <1>2 DEF TypeOK, Serving
<1>7. \A s \in Elements : (InFunc(s)' \/ runner'[s] = "delay") => holder' = s
  BY <1>1, <1>2, <1>3 DEF InFunc
<1>8. holder' # 0
  BY <1>1, <1>2, <1>3
<1>9. Started'
  BY <1>2, Numbers DEF Started, TypeOK
<1>10. Stopped'
  BY <1>2 DEF Stopped, InFunc, Serving
<1>11. CASE queue = << >>
  <2>1. UNCHANGED <<queue, batch>> /\ broken' = TRUE
    BY <1>1, <1>11
  <2>2. TypeOK'
    BY <1>1, <1>2, <1>6, <1>7, <1>8, <2>1 DEF TypeOK
  <2>3. Ordered' /\ Served'
    BY <1>1, <1>2, <2>1 DEF Ordered, Served
  <2>4. Keyed'
    BY <1>1, <1>2, <1>4, <2>1 DEF Keyed
  <2> QED
    BY <1>9, <1>10, <2>2, <2>3, <2>4
<1>12. CASE queue # << >>
  <2> DEFINE h == queue[1]
             n == Len(queue)
  <2>1. queue' = Tail(queue) /\ batch' = batch \union {h} /\ broken' = FALSE
    BY <1>1, <1>2, <1>12, Popped DEF TypeOK
  <2>2. /\ queue' \in Seq(Elements) /\ h \in Elements /\ n \in Nat \ {0}
        /\ Len(queue') = n - 1 /\ DOMAIN queue = 1 .. n /\ DOMAIN queue' = 1 .. n - 1
        /\ \A i \in 1 .. n - 1 : queue'[i] = queue[i + 1]
    BY <1>12, <2>1, Popped DEF TypeOK
  <2>3. \A i \in DOMAIN queue' : i + 1 \in DOMAIN queue /\ queue'[i] = queue[i + 1] /\ i \in Nat
    BY <2>2
  <2>4. 1 \in DOMAIN queue /\ \A i \in DOMAIN queue' : 1 < i + 1 /\ h < queue'[i]
    <3>1. 1 \in DOMAIN queue /\ \A i \in DOMAIN queue' : 1 < i + 1
      BY <2>2
    <3> QED
      BY <2>3, <3>1 DEF Ordered
  <2> HIDE DEF h, n
  <2>5. TypeOK'
    BY <1>1, <1>2, <1>6, <1>7, <1>8, <2>1, <2>2 DEF TypeOK
  <2>6. Ordered'
    <3>1. Len(queue') <= pushed'
      BY <1>2, <2>2, Numbers DEF Ordered, TypeOK, n
    <3>2. \A i \in DOMAIN queue' : queue'[i] <= pushed'
      BY <1>2, <2>3 DEF Ordered
    <3>3. \A i, k \in DOMAIN queue' : i < k => queue'[i] < queue'[k]
      <4> SUFFICES ASSUME NEW i \in DOMAIN queue', NEW k \in DOMAIN queue', i < k
                   PROVE  queue'[i] < queue'[k]
        OBVIOUS
      <4>1. i + 1 < k + 1
        BY <2>3
      <4> QED
        BY <2>3, <4>1 DEF Ordered
    <3>4. ASSUME queue' # << >> PROVE queue'[Len(queue')] = pushed'
      <4>1. n - 1 \in 1 .. n - 1 /\ (n - 1) + 1 = n
        BY <2>2, <3>4, Queue
      <4>2. queue'[n - 1] = queue[n]
        BY <2>2, <4>1
      <4> QED
        BY <1>2, <1>12, <2>2, <4>2 DEF Ordered, n
    <3> QED
      BY <3>1, <3>2, <3>3, <3>4 DEF Ordered
  <2>7. Served'
    <3>1. \A e \in batch' : e <= pushed' /\ \A i \in DOMAIN queue' : e < queue'[i]
      BY <1>2, <2>1, <2>3, <2>4 DEF Served, Ordered, h
    <3>2. \A j \in DOMAIN shown : \A e \in shown[j] :
             /\ e <= pushed' /\ (key # 0 => e < key)
             /\ \A i \in DOMAIN queue' : e < queue'[i]
             /\ kind # "search" => \A f \in batch' : e < f
      BY <1>2, <2>1, <2>3, <2>4 DEF Served, h
    <3> QED
      BY <1>1, <1>2, <3>1, <3>2 DEF Served
  <2>8. Keyed'
    BY <1>1, <1>2, <1>4, <1>5 DEF Keyed
  <2> QED
    BY <1>9, <1>10, <2>5, <2>6, <2>7, <2>8
<1> QED
  BY <1>11, <1>12

\* What Serve adds to what was served is newer than all of that and older than
\* what waits.
LEMMA ServeAdds ==
  ASSUME IInv, NEW r \in Elements, Serve(r), batch # {}
  PROVE  \E new \in SUBSET Elements :
            /\ shown' = Append(shown, new)
            /\ new = IF kind = "search" THEN {key} ELSE batch
            /\ \A f \in new : /\ f <= pushed
                              /\ \A i \in DOMAIN queue : f < queue[i]
                              /\ \A j \in DOMAIN shown : \A e \in shown[j] : e < f
<1> USE DEF IInv
<1>1. runner[r] = "serve" /\ ~broken
  BY DEF Serve, Goes
<1>2. shown' = Append(shown, IF kind = "search" THEN {key} ELSE batch)
  BY DEF Serve
<1>3. CASE kind = "search"
  <2>1. key # 0 /\ key \in Elements
    BY <1>1, <1>3, Numbers DEF Keyed, TypeOK
  <2>2. key <= pushed /\ \A i \in DOMAIN queue : key < queue[i]
    BY <1>1, <2>1 DEF Keyed
  <2>3. \A j \in DOMAIN shown : \A e \in shown[j] : e < key
    BY <2>1 DEF Served
  <2> DEFINE new == {key}
  <2>4. new \in SUBSET Elements /\ shown' = Append(shown, new)
    BY <1>2, <1>3, <2>1
  <2>5. \A f \in new : /\ f <= pushed
                       /\ \A i \in DOMAIN queue : f < queue[i]
                       /\ \A j \in DOMAIN shown : \A e \in shown[j] : e < f
    BY <2>2, <2>3
  <2> HIDE DEF new
  <2>6. new = IF kind = "search" THEN {key} ELSE batch
    BY <1>3 DEF new
  <2> QED
    BY <2>4, <2>5, <2>6
<1>4. CASE kind # "search"
  BY <1>2, <1>4 DEF Served, TypeOK
<1> QED
  BY <1>3, <1>4

LEMMA ServeKeeps ==
  ASSUME IInv, NEW r \in Elements, Serve(r)
  PROVE  IInv'
<1> USE DEF IInv
<1>1. /\ Goes(r, "serve", "test") /\ UNCHANGED <<queue, size, broken>>
      /\ key' = 0 /\ batch' = {} /\ holder' = 0
      /\ batch = {} => shown' = shown
  BY DEF Serve
<1>2. /\ UNCHANGED <<pushed, missed, kind, run, ended>>
      /\ broken = FALSE /\ ended # "gone" /\ runner[r] = "serve"
      /\ runner' = [runner EXCEPT ![r] = "test"] /\ runner'[r] = "test"
      /\ \A s \in Elements : s # r => runner'[s] = runner[s]
      /\ r <= pushed /\ r \in 0 .. MaxPush /\ r # 0
  BY <1>1, Moved
<1>3. holder = r /\ \A s \in Elements : s # r => ~InFunc(s) /\ runner[s] # "delay"
  BY <1>2 DEF TypeOK, InFunc, Serving
<1>4. \A s \in Elements : ~InFunc(s)' /\ runner'[s] # "delay"
  BY <1>2, <1>3 DEF InFunc, Serving
<1>5. \A s \in Elements : runner'[s] \notin {"delay", "tail", "look", "take", "serve"}
  BY <1>4 DEF InFunc, Serving
<1>6. /\ shown' \in Seq(SUBSET Elements)
      /\ \A j \in DOMAIN shown' : \A e \in shown'[j] :
            e <= pushed /\ \A i \in DOMAIN queue : e < queue[i]
  <2>1. CASE batch = {}
    BY <1>1, <2>1 DEF TypeOK, Served
  <2>2. CASE batch # {}
    <3>1. PICK new \in SUBSET Elements :
             /\ shown' = Append(shown, new)
             /\ \A f \in new : f <= pushed /\ \A i \in DOMAIN queue : f < queue[i]
      BY <2>2, ServeAdds
    <3>2. shown' \in Seq(SUBSET Elements)
      BY <3>1, Pushed DEF TypeOK
    <3>3. ASSUME NEW j \in DOMAIN shown'
          PROVE  \/ shown'[j] = new
                 \/ j \in DOMAIN shown /\ shown'[j] = shown[j]
      BY <3>1, PushedAt DEF TypeOK
    <3> QED
      BY <3>1, <3>2, <3>3 DEF Served
  <2> QED
    BY <2>1, <2>2
<1>7. TypeOK'
  <2>1. runner' \in [Elements -> {"none", "test", "lock", "delay", "done"} \union Serving]
    BY <1>2 DEF TypeOK
  <2> QED
    BY <1>1, <1>2, <1>4, <1>6, <2>1, Numbers DEF TypeOK
<1>8. Ordered'
  BY <1>1, <1>2 DEF Ordered
<1>9. Served'
  BY <1>1, <1>2, <1>6 DEF Served
<1>10. Keyed'
  BY <1>1, <1>2, <1>5, Numbers DEF Keyed, TypeOK
<1>11. Started'
  BY <1>2, Numbers DEF Started, TypeOK
<1>12. Stopped'
  BY <1>2, <1>4 DEF Stopped
<1> QED
  BY <1>7, <1>8, <1>9, <1>10, <1>11, <1>12

LEMMA TouchKeeps ==
  ASSUME IInv, NEW r \in Elements, Touch(r)
  PROVE  IInv'
<1> USE DEF IInv
<1>1. /\ UNCHANGED <<queue, pushed, holder, size, key, batch, shown, missed, kind, run, ended>>
      /\ ended = "gone" /\ broken = FALSE /\ runner[r] # "none"
      /\ \/ runner' = [runner EXCEPT ![r] = "done"] /\ broken' = broken
         \/ broken' = TRUE /\ runner' = runner
  BY DEF Touch, TypeOK, consumer, owner
<1>2. ~run /\ \A s \in Elements : ~InFunc(s) /\ runner[s] # "delay"
  BY <1>1 DEF Stopped
<1>3. /\ runner' \in [Elements -> {"none", "test", "lock", "delay", "done"} \union Serving]
      /\ \A s \in Elements : runner'[s] # runner[s] => s = r /\ runner'[s] = "done"
  BY <1>1 DEF TypeOK
<1>4. \A s \in Elements : ~InFunc(s)' /\ runner'[s] # "delay"
  BY <1>2, <1>3 DEF InFunc, Serving
<1>5. TypeOK'
  BY <1>1, <1>3, <1>4 DEF TypeOK
<1>6. Ordered' /\ Served'
  BY <1>1 DEF Ordered, Served
<1>7. Keyed'
  <2>1. \A s \in Elements : runner'[s] \notin {"delay", "tail", "look", "take", "serve"}
    BY <1>4 DEF InFunc, Serving
  <2> QED
    BY <1>1, <2>1 DEF Keyed
<1>8. Started' /\ Stopped'
  BY <1>1, <1>2, <1>3, <1>4 DEF Started, Stopped
<1> QED
  BY <1>5, <1>6, <1>7, <1>8

LEMMA StepKeeps == IInv /\ [Next]_vars => IInv'
<1> SUFFICES ASSUME IInv, [Next]_vars PROVE IInv'
  OBVIOUS
<1>1. ASSUME NEW r \in Elements, Step(r) PROVE IInv'
  BY <1>1, WalkKeeps, EnterKeeps, SettleKeeps, NewestKeeps, TakeKeeps, ServeKeeps, TouchKeeps
     DEF Step
<1>2. CASE UNCHANGED vars
  <2>1. UNCHANGED <<queue, pushed, runner, holder, size, key, batch, shown, missed, kind, run,
                    ended, broken>>
    BY <1>2 DEF vars, consumer, owner
  <2>2. TypeOK'
    BY <2>1 DEF IInv, TypeOK, InFunc
  <2>3. Ordered' /\ Served' /\ Keyed' /\ Started' /\ Stopped'
    BY <2>1 DEF IInv, Ordered, Served, Keyed, Started, Stopped, InFunc
  <2> QED
    BY <2>2, <2>3 DEF IInv
<1> QED
  BY <1>1, <1>2, PushKeeps, EndKeeps DEF Next

LEMMA Inductive == Spec => []IInv
<1> QED
  BY Initially, StepKeeps, PTL DEF Spec

-----------------------------------------------------------------------------
(* Properties that are inductive beside it.                                *)

LEMMA OrderStep == IInv /\ ServedInOrder /\ [Next]_vars => ServedInOrder'
<1> SUFFICES ASSUME IInv, ServedInOrder, [Next]_vars PROVE ServedInOrder'
  OBVIOUS
<1>1. ASSUME NEW r \in Elements, Serve(r), batch # {} PROVE ServedInOrder'
  <2>1. PICK new \in SUBSET Elements :
           /\ shown' = Append(shown, new)
           /\ \A f \in new : \A j \in DOMAIN shown : \A e \in shown[j] : e < f
    BY <1>1, ServeAdds
  <2>2. shown \in Seq(SUBSET Elements)
    BY DEF IInv, TypeOK
  <2>3. /\ Len(shown) \in Nat /\ DOMAIN shown = 1 .. Len(shown)
        /\ DOMAIN shown' = 1 .. Len(shown) + 1
    BY <2>1, <2>2, Pushed
  <2>4. ASSUME NEW i \in DOMAIN shown', NEW j \in DOMAIN shown', i < j
        PROVE  \A e \in shown'[i], f \in shown'[j] : e < f
    <3>1. i \in DOMAIN shown /\ shown'[i] = shown[i]
      <4>1. i # Len(shown) + 1
        BY <2>3, <2>4
      <4> QED
        BY <2>1, <2>2, <4>1, PushedAt
    <3>2. CASE j = Len(shown) + 1
      <4>1. shown'[j] = new
        BY <2>1, <2>2, <3>2, Pushed
      <4> QED
        BY <2>1, <3>1, <4>1
    <3>3. CASE j # Len(shown) + 1
      <4>1. j \in DOMAIN shown /\ shown'[j] = shown[j]
        BY <2>1, <2>2, <3>3, PushedAt
      <4> QED
        BY <2>4, <3>1, <4>1 DEF ServedInOrder
    <3> QED
      BY <3>2, <3>3
  <2> QED
    BY <2>4 DEF ServedInOrder
<1>2. CASE shown' = shown
  BY <1>2 DEF ServedInOrder
<1>3. shown' = shown \/ \E r \in Elements : Serve(r) /\ batch # {}
  <2>1. ASSUME NEW r \in Elements, Step(r)
        PROVE  shown' = shown \/ (Serve(r) /\ batch # {})
    BY <2>1 DEF Step, Test, Enter, Settle, Newest, Look, Take, Serve, Touch, consumer
  <2> QED
    BY <2>1 DEF Next, Push, Clear, Halt, Free, consumer, vars
<1> QED
  BY <1>1, <1>2, <1>3

\* Someone will look at the queue.
Attended == \E r \in Elements : InFunc(r) \/ runner[r] \in {"test", "lock", "delay"}

LEMMA StrandedStep == IInv /\ NeverStranded /\ [Next]_vars => NeverStranded'
<1> SUFFICES ASSUME IInv, NeverStranded, [Next]_vars, queue' # << >>, run', ~broken'
             PROVE  Attended'
  BY DEF NeverStranded, Attended, InFunc
<1>1. CASE Push
  <2> DEFINE e == pushed + 1
  <2>1. e \in Elements /\ UNCHANGED <<run, broken>>
        /\ runner' = [runner EXCEPT ![e] = IF Starts THEN "test" ELSE "none"]
    BY <1>1 DEF Push, owner
  <2> HIDE DEF e
  <2>2. CASE queue = << >>
    <3>1. Starts
      BY <2>1, <2>2 DEF Starts
    <3>2. runner'[e] = "test"
      BY <2>1, <3>1 DEF IInv, TypeOK
    <3> QED
      BY <2>1, <3>2 DEF Attended
  <2>3. CASE queue # << >>
    <3>1. PICK r \in Elements : InFunc(r) \/ runner[r] \in {"test", "lock", "delay"}
      BY <2>1, <2>3 DEF NeverStranded
    <3>2. runner[e] = "none"
      <4>1. e > pushed
        BY Numbers DEF IInv, TypeOK, e
      <4> QED
        BY <2>1, <4>1 DEF IInv, Started
    <3>3. r # e
      BY <3>1, <3>2 DEF InFunc, Serving
    <3>4. runner'[r] = runner[r]
      BY <2>1, <3>3 DEF IInv, TypeOK
    <3> QED
      BY <3>1, <3>4 DEF Attended, InFunc
  <2> QED
    BY <2>2, <2>3
<1>2. CASE Clear
  BY <1>2 DEF Clear
<1>3. CASE Halt
  BY <1>3 DEF Halt
<1>4. CASE Free
  BY <1>4 DEF Free, NeverStranded, Attended, InFunc
<1>5. ASSUME NEW r \in Elements, Step(r) PROVE Attended'
  <2>1. CASE Touch(r)
    <3>1. ended = "gone" /\ run
      BY <2>1 DEF Touch, owner
    <3> QED
      BY <3>1 DEF IInv, Stopped
  <2>2. ASSUME NEW from, NEW to, Goes(r, from, to),
               to \in {"test", "lock", "delay"} \union Serving
        PROVE  Attended'
    <3>1. runner'[r] = to
      BY <2>2, Moved
    <3> QED
      BY <2>2, <3>1 DEF Attended, InFunc
  <2>3. CASE Test(r)
    <3>1. queue # << >>
      BY <1>5, <2>3 DEF Test
    <3>2. Goes(r, "test", "lock")
      BY <2>3, <3>1 DEF Test
    <3> QED
      BY <2>2, <3>2
  <2>4. CASE Enter(r)
    <3>1. run
      BY <2>4 DEF Enter, Goes, owner
    <3>2. Goes(r, "lock", "delay")
      BY <2>4, <3>1 DEF Enter
    <3> QED
      BY <2>2, <3>2
  <2>5. CASE Settle(r)
    BY <2>2, <2>5 DEF Settle, Serving
  <2>6. CASE Newest(r)
    BY <2>2, <2>6 DEF Newest, Serving
  <2>7. CASE Look(r)
    BY <2>2, <2>7 DEF Look, Serving
  <2>8. CASE Take(r)
    BY <2>2, <2>8 DEF Take, Serving
  <2>9. CASE Serve(r)
    BY <2>2, <2>9 DEF Serve
  <2> QED
    BY <1>5, <2>1, <2>3, <2>4, <2>5, <2>6, <2>7, <2>8, <2>9 DEF Step
<1>6. CASE UNCHANGED vars
  BY <1>6 DEF vars, owner, NeverStranded, Attended, InFunc
<1> QED
  BY <1>1, <1>2, <1>3, <1>4, <1>5, <1>6 DEF Next

\* What waits or is being served.
Pending == Range(queue) \union batch

LEMMA PushRange ==
  ASSUME NEW S, NEW q \in Seq(S), NEW e \in S
  PROVE  Range(Append(q, e)) = Range(q) \union {e}
<1>1. ASSUME NEW x \in Range(Append(q, e)) PROVE x \in Range(q) \union {e}
  <2>1. PICK i \in DOMAIN Append(q, e) : x = Append(q, e)[i]
    BY DEF Range
  <2> QED
    BY <2>1, PushedAt DEF Range
<1>2. e \in Range(Append(q, e))
  <2>1. Len(q) + 1 \in DOMAIN Append(q, e) /\ Append(q, e)[Len(q) + 1] = e
    BY Pushed
  <2> QED
    BY <2>1 DEF Range
<1>3. ASSUME NEW x \in Range(q) PROVE x \in Range(Append(q, e))
  <2>1. PICK i \in DOMAIN q : x = q[i]
    BY DEF Range
  <2>2. i \in DOMAIN Append(q, e) /\ Append(q, e)[i] = q[i]
    BY Pushed
  <2> QED
    BY <2>1, <2>2 DEF Range
<1> QED
  BY <1>1, <1>2, <1>3

LEMMA PopRange ==
  ASSUME NEW S, NEW q \in Seq(S), q # << >>
  PROVE  Range(q) = Range(Tail(q)) \union {Head(q)}
<1>1. /\ Head(q) = q[1] /\ Len(q) \in Nat \ {0}
      /\ DOMAIN q = 1 .. Len(q) /\ DOMAIN Tail(q) = 1 .. Len(q) - 1
      /\ \A i \in 1 .. Len(q) - 1 : Tail(q)[i] = q[i + 1]
  BY Popped
<1>2. ASSUME NEW x \in Range(q) PROVE x \in Range(Tail(q)) \union {Head(q)}
  <2>1. PICK i \in DOMAIN q : x = q[i]
    BY DEF Range
  <2>2. CASE i = 1
    BY <1>1, <2>1, <2>2
  <2>3. CASE i # 1
    <3>1. i - 1 \in DOMAIN Tail(q) /\ (i - 1) + 1 = i
      BY <1>1, <2>3
    <3>2. x = Tail(q)[i - 1]
      BY <1>1, <2>1, <3>1
    <3> QED
      BY <3>1, <3>2 DEF Range
  <2> QED
    BY <2>2, <2>3
<1>3. ASSUME NEW x \in Range(Tail(q)) PROVE x \in Range(q)
  <2>1. PICK i \in DOMAIN Tail(q) : x = Tail(q)[i]
    BY DEF Range
  <2>2. i + 1 \in DOMAIN q /\ x = q[i + 1]
    BY <1>1, <2>1
  <2> QED
    BY <2>2 DEF Range
<1>4. Head(q) \in Range(q)
  <2>1. 1 \in DOMAIN q
    BY <1>1
  <2> QED
    BY <1>1, <2>1 DEF Range
<1> QED
  BY <1>2, <1>3, <1>4

\* What a step of a queue that is not ended can do to what waits: a push adds
\* the newest element, a consumer that is through empties the batch, and all
\* other steps keep it.
LEMMA Changes ==
  ASSUME IInv, [Next]_vars, ended' = "no", ~broken', ~missed'
  PROVE  /\ ended = "no" /\ ~broken /\ ~missed /\ kind' = kind
         /\ \/ /\ pushed' = pushed + 1 /\ Pending' = Pending \union {pushed + 1}
               /\ key = 0 /\ UNCHANGED <<key, shown>>
            \/ pushed' = pushed /\ Pending' = Pending /\ UNCHANGED <<key, shown>>
            \/ pushed' = pushed /\ Pending' = Pending /\ shown' = shown
               /\ queue # << >> /\ key' = queue[Len(queue)]
            \/ pushed' = pushed /\ \E r \in Elements : Serve(r)
<1> USE DEF IInv
<1>1. queue \in Seq(Elements) /\ pushed \in Nat /\ missed \in BOOLEAN
  BY Numbers DEF TypeOK
<1>2. CASE Push
  <2>1. /\ pushed + 1 \in Elements /\ pushed' = pushed + 1
        /\ queue' = Append(queue, pushed + 1)
        /\ UNCHANGED <<key, batch, shown, kind, broken, ended>> /\ ended = "no"
        /\ missed' = (missed \/ key # 0)
    BY <1>2 DEF Push, consumer, owner
  <2>2. Range(queue') = Range(queue) \union {pushed + 1}
    BY <1>1, <2>1, PushRange
  <2>3. Pending' = Pending \union {pushed + 1}
    BY <2>1, <2>2 DEF Pending
  <2> QED
    BY <1>1, <2>1, <2>3
<1>3. CASE Clear \/ Halt \/ Free
  BY <1>3 DEF Clear, Halt, Free
<1>4. ASSUME NEW r \in Elements, NEW from, NEW to, Goes(r, from, to)
      PROVE  UNCHANGED <<pushed, missed, kind, ended>> /\ ~broken
  BY <1>4 DEF Goes, owner
<1>5. ASSUME NEW r \in Elements, Test(r) \/ Enter(r) \/ Settle(r) \/ Look(r)
      PROVE  /\ UNCHANGED <<pushed, missed, kind, ended, key, shown>> /\ ~broken
             /\ Pending' = Pending
  BY <1>4, <1>5 DEF Test, Enter, Settle, Look, consumer, Pending
<1>6. ASSUME NEW r \in Elements, Newest(r)
      PROVE  /\ UNCHANGED <<pushed, missed, kind, ended, shown>> /\ ~broken
             /\ Pending' = Pending
             /\ queue # << >> /\ key' = queue[Len(queue)]
  BY <1>4, <1>6 DEF Newest, Pick, Last, Pending
<1>7. ASSUME NEW r \in Elements, Take(r)
      PROVE  /\ UNCHANGED <<pushed, missed, kind, ended, key, shown>> /\ ~broken
             /\ Pending' = Pending
  <2>1. queue # << >> /\ queue' = Tail(queue) /\ batch' = batch \union {Head(queue)}
        /\ UNCHANGED <<key, shown>>
    BY <1>7 DEF Take
  <2>2. Range(queue) = Range(Tail(queue)) \union {Head(queue)}
    BY <1>1, <2>1, PopRange
  <2>3. Pending' = Pending
    BY <2>1, <2>2 DEF Pending
  <2>4. UNCHANGED <<pushed, missed, kind, ended>> /\ ~broken
    BY <1>4, <1>7 DEF Take
  <2> QED
    BY <2>1, <2>3, <2>4
<1>8. ASSUME NEW r \in Elements, Serve(r)
      PROVE  UNCHANGED <<pushed, missed, kind, ended>> /\ ~broken
  BY <1>4, <1>8 DEF Serve
<1>9. ASSUME NEW r \in Elements, Touch(r) PROVE FALSE
  BY <1>9 DEF Touch, owner
<1>10. CASE UNCHANGED vars
  BY <1>10 DEF vars, consumer, owner, Pending
<1>11. ASSUME NEW r \in Elements, Step(r)
       PROVE  \/ Test(r) \/ Enter(r) \/ Settle(r) \/ Look(r)
              \/ Newest(r) \/ Take(r) \/ Serve(r)
  BY <1>9, <1>11 DEF Step
<1> QED
  BY <1>2, <1>3, <1>5, <1>6, <1>7, <1>8, <1>10, <1>11 DEF Next

\* What a consumer that is through had popped was served, or for a search the
\* key was; in a search that nothing came too late for, that is the last element.
LEMMA ServedAll ==
  ASSUME IInv, NEW r \in Elements, Serve(r)
  PROVE  /\ queue' = queue /\ batch' = {} /\ key' = 0
         /\ \A e : Shown(e) => Shown(e)'
         /\ kind # "search" => \A e \in batch : Shown(e)'
         /\ kind = "search" /\ batch # {} => key # 0 /\ \A e : e = key => Shown(e)'
<1> USE DEF IInv
<1>1. queue' = queue /\ batch' = {} /\ key' = 0 /\ runner[r] = "serve" /\ ~broken
  BY DEF Serve, Goes
<1>2. shown \in Seq(SUBSET Elements)
  BY DEF TypeOK
<1>3. CASE batch = {}
  <2>1. shown' = shown
    BY <1>3 DEF Serve
  <2> QED
    BY <1>1, <1>3, <2>1 DEF Shown
<1>4. CASE batch # {}
  <2>1. PICK new \in SUBSET Elements :
           shown' = Append(shown, new) /\ new = IF kind = "search" THEN {key} ELSE batch
    BY <1>4, ServeAdds
  <2>2. /\ DOMAIN shown = 1 .. Len(shown) /\ DOMAIN shown' = 1 .. Len(shown) + 1
        /\ Len(shown) \in Nat /\ shown'[Len(shown) + 1] = new
        /\ \A i \in 1 .. Len(shown) : shown'[i] = shown[i]
    BY <1>2, <2>1, Pushed
  <2>3. ASSUME NEW e, Shown(e) PROVE Shown(e)'
    <3>1. PICK i \in DOMAIN shown : e \in shown[i]
      BY <2>3 DEF Shown
    <3>2. i \in DOMAIN shown' /\ shown'[i] = shown[i]
      BY <2>2
    <3> QED
      BY <3>1, <3>2 DEF Shown
  <2>4. ASSUME NEW e \in new PROVE Shown(e)'
    <3>1. Len(shown) + 1 \in DOMAIN shown'
      BY <2>2
    <3> QED
      BY <2>2, <3>1 DEF Shown
  <2>5. kind = "search" => key # 0
    BY <1>1 DEF Keyed
  <2>6. kind # "search" => \A e \in batch : Shown(e)'
    BY <2>1, <2>4
  <2>7. kind = "search" => key # 0 /\ \A e : e = key => Shown(e)'
    <3>1. kind = "search" => key \in new
      BY <2>1
    <3> QED
      BY <2>4, <2>5, <3>1
  <2> QED
    BY <1>1, <2>3, <2>6, <2>7
<1> QED
  BY <1>3, <1>4

\* The last key typed is not lost; it is the one searched unless another came
\* too late.
LastKept ==
    kind = "search" /\ ended = "no" /\ ~broken /\ ~missed =>
        /\ pushed = 0 \/ pushed \in Pending \/ Shown(pushed)
        /\ key # 0 => key = pushed /\ pushed \in Pending

\* Neither is anything another consumer is for.
AllKept ==
    kind # "search" /\ ended = "no" /\ ~broken /\ ~missed =>
        \A e \in 1 .. pushed : e \in Pending \/ Shown(e)

LEMMA KeptStep == IInv /\ LastKept /\ AllKept /\ [Next]_vars => LastKept' /\ AllKept'
<1> SUFFICES ASSUME IInv, LastKept, AllKept, [Next]_vars,
                    ended' = "no", ~broken', ~missed'
             PROVE  LastKept' /\ AllKept'
  BY DEF LastKept, AllKept
<1>1. pushed \in Nat
  BY Numbers DEF IInv, TypeOK
<1>2. ended = "no" /\ ~broken /\ ~missed /\ kind' = kind
  BY Changes
<1>3. CASE /\ pushed' = pushed + 1 /\ Pending' = Pending \union {pushed + 1}
           /\ key = 0 /\ UNCHANGED <<key, shown>>
  <2>1. \A e : Shown(e)' <=> Shown(e)
    BY <1>3 DEF Shown
  <2>2. \A e \in 1 .. pushed + 1 : e = pushed + 1 \/ e \in 1 .. pushed
    BY <1>1
  <2> QED
    BY <1>2, <1>3, <2>1, <2>2 DEF LastKept, AllKept
<1>4. CASE pushed' = pushed /\ Pending' = Pending /\ UNCHANGED <<key, shown>>
  BY <1>2, <1>4 DEF LastKept, AllKept, Shown
<1>5. CASE pushed' = pushed /\ Pending' = Pending /\ shown' = shown
           /\ queue # << >> /\ key' = queue[Len(queue)]
  <2>1. queue[Len(queue)] = pushed /\ pushed \in Range(queue)
    <3>1. Len(queue) \in DOMAIN queue /\ queue[Len(queue)] = pushed
      BY <1>5, Queue DEF IInv, TypeOK, Ordered
    <3> QED
      BY <3>1 DEF Range
  <2> QED
    BY <1>2, <1>5, <2>1 DEF LastKept, AllKept, Shown, Pending
<1>6. CASE pushed' = pushed /\ \E r \in Elements : Serve(r)
  <2>1. PICK r \in Elements : Serve(r)
    BY <1>6
  <2>2. /\ Pending' = Range(queue) /\ key' = 0
        /\ \A e : Shown(e) => Shown(e)'
        /\ kind # "search" => \A e \in batch : Shown(e)'
        /\ kind = "search" /\ batch # {} => key # 0 /\ \A e : e = key => Shown(e)'
    BY <2>1, ServedAll DEF Pending
  <2>3. AllKept'
    BY <1>2, <1>6, <2>2 DEF AllKept, Pending
  <2>4. LastKept'
    <3> SUFFICES ASSUME kind = "search"
                 PROVE  pushed = 0 \/ pushed \in Range(queue) \/ Shown(pushed)'
      BY <1>2, <1>6, <2>2 DEF LastKept
    <3>1. pushed = 0 \/ pushed \in Range(queue) \/ pushed \in batch \/ Shown(pushed)
      BY <1>2 DEF LastKept, Pending
    <3>2. ASSUME pushed \in batch PROVE Shown(pushed)'
      <4>1. key # 0 /\ \A e : e = key => Shown(e)'
        BY <2>2, <3>2
      <4>2. key = pushed
        BY <1>2, <4>1 DEF LastKept
      <4>3. \A e : e = pushed => Shown(e)'
        BY <4>1, <4>2
      <4> QED
        BY <1>6, <4>3 DEF Shown
    <3>3. ASSUME Shown(pushed) PROVE Shown(pushed)'
      <4>1. \A e : e = pushed => Shown(e)'
        BY <2>2, <3>3
      <4> QED
        BY <1>6, <4>1 DEF Shown
    <3> QED
      BY <3>1, <3>2, <3>3
  <2> QED
    BY <2>3, <2>4
<1> QED
  BY <1>3, <1>4, <1>5, <1>6, Changes

LEMMA KeptMeansNothingLost == IInv /\ LastKept /\ AllKept => NothingLost
<1> SUFFICES ASSUME IInv, LastKept, AllKept, ended = "no", ~broken, ~missed,
                    NEW e \in 1 .. pushed
             PROVE  IF kind = "search" THEN \E f \in e .. pushed : f \in Held \/ Shown(f)
                                       ELSE e \in Held \/ Shown(e)
  BY DEF NothingLost
<1>1. pushed \in Nat /\ pushed # 0 /\ pushed \in e .. pushed
  BY Numbers DEF IInv, TypeOK
<1>2. Pending \subseteq Held
  BY DEF Pending, Held
<1> QED
  BY <1>1, <1>2 DEF LastKept, AllKept

-----------------------------------------------------------------------------
(* The theorems.                                                           *)

\* The queue, its runners and its consumer have their sorts; who is inside the
\* consumer, or waits out the delay, holds the mutex.
THEOREM TypeCorrect == Spec => []TypeOK
<1>1. IInv => TypeOK
  BY DEF IInv
<1> QED
  BY <1>1, Inductive, PTL

\* ~STLazyQueue: after its body no runner gets past runner_mutex and _run.
THEOREM QuietAfterEnd == Spec => []EndMeansQuiet
<1>1. IInv => EndMeansQuiet
  BY DEF IInv, Stopped, EndMeansQuiet
<1> QED
  BY <1>1, Inductive, PTL

\* init's loop: what is served was pushed after all that was served before.
THEOREM ServesInOrder == Spec => []ServedInOrder
<1>1. Init => ServedInOrder
  BY DEF Init, ServedInOrder
<1> QED
  BY <1>1, Inductive, OrderStep, PTL DEF Spec

\* checkRunner: starting a runner for the first element alone suffices.
THEOREM AlwaysAttended == Spec => []NeverStranded
<1>1. Init => NeverStranded
  BY DEF Init, NeverStranded
<1> QED
  BY <1>1, Inductive, StrandedStep, PTL DEF Spec

\* push and the consumers: each element is pending or served, the last of them
\* where only that matters, unless it came while a search took its key.
THEOREM LosesNothing == Spec => []NothingLost
<1>1. Init => LastKept /\ AllKept
  BY Numbers DEF Init, LastKept, AllKept
<1>2. Spec => [](IInv /\ LastKept /\ AllKept)
  BY <1>1, Inductive, KeptStep, PTL DEF Spec
<1> QED
  BY <1>2, KeptMeansNothingLost, PTL
=============================================================================
