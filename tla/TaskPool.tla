----------------------------- MODULE TaskPool -----------------------------
(***************************************************************************)
(* The single-threaded task pools everything in the client waits on: one   *)
(* in front of the database, three in front of HTTP.  A caller puts a task *)
(* into a pool's queue and waits for its future; the task of an HTTP pool  *)
(* is a request and its callback, and the callback may in turn call the    *)
(* database's pool and wait.  The database's pool is destroyed while the   *)
(* process ends, when other threads may still call it.                     *)
(*                                                                         *)
(*   ThreadPool::ThreadPool (the worker), enqueue, ~ThreadPool             *)
(*   Communication::addHttpRequest, DataBasePlug::~DataBasePlug            *)
(*                                                                         *)
(* A step is what happens between two points where another thread can      *)
(* come in: the destructor takes no mutex, so the worker's test, its sleep *)
(* and its pop are steps of their own.                                     *)
(***************************************************************************)
EXTENDS Naturals, Sequences, FiniteSets

CONSTANTS
    Pools,    \* the pools
    Ends,     \* those that are destroyed: _dbPool, never _httpPool
    Jobs,     \* the tasks, each submitted once
    PoolOf,   \* [Jobs -> Pools], for a request the hash of its URL
    Inner,    \* for some tasks, the task their callback waits for
    Notifies  \* the destructor notifies the worker: not on Windows

ASSUME PoolAssumption ==
    /\ Ends \subseteq Pools /\ PoolOf \in [Jobs -> Pools] /\ Notifies \in BOOLEAN
ASSUME NestingAssumption ==
    /\ DOMAIN Inner \subseteq Jobs
    /\ \A j \in DOMAIN Inner :
          /\ Inner[j] \in Jobs \ DOMAIN Inner
          /\ \A k \in Jobs : PoolOf[k] = PoolOf[Inner[j]] => k \notin DOMAIN Inner
    /\ \A j, k \in DOMAIN Inner : Inner[j] = Inner[k] => j = k

VARIABLES
    queue,    \* per pool, its tasks
    worker,   \* per pool, where its thread is
    running,  \* per pool, the task its thread runs, if any
    stop,     \* per pool, stop
    ending,   \* per pool, where its destruction is
    caller,   \* per task, where the thread that submits it is
    accepted, \* history: per pool, the tasks put into its queue
    taken,    \* history: per pool, the tasks its thread took
    up        \* the process runs

history == <<accepted, taken>>
vars == <<queue, worker, running, stop, ending, caller, history, up>>

Init ==
    /\ queue = [p \in Pools |-> << >>]
    /\ worker = [p \in Pools |-> "loop"]
    /\ running = [p \in Pools |-> {}]
    /\ stop = [p \in Pools |-> FALSE]
    /\ ending = [p \in Pools |-> "no"]
    /\ caller = [j \in Jobs |-> "idle"]
    /\ accepted = [p \in Pools |-> << >>] /\ taken = [p \in Pools |-> << >>]
    /\ up = TRUE

\* queue_mutex: the worker holds it from its test to its sleep or its pop.
Locked(p) == worker[p] \in {"drowsy", "grab"}

Settled(j) == caller[j] \in {"answered", "thrown"}

----------------------------------------------------------------------------
(* enqueue, and get() on the future.                                       *)

\* A request or a database call from any thread; or from the callback of the
\* task that is running.
Submits(j) ==
    \A k \in DOMAIN Inner : Inner[k] = j => k \in running[PoolOf[k]]

\* if (!stop): a stopped pool drops the task, and get() throws broken_promise.
Call(j) ==
    /\ up /\ caller[j] = "idle" /\ Submits(j) /\ ending[PoolOf[j]] # "gone"
    /\ caller' = [caller EXCEPT ![j] = IF stop[PoolOf[j]] THEN "thrown" ELSE "entering"]
    /\ UNCHANGED <<queue, worker, running, stop, ending, history, up>>

\* condition.notify_one().
\* Faulty variant: nobody is woken.
WokenNever(p) == worker
Woken(p) == IF worker[p] = "asleep" THEN [worker EXCEPT ![p] = "enter"] ELSE worker

\* Faulty variant: the mutex is not taken.
MayInsertAnyhow(p) == TRUE
MayInsert(p) == ~Locked(p)

\* The locked part: emplace and notify.
Insert(j) ==
    LET p == PoolOf[j] IN
    /\ up /\ caller[j] = "entering" /\ ending[p] # "gone" /\ MayInsert(p)
    /\ queue' = [queue EXCEPT ![p] = Append(@, j)]
    /\ worker' = Woken(p)
    /\ accepted' = [accepted EXCEPT ![p] = Append(@, j)]
    /\ caller' = [caller EXCEPT ![j] = "waiting"]
    /\ UNCHANGED <<running, stop, ending, taken, up>>

----------------------------------------------------------------------------
(* The worker.                                                             *)

\* while (!stop)
Loop(p) ==
    /\ up /\ worker[p] = "loop"
    /\ worker' = [worker EXCEPT ![p] = IF stop[p] THEN "exited" ELSE "enter"]
    /\ UNCHANGED <<queue, running, stop, ending, caller, history, up>>

\* wait's predicate under the mutex, and the return that follows it.
Test(p) ==
    /\ up /\ worker[p] = "enter"
    /\ worker' = [worker EXCEPT ![p] = IF queue[p] # << >> THEN "grab"
                                       ELSE IF stop[p] THEN "exited" ELSE "drowsy"]
    /\ UNCHANGED <<queue, running, stop, ending, caller, history, up>>

Sleep(p) ==
    /\ up /\ worker[p] = "drowsy"
    /\ worker' = [worker EXCEPT ![p] = "asleep"]
    /\ UNCHANGED <<queue, running, stop, ending, caller, history, up>>

\* A condition variable may wake up unasked.
Stir(p) ==
    /\ up /\ worker[p] = "asleep"
    /\ worker' = [worker EXCEPT ![p] = "enter"]
    /\ UNCHANGED <<queue, running, stop, ending, caller, history, up>>

\* Faulty variant: the newest task first.
NextIndexLast(p) == Len(queue[p])
NextIndex(p) == 1

\* tasks.front() and pop(); the destructor may have emptied the queue since
\* the test, and then front() is undefined.
Grab(p) ==
    /\ up /\ worker[p] = "grab"
    /\ IF queue[p] = << >>
       THEN up' = FALSE /\ UNCHANGED <<queue, worker, running, taken>>
       ELSE /\ running' = [running EXCEPT ![p] = {queue[p][NextIndex(p)]}]
            /\ queue' = [queue EXCEPT ![p] =
                   SubSeq(@, 1, NextIndex(p) - 1) \o SubSeq(@, NextIndex(p) + 1, Len(@))]
            /\ taken' = [taken EXCEPT ![p] = Append(@, queue[p][NextIndex(p)])]
            /\ worker' = [worker EXCEPT ![p] = "run"]
            /\ UNCHANGED up
    /\ UNCHANGED <<stop, ending, caller, accepted>>

\* Faulty variant: the task outlives its turn.
RestedNever(p) == running
\* task is a local of the loop's body.
Rested(p) == [running EXCEPT ![p] = {}]

\* The task returns, or throws, and its future is ready; a callback that calls
\* another pool is back.  A task whose connection was deleted may crash.
Finish(p, j) ==
    /\ up /\ worker[p] = "run" /\ j \in running[p]
    /\ j \in DOMAIN Inner => caller[Inner[j]] = "idle" \/ Settled(Inner[j])
    /\ \/ /\ running' = Rested(p)
          /\ worker' = [worker EXCEPT ![p] = "loop"]
          /\ caller' = [caller EXCEPT ![j] = "answered"]
          /\ UNCHANGED up
       \/ /\ ending[p] # "no" /\ up' = FALSE
          /\ UNCHANGED <<worker, running, caller>>
    /\ UNCHANGED <<queue, stop, ending, history>>

----------------------------------------------------------------------------
(* ~DataBasePlug deletes the connection, then ~ThreadPool runs.            *)

Delete(p) ==
    /\ up /\ p \in Ends /\ ending[p] = "no"
    /\ ending' = [ending EXCEPT ![p] = "deleted"]
    /\ UNCHANGED <<queue, worker, running, stop, caller, history, up>>

\* stop.store(true), without the mutex.
Halt(p) ==
    /\ up /\ ending[p] = "deleted"
    /\ stop' = [stop EXCEPT ![p] = TRUE]
    /\ ending' = [ending EXCEPT ![p] = "clear"]
    /\ UNCHANGED <<queue, worker, running, caller, history, up>>

\* Faulty variant: the callers are told, the tasks stay.
ClearKeeping(p) ==
    /\ up /\ ending[p] = "clear"
    /\ ending' = [ending EXCEPT ![p] = "notify"]
    /\ caller' = [j \in Jobs |-> IF \E i \in DOMAIN queue[p] : queue[p][i] = j
                                  THEN "thrown" ELSE caller[j]]
    /\ UNCHANGED <<queue, worker, running, stop, history, up>>
\* while (!tasks.empty()) tasks.pop(), without the mutex: the promise of each
\* task breaks.
Clear(p) ==
    /\ up /\ ending[p] = "clear"
    /\ IF queue[p] # << >>
       THEN /\ caller' = [caller EXCEPT ![Head(queue[p])] = "thrown"]
            /\ queue' = [queue EXCEPT ![p] = Tail(@)]
            /\ UNCHANGED ending
       ELSE /\ ending' = [ending EXCEPT ![p] = "notify"]
            /\ UNCHANGED <<queue, caller>>
    /\ UNCHANGED <<worker, running, stop, history, up>>

\* The queue is changed by two threads at once: undefined.
Collide(p) ==
    /\ up /\ ending[p] = "clear"
    /\ worker[p] = "grab" \/ \E j \in Jobs : PoolOf[j] = p /\ caller[j] = "entering"
    /\ up' = FALSE
    /\ UNCHANGED <<queue, worker, running, stop, ending, caller, history>>

\* condition.notify_all().
Notify(p) ==
    /\ up /\ ending[p] = "notify"
    /\ worker' = IF Notifies THEN Woken(p) ELSE worker
    /\ ending' = [ending EXCEPT ![p] = "join"]
    /\ UNCHANGED <<queue, running, stop, caller, history, up>>

\* join returns, and the members go, the remaining tasks with them.
Join(p) ==
    /\ up /\ ending[p] = "join" /\ worker[p] = "exited"
    /\ ending' = [ending EXCEPT ![p] = "gone"]
    /\ caller' = [j \in Jobs |-> IF PoolOf[j] = p /\ caller[j] = "waiting" THEN "thrown"
                                 ELSE caller[j]]
    /\ queue' = [queue EXCEPT ![p] = << >>]
    /\ UNCHANGED <<worker, running, stop, history, up>>

\* The process ends after the last destructor, whatever other threads do.
Exit ==
    /\ up /\ \E p \in Ends : ending[p] = "gone"
    /\ up' = FALSE
    /\ UNCHANGED <<queue, worker, running, stop, ending, caller, history>>

Work(p) == Loop(p) \/ Test(p) \/ Sleep(p) \/ Grab(p) \/ \E j \in Jobs : Finish(p, j)
Close(p) == Halt(p) \/ Clear(p) \/ Notify(p) \/ Join(p)

Next ==
    \/ \E j \in Jobs : Call(j) \/ Insert(j)
    \/ \E p \in Pools : Work(p) \/ Stir(p) \/ Delete(p) \/ Close(p) \/ Collide(p)
    \/ Exit

Spec == Init /\ [][Next]_vars

\* Threads that can run do, and a mutex that is free again and again is got;
\* nobody has to call, to destroy or to stir.
Fairness ==
    /\ \A p \in Pools : WF_vars(Work(p)) /\ WF_vars(Close(p))
    /\ \A j \in Jobs : SF_vars(Insert(j))
    /\ WF_vars(Exit)
FairSpec == Spec /\ Fairness

----------------------------------------------------------------------------
(* Properties.                                                             *)

\* The sorts of all variables; a pool runs one task at a time.
TypeOK ==
    /\ queue \in [Pools -> Seq(Jobs)]
    /\ worker \in [Pools -> {"loop", "enter", "drowsy", "asleep", "grab", "run", "exited"}]
    /\ running \in [Pools -> SUBSET Jobs]
    /\ \A p \in Pools : IF worker[p] = "run" THEN \E j \in Jobs : running[p] = {j}
                                             ELSE running[p] = {}
    /\ stop \in [Pools -> BOOLEAN]
    /\ ending \in [Pools -> {"no", "deleted", "clear", "notify", "join", "gone"}]
    /\ caller \in [Jobs -> {"idle", "entering", "waiting", "answered", "thrown"}]
    /\ accepted \in [Pools -> Seq(Jobs)] /\ taken \in [Pools -> Seq(Jobs)]
    /\ up \in BOOLEAN

\* The worker never sleeps, or goes to sleep, over a task: enqueue notifies
\* under the mutex the worker holds from its test to its sleep.
NoLostTask == \A p \in Pools : worker[p] \in {"drowsy", "asleep"} => queue[p] = << >>

\* Until a pool is stopped it runs what it accepted, once each, in the order of
\* acceptance: the rows of a message precede its read mark on the disk.
RunsInOrder == \A p \in Pools : ~stop[p] => accepted[p] = taken[p] \o queue[p]

\* A caller that got an exception may repeat the call: its task did not run and
\* never will, whatever the pool's end did to it.
ThrownNeverRuns ==
    \A j \in Jobs : caller[j] = "thrown" =>
        \A p \in Pools : \A i \in DOMAIN taken[p] : taken[p][i] # j

\* No thread waits for ever for a future, in the callback of another task or
\* outside, even when the pool ends under it.
NoCallerHangs ==
    \A j \in Jobs : caller[j] # "idle" ~> (Settled(j) \/ ~up)

\* "the destructor joins all threads": a pool whose end has begun is gone after
\* a while.  It is not: what the destructor does without the mutex the worker
\* may miss between its test and its sleep, and on Windows it is never told.
DestructorJoins ==
    \A p \in Ends : ending[p] # "no" ~> (ending[p] = "gone" \/ ~up)
=============================================================================
