----------------------------- MODULE LazyQueue -----------------------------
(***************************************************************************)
(* STLazyQueue: what is pushed is served a little later, by a detached     *)
(* thread, once nothing more was pushed during a delay.  A push that makes *)
(* the queue's size 1 starts such a thread (a runner); runners exclude     *)
(* each other by runner_mutex, which the destructor takes too, but pushes  *)
(* go on while one serves, and a runner may outlive the queue.             *)
(*                                                                         *)
(*   STLazyQueue: init's loop, push and checkRunner, clear, the destructor *)
(*   the consumers of Communication ("cards"), ChatMainWgt ("resize") and  *)
(*   the search boxes ("search")                                           *)
(***************************************************************************)
EXTENDS Naturals, Sequences, SequencesExt

CONSTANTS
    Kinds,  \* the queues considered
    MaxPush \* bounds what is pushed

ASSUME KindsAssumption == Kinds \subseteq {"cards", "resize", "search"}
ASSUME MaxPushAssumption == MaxPush \in Nat

Elements == 1..MaxPush

VARIABLES
    kind,   \* which queue it is
    queue,  \* m_queque, the elements numbered as they are pushed
    pushed, \* how many there were
    runner, \* per element, where the thread its push started is
    holder, \* the runner that has runner_mutex, or 0
    size,   \* its size, from before the delay
    key,    \* the tail a search will be for, or 0
    batch,  \* what its consumer popped
    shown,  \* history: what was served, in order
    missed, \* history: something came between tail() and the last pop()
    run,    \* _run
    ended,  \* how far the queue's end is
    broken  \* a step was undefined

consumer == <<key, batch, shown>>
owner == <<kind, run, ended>>
vars == <<queue, pushed, runner, holder, size, consumer, missed, owner, broken>>

Init ==
    /\ kind \in Kinds
    /\ queue = << >> /\ pushed = 0
    /\ runner = [e \in Elements |-> "none"]
    /\ holder = 0 /\ size = 0 /\ key = 0 /\ batch = {} /\ shown = << >>
    /\ missed = FALSE /\ run = TRUE /\ ended = "no" /\ broken = FALSE

Serving == {"tail", "look", "take", "serve"}
InFunc(r) == runner[r] \in Serving

----------------------------------------------------------------------------
(* The owner's thread.                                                     *)

\* Faulty variant: the size is tested before the push.
StartsLate == run /\ Len(queue) = 1
\* checkRunner, after the push.
Starts == run /\ Len(queue) = 0

Push ==
    LET e == pushed + 1 IN
    /\ ~broken /\ ended = "no" /\ e \in Elements
    /\ pushed' = e
    /\ queue' = Append(queue, e)
    /\ runner' = [runner EXCEPT ![e] = IF Starts THEN "test" ELSE "none"]
    /\ missed' = (missed \/ key # 0)
    /\ UNCHANGED <<holder, size, consumer, owner, broken>>

\* ~ChatMainWgt clears its queues first, whoever is reading them.
Clear ==
    /\ ~broken /\ ended = "no" /\ kind = "resize"
    /\ queue' = << >> /\ ended' = "cleared"
    /\ UNCHANGED <<pushed, runner, holder, size, consumer, missed, kind, run, broken>>

\* Communication never deletes its queue.
Ending == \/ kind = "resize" /\ ended = "cleared"
          \/ kind = "search" /\ ended = "no"

\* Faulty variant: the destructor does not wait for the runner.
MayHaltAlways == TRUE
MayHalt == holder = 0

\* The destructor's body, under runner_mutex.
Halt ==
    /\ ~broken /\ Ending /\ MayHalt
    /\ run' = FALSE /\ ended' = "halted"
    /\ UNCHANGED <<queue, pushed, runner, holder, size, consumer, missed, kind, broken>>

\* The members go.
Free ==
    /\ ~broken /\ ended = "halted"
    /\ ended' = "gone"
    /\ UNCHANGED <<queue, pushed, runner, holder, size, consumer, missed, kind, run, broken>>

----------------------------------------------------------------------------
(* The runners.                                                            *)

\* Moves runner r from one place to another, of a queue that is there.
Goes(r, from, to) ==
    /\ ~broken /\ ended # "gone" /\ runner[r] = from
    /\ runner' = [runner EXCEPT ![r] = to]
    /\ UNCHANGED <<pushed, missed, owner>>

\* while (!empty())
Test(r) ==
    /\ Goes(r, "test", IF queue = << >> THEN "done" ELSE "lock")
    /\ UNCHANGED <<queue, holder, size, consumer, broken>>

\* Faulty variant: runners do not exclude each other.
MayEnterAlways == TRUE
MayEnter == holder = 0

\* lock_guard, the test of _run and the first size().
Enter(r) ==
    /\ MayEnter
    /\ Goes(r, "lock", IF run THEN "delay" ELSE "done")
    /\ holder' = IF run THEN r ELSE 0
    /\ size' = Len(queue)
    /\ UNCHANGED <<queue, consumer, broken>>

\* After sleep_for: continue if the size changed, or the consumer.
Settle(r) ==
    LET waits == Len(queue) # size \/ queue = << >> IN
    /\ Goes(r, "delay", IF waits THEN "test" ELSE IF kind = "search" THEN "tail" ELSE "look")
    /\ holder' = IF waits THEN 0 ELSE holder
    /\ UNCHANGED <<queue, size, consumer, broken>>

\* Faulty variant: front() for tail().
PickHead == Head(queue)
Pick == Last(queue)

\* The search boxes: queue->tail().
Newest(r) ==
    /\ Goes(r, "tail", "look")
    /\ IF queue = << >> THEN broken' = TRUE /\ UNCHANGED key
                       ELSE key' = Pick /\ UNCHANGED broken
    /\ UNCHANGED <<queue, holder, size, batch, shown>>

\* while (!queue->empty())
Look(r) ==
    /\ Goes(r, "look", IF queue = << >> THEN "serve" ELSE "take")
    /\ UNCHANGED <<queue, holder, size, consumer, broken>>

\* front() and pop(): undefined once the queue was cleared under it.
Take(r) ==
    /\ IF queue = << >>
       THEN broken' = TRUE /\ UNCHANGED <<queue, batch>>
       ELSE queue' = Tail(queue) /\ batch' = batch \union {Head(queue)} /\ UNCHANGED broken
    /\ Goes(r, "take", "look")
    /\ UNCHANGED <<holder, size, key, shown>>

\* What the popped elements are for: cards are fetched and stored, a widget
\* or a search is signalled; then the lock goes.
Serve(r) ==
    /\ Goes(r, "serve", "test")
    /\ shown' = IF batch = {} THEN shown
                ELSE Append(shown, IF kind = "search" THEN {key} ELSE batch)
    /\ key' = 0 /\ batch' = {} /\ holder' = 0
    /\ UNCHANGED <<queue, size, broken>>

\* A runner that comes back to a queue that is gone: it reads _run and stops,
\* or whatever.
Touch(r) ==
    /\ ~broken /\ ended = "gone" /\ runner[r] \notin {"none", "done"}
    /\ \/ runner' = [runner EXCEPT ![r] = "done"] /\ UNCHANGED broken
       \/ broken' = TRUE /\ UNCHANGED runner
    /\ UNCHANGED <<queue, pushed, holder, size, consumer, missed, owner>>

Step(r) ==
    \/ Test(r) \/ Enter(r) \/ Settle(r) \/ Newest(r)
    \/ Look(r) \/ Take(r) \/ Serve(r) \/ Touch(r)

Next ==
    \/ Push \/ Clear \/ Halt \/ Free
    \/ \E r \in Elements : Step(r)

Spec == Init /\ [][Next]_vars

\* Threads run.
FairSpec == Spec /\ \A r \in Elements : WF_vars(Step(r))

----------------------------------------------------------------------------
(* Properties.                                                             *)

Held == Range(queue) \union batch \union {key}
Shown(e) == \E i \in DOMAIN shown : e \in shown[i]

\* The sorts of all variables; who holds the mutex is past it, and only its
\* holder has a batch or a key.
TypeOK ==
    /\ kind \in Kinds /\ queue \in Seq(Elements) /\ pushed \in 0..MaxPush
    /\ runner \in [Elements ->
           {"none", "test", "lock", "delay", "done"} \union Serving]
    /\ holder \in 0..MaxPush /\ size \in 0..MaxPush /\ key \in 0..MaxPush
    /\ batch \subseteq Elements /\ shown \in Seq(SUBSET Elements)
    /\ missed \in BOOLEAN /\ run \in BOOLEAN /\ broken \in BOOLEAN
    /\ ended \in {"no", "cleared", "halted", "gone"}
    /\ \A r \in Elements : (InFunc(r) \/ runner[r] = "delay") => holder = r
    /\ holder = 0 => key = 0 /\ batch = {}

\* No element waits in a queue that nobody will look at again: a runner that
\* found it empty and left was replaced by the push that followed.
NeverStranded ==
    queue # << >> /\ run /\ ~broken =>
        \E r \in Elements : InFunc(r) \/ runner[r] \in {"test", "lock", "delay"}

\* Every card request pushed is pending or served, and every key typed has a
\* later one, or itself, pending or searched, unless it came between the
\* consumer's tail() and its last pop().
NothingLost ==
    ended = "no" /\ ~broken /\ ~missed =>
        \A e \in 1..pushed :
            IF kind = "search" THEN \E f \in e..pushed : f \in Held \/ Shown(f)
                               ELSE e \in Held \/ Shown(e)

\* Results come in the order of what was pushed, and nothing is served twice,
\* though one runner may serve while another waits.
ServedInOrder ==
    \A i, j \in DOMAIN shown : i < j =>
        \A e \in shown[i], f \in shown[j] : e < f

\* Once the destructor is through, no consumer is inside the widget that the
\* queue belonged to.
EndMeansQuiet ==
    ended \in {"halted", "gone"} => \A r \in Elements : ~InFunc(r)

\* The last thing typed is searched, and every card request is served, without
\* a further push.
EventuallyServed ==
    \A e \in Elements :
        pushed = e ~> (\E f \in e..MaxPush : Shown(f)) \/ missed \/ ended # "no" \/ broken
=============================================================================
