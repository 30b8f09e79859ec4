--------------------------- MODULE MessageStore ---------------------------
(***************************************************************************)
(* The message table, the session list, and the unread counter that ties   *)
(* them together.  A batch of messages is stored by one task of _dbPool in *)
(* two transactions: the rows first, from which two triggers maintain the  *)
(* counter of a session that exists, and then the sessions, where a new    *)
(* one starts with a counter computed from the batch.  The user removes    *)
(* sessions, the session first and then its messages; a group that is left *)
(* loses its messages first.                                               *)
(*                                                                         *)
(*   DataBasePlug::insertMessageInfo, bulkInsertMessageInfo,               *)
(*       bulkDeleteSessions, bulkDeleteGroup, deleteMessageByMessageId,    *)
(*       updateMessageReadFlags                                            *)
(*   MessageDao::bulkInsertMessageInfo, bulkUpdateSessionList,             *)
(*       bulkDeleteMessage, updateReadMask (both), TriggerConfig           *)
(*                                                                         *)
(* A transaction is one step, which DbConnection justifies for the tasks   *)
(* of the pool.                                                            *)
(***************************************************************************)
EXTENDS Naturals, Sequences, FiniteSets

CONSTANTS
    Msgs,       \* message ids
    Peers,      \* the conversations (XmppId and RealJid)
    Peer,       \* [Msgs -> Peers]
    Time,       \* [Msgs -> Nat], LastUpdateTime
    Mine,       \* the messages this user sent (Direction 1, From is self)
    BatchSize   \* bound on the messages of one page or request

ASSUME MessageAssumption ==
    /\ IsFiniteSet(Msgs) /\ Mine \subseteq Msgs
    /\ Peer \in [Msgs -> Peers] /\ Time \in [Msgs -> Nat]
    /\ BatchSize \in Nat

VARIABLES
    stored,   \* IM_Message
    read,     \* the rows with ReadedTag & 2
    listed,   \* IM_SessionList
    count,    \* UnreadCount
    last,     \* LastUpdateTime of the session
    todo,     \* what the second transaction of the running task has to do
    upset     \* history: what went wrong so far, of the kinds below

sessions == <<listed, count, last>>
vars == <<stored, read, sessions, todo, upset>>

\* The second transaction of a batch, of a removal or of a group's deletion that
\* never ran; a group's messages kept by a rollback nobody looks at; a message
\* deleted alone; read flags written between the two transactions of a task; a
\* batch whose messages of one time were miscounted.
Upsets == {"list", "remove", "unlist", "kept", "deleted", "flagged", "tied"}

\* Between two tasks; the session map of a batch; the removal of sessions.
Nothing == [do |-> "nothing", sids |-> {}, unread |-> [p \in Peers |-> 0],
            time |-> [p \in Peers |-> 0]]

Of(p)     == {m \in Msgs : Peer[m] = p}
Unread(p) == {m \in (stored \ read) \ Mine : Peer[m] = p}

Init ==
    /\ stored = {} /\ read = {} /\ listed = {}
    /\ count = [p \in Peers |-> 0] /\ last = [p \in Peers |-> 0]
    /\ todo = Nothing
    /\ upset = {}

----------------------------------------------------------------------------
(* The triggers.                                                           *)

\* sessionlist_unread_insert: rows that are new and unread.
\* Faulty variant: it counts the user's own messages too.
InsertTriggerAll(new) ==
    count' = [p \in Peers |-> IF p \notin listed THEN count[p]
                              ELSE count[p] + Cardinality(new \intersect Of(p))]
InsertTrigger(new) ==
    count' = [p \in Peers |-> IF p \notin listed THEN count[p]
                              ELSE count[p] + Cardinality((new \ Mine) \intersect Of(p))]

Rising(again, p)  == Cardinality(((again \intersect read) \ Mine) \intersect Of(p))
Falling(now, p)   == Cardinality(((now \ read) \ Mine) \intersect Of(p))

\* sessionlist_unread_update, row by row: now read, and unread again.  A
\* counter at zero stays there (case when UnreadCount > 0), so the order of the
\* rows decides how many of the decrements are lost.
\* Faulty variant: no decrement is lost.
UpdateTriggerBelow(now, again) ==
    count' = [p \in Peers |-> IF p \in listed THEN count[p] + Rising(again, p) - Falling(now, p)
                              ELSE count[p]]
UpdateTrigger(now, again) ==
    \E lost \in [Peers -> 0 .. Cardinality(now)] :
        /\ \A p \in Peers : /\ lost[p] <= Falling(now, p)
                            /\ lost[p] = 0 \/ lost[p] <= Falling(now, p) - count[p]
                            /\ Falling(now, p) <= count[p] + Rising(again, p) + lost[p]
        /\ count' = [p \in Peers |->
                        IF p \in listed
                        THEN count[p] + Rising(again, p) + lost[p] - Falling(now, p)
                        ELSE count[p]]

----------------------------------------------------------------------------
(* A batch: a page of the history, or one live message.                    *)

Batches == {b \in UNION {[1 .. n -> Msgs] : n \in 1 .. BatchSize} :
               \A i, k \in DOMAIN b : i < k => b[i] # b[k] /\ Time[b[i]] <= Time[b[k]]}
Ids(b) == {b[i] : i \in DOMAIN b}

\* The session map counts an unread message of another user if it is the first
\* of its session or strictly newer than those before it.
Counted(b, seen, p) ==
    {b[i] : i \in {k \in DOMAIN b : /\ Peer[b[k]] = p /\ b[k] \notin seen \union Mine
                                    /\ \A h \in 1 .. k - 1 :
                                          Peer[b[h]] = p => Time[b[h]] < Time[b[k]]}}

Tied(b, seen) ==
    \E p \in Peers : Counted(b, seen, p) # ((Ids(b) \ seen) \ Mine) \intersect Of(p)

\* Faulty variant: the time of the first message.
LatestFirst(b, p) ==
    IF p \notin {Peer[m] : m \in Ids(b)} THEN 0
    ELSE CHOOSE t \in {Time[m] : m \in Ids(b) \intersect Of(p)} :
            \A m \in Ids(b) \intersect Of(p) : t <= Time[m]
Latest(b, p) ==
    IF p \notin {Peer[m] : m \in Ids(b)} THEN 0
    ELSE CHOOSE t \in {Time[m] : m \in Ids(b) \intersect Of(p)} :
            \A m \in Ids(b) \intersect Of(p) : Time[m] <= t

\* First transaction.  seen: the messages the server says are read.  A row that
\* exists keeps its tag (ON CONFLICT updates the content only).
StoreMessages(b, seen) ==
    LET new == Ids(b) \ stored IN
    /\ todo = Nothing
    /\ stored' = stored \union Ids(b)
    /\ read' = read \union (new \intersect seen)
    /\ InsertTrigger(new \ seen)
    /\ todo' = [do |-> "list",
                sids |-> {Peer[m] : m \in Ids(b)},
                unread |-> [p \in Peers |-> Cardinality(Counted(b, seen, p))],
                time |-> [p \in Peers |-> Latest(b, p)]]
    /\ upset' = upset \union (IF Tied(b, seen) THEN {"tied"} ELSE {})
    /\ UNCHANGED <<listed, last>>

\* Faulty variant: an UPDATE instead of an upsert.
ListSessionsUpdate ==
    /\ todo.do = "list"
    /\ last' = [p \in Peers |-> IF p \in todo.sids \intersect listed /\ last[p] < todo.time[p]
                                THEN todo.time[p] ELSE last[p]]
    /\ todo' = Nothing
    /\ UNCHANGED <<stored, read, listed, count, upset>>
\* Second transaction, bulkUpdateSessionList: a new session starts with the
\* counter of the map; one that exists takes over a newer message only.
ListSessions ==
    /\ todo.do = "list"
    /\ listed' = listed \union todo.sids
    /\ count' = [p \in Peers |-> IF p \in todo.sids \ listed THEN todo.unread[p] ELSE count[p]]
    /\ last' = [p \in Peers |->
                  IF p \in todo.sids /\ (p \notin listed \/ last[p] < todo.time[p])
                  THEN todo.time[p] ELSE last[p]]
    /\ todo' = Nothing
    /\ UNCHANGED <<stored, read, upset>>

----------------------------------------------------------------------------
(* Read states.                                                            *)

\* The messages one request names.
Selections == {ids \in SUBSET Msgs : Cardinality(ids) <= BatchSize}

\* updateReadMask(message ids): ReadedTag | mask.
MarkRead(ids) ==
    /\ todo = Nothing
    /\ read' = read \union (ids \intersect stored)
    /\ UpdateTrigger(ids \intersect stored, {})
    /\ UNCHANGED <<stored, listed, last, todo, upset>>

\* updateReadMask(group and time): the incoming rows from the oldest unread
\* one up to the mark.
MarkGroup(p, t) ==
    LET unread == {m \in stored \ read : Peer[m] = p}
        hit == {m \in (stored \ Mine) \intersect Of(p) :
                   /\ Time[m] <= t
                   /\ \A u \in unread : (\A v \in unread : Time[u] <= Time[v])
                                           => Time[u] <= Time[m]}
    IN
    /\ todo = Nothing
    /\ read' = read \union hit
    /\ UpdateTrigger(hit, {})
    /\ UNCHANGED <<stored, listed, last, todo, upset>>

\* updateMessageReadFlags: ReadedTag = flag, on the calling thread.
AssignFlags(ids, flagged) ==
    /\ upset' = upset \union (IF todo = Nothing THEN {} ELSE {"flagged"})
    /\ read' = (read \ ids) \union (ids \intersect flagged \intersect stored)
    /\ UpdateTrigger(ids \intersect flagged \intersect stored,
                     (ids \ flagged) \intersect stored)
    /\ UNCHANGED <<stored, listed, last, todo>>

----------------------------------------------------------------------------
(* Removals.  No trigger looks at a deleted row.                           *)

Without(ps, S) == {m \in S : Peer[m] \notin ps}
Unlist(ps) ==
    /\ listed' = listed \ ps
    /\ count' = [p \in Peers |-> IF p \in ps THEN 0 ELSE count[p]]
    /\ last' = [p \in Peers |-> IF p \in ps THEN 0 ELSE last[p]]

\* bulkDeleteSessions: the sessions, and then their messages.
\* Faulty variant: the sessions stay.
RemoveSessionsLater(ps) ==
    /\ todo = Nothing
    /\ todo' = [Nothing EXCEPT !.do = "remove", !.sids = ps]
    /\ UNCHANGED <<stored, read, sessions, upset>>
RemoveSessions(ps) ==
    /\ todo = Nothing
    /\ Unlist(ps)
    /\ todo' = [Nothing EXCEPT !.do = "remove", !.sids = ps]
    /\ UNCHANGED <<stored, read, upset>>

RemoveMessages ==
    /\ todo.do = "remove"
    /\ stored' = Without(todo.sids, stored) /\ read' = Without(todo.sids, read)
    /\ todo' = Nothing
    /\ UNCHANGED <<sessions, upset>>

\* bulkDeleteGroup: the messages, and then the sessions, whatever became of the
\* messages.
DeleteGroupMessages(ps) ==
    /\ todo = Nothing
    /\ todo' = [Nothing EXCEPT !.do = "unlist", !.sids = ps]
    /\ \/ /\ stored' = Without(ps, stored) /\ read' = Without(ps, read)
          /\ UNCHANGED upset
       \/ /\ upset' = upset \union {"kept"}
          /\ UNCHANGED <<stored, read>>
    /\ UNCHANGED sessions

DeleteGroupSessions ==
    /\ todo.do = "unlist"
    /\ Unlist(todo.sids)
    /\ todo' = Nothing
    /\ UNCHANGED <<stored, read, upset>>

\* deleteMessageByMessageId: one row; the session is not looked at.
DeleteMessage(m) ==
    /\ todo = Nothing /\ m \in stored
    /\ stored' = stored \ {m} /\ read' = read \ {m}
    /\ upset' = upset \union {"deleted"}
    /\ UNCHANGED <<sessions, todo>>

\* The process ends between the two transactions, or the second rolls back.
Interrupt ==
    /\ todo.do # "nothing"
    /\ todo' = Nothing /\ upset' = upset \union {todo.do}
    /\ UNCHANGED <<stored, read, sessions>>

Next ==
    \/ \E b \in Batches : \E seen \in SUBSET (Ids(b)) : StoreMessages(b, seen)
    \/ ListSessions
    \/ \E ids \in Selections : MarkRead(ids)
    \/ \E p \in Peers, m \in Msgs : MarkGroup(p, Time[m])
    \/ \E ids \in Selections : \E flagged \in SUBSET ids : AssignFlags(ids, flagged)
    \/ \E ps \in SUBSET Peers : RemoveSessions(ps) \/ DeleteGroupMessages(ps)
    \/ RemoveMessages \/ DeleteGroupSessions
    \/ \E m \in Msgs : DeleteMessage(m)
    \/ Interrupt

Spec == Init /\ [][Next]_vars

----------------------------------------------------------------------------
(* Properties.                                                             *)

\* The sorts of all variables; only rows can be read, and a session that is
\* not listed has no counter.
TypeOK ==
    /\ stored \subseteq Msgs /\ read \subseteq stored
    /\ listed \subseteq Peers
    /\ count \in [Peers -> Nat] /\ last \in [Peers -> Nat]
    /\ \A p \in Peers \ listed : count[p] = 0 /\ last[p] = 0
    /\ todo \in [do : {"nothing", "list", "remove", "unlist"}, sids : SUBSET Peers,
                 unread : [Peers -> Nat], time : [Peers -> Nat]]
    /\ upset \subseteq Upsets

\* The sessions a group's deletion is about to take.
Leaving == IF todo.do = "unlist" THEN todo.sids ELSE {}

\* The badge of a session is the number of its unread incoming messages, which
\* is what SessionListDao::updateUnreadCount computes from scratch.
CountExact ==
    upset = {} => \A p \in listed \ Leaving : count[p] = Cardinality(Unread(p))

\* No message without a session to show it in.
EveryMessageListed ==
    upset \intersect {"list", "remove", "kept"} = {} =>
        \A m \in stored : Peer[m] \in listed \/ Peer[m] \in todo.sids

\* A session is as recent as its newest message, by the times the messages were
\* stored with.
LastIsNewest ==
    upset \intersect {"list", "remove", "kept"} = {} /\ todo = Nothing =>
        \A m \in stored : Peer[m] \in listed => Time[m] <= last[Peer[m]]

\* A session that is shown has a message to show, between the transactions of a
\* task and after a failure too: rows come before their session, and removed
\* sessions go before their rows.  A group's deletion works the other way round.
SessionsHaveMessages ==
    upset \intersect {"unlist", "deleted"} = {} =>
        \A p \in listed \ Leaving : \E m \in stored : Peer[m] = p
=============================================================================
