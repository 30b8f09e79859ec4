---------------------------- MODULE VersionSync ----------------------------
(***************************************************************************)
(* The tables kept in step with the server by a version: the client asks   *)
(* for what changed since the version it holds and writes the answer in    *)
(* several transactions.  Where the version is kept, in which order the    *)
(* transactions come and what a failure of one does differs by table:      *)
(*                                                                         *)
(*   groups    GroupManager::getUserGroupInfo: version in a row of its own *)
(*   staff     UserManager::getNewStructure: the largest of its rows       *)
(*   settings  UserConfig and updateDbByJson: the largest of its rows      *)
(*   medals    Communication::getMedalList, getUserMedal: a row of its own *)
(*   replies   QuickReplyDao::batchInsertQuickReply: the largest of its    *)
(*             rows, one transaction                                       *)
(*                                                                         *)
(* A table may be asked for by two threads: the login's, a message         *)
(* handler's, the window's.                                                *)
(***************************************************************************)
EXTENDS Naturals, Sequences, FiniteSets, FiniteSetsExt

CONSTANTS
    Kinds,     \* the tables considered
    Keys,      \* what their rows are about
    SubKey,    \* [Keys -> a set], of a setting's (key, subkey) the subkey
    Before,    \* the server's changes before the first request
    Callers,   \* threads
    MaxLog,    \* bounds the server's changes
    MaxFaults  \* bounds failures and crashes

ASSUME KindAssumption ==
    Kinds \subseteq {"groups", "staff", "settings", "medals", "replies"}
ASSUME BoundAssumption == MaxLog \in Nat /\ MaxFaults \in Nat
ASSUME BeforeAssumption ==
    Before \in Seq([key : Keys, here : {TRUE}]) /\ Len(Before) <= MaxLog
ASSUME SubKeyAssumption == DOMAIN SubKey = Keys

VARIABLES
    kind,   \* which table it is
    log,    \* the server's changes: the key, and if it is there afterwards
    rows,   \* per key, the change its row comes from; 0: no row
    vers,   \* per key, the version in its row; 0: no row
    mark,   \* the version in a row of its own
    todo,   \* per caller, the transactions to come
    asked,  \* per caller, the version it asked from
    answer, \* per caller, the changes the answer covers
    state,  \* per caller, where it is
    upset,  \* history: what went wrong
    faults  \* how often

table == <<rows, vers, mark>>
client == <<table, todo, asked, answer, state, upset, faults>>
vars == <<kind, log, client>>

\* What can go wrong: two calls that write different answers at once, an
\* insertion, a deletion or the mark that failed, a crash between two
\* transactions, two deletions taken for one, an answer refused as a whole.
Upsets == {"crossed", "unput", "undeleted", "unmarked", "torn", "merged", "refused"}

Marked == kind \in {"groups", "medals"}

\* getGroupMainVersion, getUserVersion, getConfigVersion, MEDAL_LIST VERSION,
\* getQuickReplyVersion.
Version == IF Marked THEN mark ELSE Max({0} \union {vers[k] : k \in Keys})

Init ==
    /\ kind \in Kinds
    /\ log = Before
    /\ rows = [k \in Keys |-> 0] /\ vers = [k \in Keys |-> 0] /\ mark = 0
    /\ todo = [c \in Callers |-> << >>]
    /\ asked = [c \in Callers |-> 0] /\ answer = [c \in Callers |-> 0]
    /\ state = [c \in Callers |-> "idle"]
    /\ upset = {} /\ faults = 0

----------------------------------------------------------------------------
(* The server.                                                             *)

\* The change that says what k is, among the first n; 0: none.
Latest(k, n) == Max({0} \union {i \in 1..n : log[i].key = k})
There(k, n) == Latest(k, n) # 0 /\ log[Latest(k, n)].here

\* A medal's row changes but never goes.
Change(k, here) ==
    /\ Len(log) < MaxLog
    /\ here = FALSE => There(k, Len(log)) /\ kind # "medals"
    /\ kind = "groups" /\ here => ~There(k, Len(log))
    /\ log' = Append(log, [key |-> k, here |-> here])
    /\ UNCHANGED <<kind, client>>

\* What an answer tells caller c to write and to delete.
Changed(c) == {k \in Keys : Latest(k, answer[c]) > asked[c]}
Puts(c) == {k \in Changed(c) : There(k, answer[c])}
Dels(c) == Changed(c) \ Puts(c)

----------------------------------------------------------------------------
(* A call.                                                                 *)

\* Faulty variant: the settings in the staff's order.
PlanSwapped ==
    CASE kind = "groups" -> <<"put", "delete", "mark">>
      [] kind = "medals" -> <<"put", "mark">>
      [] kind = "replies" -> <<"all">>
      [] OTHER -> <<"put", "delete">>
\* The transactions and their order.
Plan ==
    CASE kind = "groups"   -> <<"put", "delete", "mark">>
      [] kind = "staff"    -> <<"put", "delete">>
      [] kind = "settings" -> <<"delete", "put">>
      [] kind = "medals"   -> <<"put", "mark">>
      [] kind = "replies"  -> <<"all">>

\* Reads the version and sends the request.
Ask(c) ==
    /\ state[c] = "idle"
    /\ state' = [state EXCEPT ![c] = "asked"]
    /\ asked' = [asked EXCEPT ![c] = Version]
    /\ UNCHANGED <<kind, log, table, todo, answer, upset, faults>>

\* Another call is writing an older answer.
Crosses(c) == \E d \in Callers \ {c} : todo[d] # << >> /\ answer[d] # Len(log)

\* The answer comes.  Medals: only if it lists any.
Answer(c) ==
    /\ state[c] = "asked"
    /\ answer' = [answer EXCEPT ![c] = Len(log)]
    /\ state' = [state EXCEPT ![c] = "writing"]
    /\ todo' = [todo EXCEPT ![c] =
           IF kind = "medals" /\ asked[c] = Len(log) THEN << >> ELSE Plan]
    /\ upset' = upset \union (IF Crosses(c) THEN {"crossed"} ELSE {})
    /\ UNCHANGED <<kind, log, table, asked, faults>>

\* No answer, or not one of the server's.
Refused(c) ==
    /\ state[c] = "asked"
    /\ state' = [state EXCEPT ![c] = "idle"]
    /\ asked' = [asked EXCEPT ![c] = 0]
    /\ UNCHANGED <<kind, log, table, todo, answer, upset, faults>>

\* Caller c's next transaction is t; the others are its to come.
Does(c, t) ==
    /\ state[c] = "writing" /\ todo[c] # << >> /\ Head(todo[c]) = t
    /\ UNCHANGED <<kind, log, asked, answer, state>>
Passes(c) == todo' = [todo EXCEPT ![c] = Tail(@)]

\* Faulty variant: the version asked from.
RowVersionAsked(c, k) == asked[c]
\* Staff and settings rows carry the version of the answer, replies theirs.
RowVersion(c, k) == IF kind = "replies" THEN Latest(k, answer[c]) ELSE answer[c]

\* Faulty variant: INSERT OR IGNORE for all.
WrittenOnce(c) ==
    /\ rows' = [k \in Keys |-> IF k \in Puts(c) /\ rows[k] = 0
                               THEN Latest(k, answer[c]) ELSE rows[k]]
    /\ vers' = [k \in Keys |-> IF k \in Puts(c) THEN RowVersion(c, k) ELSE vers[k]]
\* INSERT OR REPLACE; for groups INSERT OR IGNORE.
Written(c) ==
    /\ rows' = [k \in Keys |-> IF k \in Puts(c) /\ ~(kind = "groups" /\ rows[k] # 0)
                               THEN Latest(k, answer[c]) ELSE rows[k]]
    /\ vers' = [k \in Keys |-> IF k \in Puts(c) THEN RowVersion(c, k) ELSE vers[k]]

\* bulkInsertGroupInfo, bulkInsertUserInfo, bulkInsertConfig, insertMedalList.
Put(c) ==
    /\ Does(c, "put") /\ Passes(c)
    /\ Written(c)
    /\ UNCHANGED <<mark, upset, faults>>

\* deleteData[subKey] = key: of two deletions with one subkey one is kept.
Kept(D) == {E \in SUBSET D : \A k \in D : Cardinality({e \in E : SubKey[e] = SubKey[k]}) = 1}
Removed(D) == IF kind = "settings" THEN Kept(D) ELSE {D}

\* bulkDeleteGroup, bulkDeleteUserInfo, bulkRemoveConfig.
Delete(c) ==
    /\ Does(c, "delete") /\ Passes(c)
    /\ \E E \in Removed(Dels(c)) :
          /\ rows' = [k \in Keys |-> IF k \in E THEN 0 ELSE rows[k]]
          /\ vers' = [k \in Keys |-> IF k \in E THEN 0 ELSE vers[k]]
          /\ upset' = upset \union (IF E # Dels(c) THEN {"merged"} ELSE {})
    /\ UNCHANGED <<mark, faults>>

\* setGroupMainVersion, unless it did not change; insertConfig.
SetMark(c) ==
    /\ Does(c, "mark") /\ Passes(c)
    /\ mark' = answer[c]
    /\ UNCHANGED <<rows, vers, upset, faults>>

\* batchInsertQuickReply: get<std::string>() throws at a group's deletion,
\* and the whole answer is rolled back.
All(c) ==
    /\ Does(c, "all") /\ Passes(c)
    /\ IF Dels(c) = {} THEN Written(c) /\ UNCHANGED upset
                       ELSE upset' = upset \union {"refused"} /\ UNCHANGED <<rows, vers>>
    /\ UNCHANGED <<mark, faults>>

\* Faulty variant: a group that could not be inserted is passed over.
StopsNever(t) == FALSE
\* restSts: the groups' steps depend on the one before; bulkDeleteGroup says
\* true in any case, and nobody else looks.
Stops(t) == kind = "groups" /\ t \in {"put", "mark"}

\* A transaction that is rolled back.
Fail(c, t, what) ==
    /\ faults < MaxFaults /\ faults' = faults + 1
    /\ Does(c, t)
    /\ todo' = [todo EXCEPT ![c] = IF Stops(t) THEN << >> ELSE Tail(@)]
    /\ upset' = upset \union {what}
    /\ UNCHANGED table

Return(c) ==
    /\ state[c] = "writing" /\ todo[c] = << >>
    /\ state' = [state EXCEPT ![c] = "idle"]
    /\ asked' = [asked EXCEPT ![c] = 0] /\ answer' = [answer EXCEPT ![c] = 0]
    /\ UNCHANGED <<kind, log, table, todo, upset, faults>>

\* Some call has done a transaction and has one to do.
Halfway == \E c \in Callers : todo[c] \notin {<< >>, Plan}

\* The process ends and starts again.
Crash ==
    /\ faults < MaxFaults /\ faults' = faults + 1
    /\ todo' = [c \in Callers |-> << >>]
    /\ state' = [c \in Callers |-> "idle"]
    /\ asked' = [c \in Callers |-> 0] /\ answer' = [c \in Callers |-> 0]
    /\ upset' = upset \union (IF Halfway THEN {"torn"} ELSE {})
    /\ UNCHANGED <<kind, log, table>>

Call(c) ==
    \/ Ask(c) \/ Answer(c) \/ Refused(c) \/ Return(c)
    \/ Put(c) \/ Delete(c) \/ SetMark(c) \/ All(c)
    \/ Fail(c, "put", "unput") \/ Fail(c, "delete", "undeleted") \/ Fail(c, "mark", "unmarked")

Next ==
    \/ \E k \in Keys, here \in BOOLEAN : Change(k, here)
    \/ \E c \in Callers : Call(c)
    \/ Crash

Spec == Init /\ [][Next]_vars

----------------------------------------------------------------------------
(* Properties.                                                             *)

\* The row of k is what the first n changes make it; a group's row only says
\* that it is there.
Right(k, n) ==
    IF kind = "groups" THEN rows[k] # 0 <=> There(k, n)
                       ELSE rows[k] = IF There(k, n) THEN Latest(k, n) ELSE 0

\* What makes a table wrong for good: for none is it a failed insertion of
\* rows that carry the version, or a failed mark.  Only the staff's order makes
\* a crash one.
Spoils ==
    CASE kind = "groups"   -> {"crossed", "undeleted"}
      [] kind = "staff"    -> {"crossed", "undeleted", "torn"}
      [] kind = "settings" -> {"crossed", "undeleted", "merged"}
      [] kind = "medals"   -> {"crossed", "unput"}
      [] kind = "replies"  -> {"crossed"}

\* The sorts of all variables; no row has a version and no content.
TypeOK ==
    /\ kind \in Kinds
    /\ log \in Seq([key : Keys, here : BOOLEAN]) /\ Len(log) <= MaxLog
    /\ rows \in [Keys -> 0..Len(log)] /\ vers \in [Keys -> 0..Len(log)]
    /\ \A k \in Keys : rows[k] = 0 <=> vers[k] = 0
    /\ mark \in 0..Len(log)
    /\ todo \in [Callers -> Seq({"put", "delete", "mark", "all"})]
    /\ asked \in [Callers -> 0..Len(log)] /\ answer \in [Callers -> 0..Len(log)]
    /\ state \in [Callers -> {"idle", "asked", "writing"}]
    /\ \A c \in Callers : todo[c] # << >> => state[c] = "writing"
    /\ upset \subseteq Upsets /\ faults \in 0..MaxFaults

\* The staff's table is behind its version while a call writes it.
Between == kind = "staff" /\ Halfway

\* The table can be caught up, now and after a crash: whatever changed last
\* before the version held is in it, so that the changes after that version
\* are all it lacks.
Catchable ==
    upset \intersect Spoils = {} /\ ~Between =>
        \A k \in Keys : Latest(k, Len(log)) <= Version => Right(k, Len(log))

\* A call that is through has done all it was told, but for what changed
\* since, whatever a crash or a failed mark had left of the calls before it.
ThroughMeansDone ==
    LET harmless == IF kind = "staff" THEN {"unmarked"} ELSE {"unmarked", "torn"}
        now == Len(log) IN
    upset \subseteq harmless /\ ~Between =>
        \A c \in Callers : state[c] = "writing" /\ todo[c] = << >> =>
            \A k \in Keys : Latest(k, now) <= answer[c] => Right(k, now)
=============================================================================
