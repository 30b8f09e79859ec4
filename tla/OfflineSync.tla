---------------------------- MODULE OfflineSync ----------------------------
(***************************************************************************)
(* What the desktop client does between a successful XMPP bind and "login  *)
(* success": checkpoint, pull what was missed over HTTP, page by page and  *)
(* kind by kind, and only then forget the checkpoint.  The same database   *)
(* is fed by the live stream meanwhile, and the program may be killed at   *)
(* any step.                                                               *)
(*                                                                         *)
(*   Communication::dealBindMsg, updateTimeStamp, synSeverData             *)
(*   OfflineMessageManager::update{Chat,Group,Notice}OfflineMessage,       *)
(*       updateChatMasks, updateGroupMasks, getTimeStamp                   *)
(*                                                                         *)
(* The server's history is one log; an entry's index is its time stamp.    *)
(* The client asks "everything newer than t" and keeps, per kind of        *)
(* message, a number in the config table that is 0 when the newest stored  *)
(* message itself is the watermark, and otherwise the watermark saved at   *)
(* the last bind whose synchronisation has not yet succeeded.              *)
(***************************************************************************)
EXTENDS Integers, Sequences, FiniteSets

CONSTANTS
    History,      \* what the server logged, and the client stored, before the start
    Traffic,      \* the kinds of entries the server may still log
    MaxLog,       \* bound on the server's log
    PageSize,     \* pageCount, 500 in the code
    Window,       \* the 48 hours a client without any message looks back
    SignalLimit,  \* bound on the call-signalling entries in the log
    PullFaults,   \* how a history request may fail: subset of {"refused", "garbled"}
    FlagFaults,   \* how the read-flag request may fail: {"refused", "denied"}
    MarkFaults,   \* how the group read-mark update may fail: {"request", "database"}
    StoreFails,   \* whether the transaction that stores a page may roll back
    Removable,    \* stamps of the messages whose sessions the user may remove
    StampInLogin, \* whether LogicBase may raise S_UpdateTimeStamp while synchronising
    MaxFaults     \* bound on failures, disconnections and crashes together

Kinds   == {"chat", "group", "notice"}      \* DEM_TWOPERSONCHAT, DEM_GROUPCHAT, DEM_SYSTEM
Streams == Kinds \union {"flag", "mark"}    \* what the database is to hold
Entries == Streams \union {"signal"}        \* and call signalling, which it is not

ASSUME LogAssumption ==
    /\ History \in Seq(Streams)
    /\ Traffic \subseteq Entries
    /\ MaxLog \in Nat
ASSUME SizeAssumption ==
    /\ PageSize \in Nat \ {0}
    /\ Window \in Nat
    /\ SignalLimit \in Nat
    /\ MaxFaults \in Nat
ASSUME FaultAssumption ==
    /\ PullFaults \subseteq {"refused", "garbled"}
    /\ FlagFaults \subseteq {"refused", "denied"}
    /\ MarkFaults \subseteq {"request", "database"}
    /\ StoreFails \in BOOLEAN
    /\ Removable \subseteq Nat
    /\ StampInLogin \in BOOLEAN

RetryCount == 3                             \* int retryCount = 3

VARIABLES
    log,        \* the server's history (external)
    held,       \* stamps of the entries the local database holds
    config,     \* MESSAGE_MAXTIMESTAMP per kind, 0 = "the newest row decides"
    markTime,   \* GROUP_READMARK: the last group read mark received live
    markLogin,  \* GROUP_READMARK_LOGIN_BEFORE: the saved one, 0 = none
    app,        \* "up" or "down"
    link,       \* the XMPP connection: "down" or "bound"
    flight,     \* stamps on their way over the live stream
    pc,         \* where the synchronising thread is
    kind,       \* the kind being pulled
    cursor,     \* timeStamp of the pull loop
    retry,      \* retryCount of the pull loop
    complete,   \* complete of the pull loop
    page,       \* msgList of the pull loop
    synced,     \* SynOfflineSuccess was sent on this connection
    asked,      \* history: length of the log when a request for a stream was last answered
    floor,      \* history: stamps up to here are older than the look-back window
    gone,       \* history: stamps of messages the user removed
    faults      \* failures so far

durable == <<held, config, markTime, markLogin>>
loop    == <<kind, cursor, retry, complete, page>>
network == <<app, link, flight>>
vars    == <<log, gone, durable, network, pc, loop, synced, asked, floor, faults>>

----------------------------------------------------------------------------
(* Reading the database and the server.                                    *)

Stored(e) == {t \in held : log[t] = e}
Posted(e) == {t \in DOMAIN log : log[t] = e}
Missing   == {t \in DOMAIN log : log[t] # "signal" /\ t \notin held}

\* SELECT max(LastUpdateTime) ... WHERE ChatType = ? and State = 1, 0 on no row.
MaxTimeStamp(k) ==
    CHOOSE m \in {0} \union Stored(k) : \A t \in Stored(k) : t <= m

\* getTimeStamp: the saved watermark, or the look-back window.
LookBack == IF Len(log) > Window THEN Len(log) - Window ELSE 0
\* Faulty variant: a client without messages starts from now.
TimeStampNow(k) == IF config[k] > 0 THEN config[k] ELSE Len(log)
TimeStamp(k) == IF config[k] > 0 THEN config[k] ELSE LookBack

\* updateTimeStamp: a watermark that is still there is kept, because the
\* synchronisation it belongs to never succeeded.
\* Faulty variant: the newest row always decides.
StampNewest == config' = [k \in Kinds |-> MaxTimeStamp(k)]
\* Faulty variant: the oldest row instead of the newest.
StampOldest ==
    config' = [k \in Kinds |->
        IF config[k] > 0 \/ Stored(k) = {} THEN config[k]
        ELSE CHOOSE m \in Stored(k) : \A t \in Stored(k) : m <= t]
StampAll ==
    config' = [k \in Kinds |-> IF config[k] = 0 THEN MaxTimeStamp(k) ELSE config[k]]

\* What a request for kind k answers: entries of that kind, call signalling
\* counted among the two-person messages, oldest first and at most PageSize.
Newer(k, c) ==
    {t \in Posted(k) : t > c} \union
    (IF k = "chat" THEN {t \in Posted("signal") : t > c} ELSE {})
IsPage(p, k, c) ==
    /\ \A t \in p, u \in Newer(k, c) : u < t => u \in p
    /\ p = Newer(k, c) \/ Cardinality(p) = PageSize

Fault == faults < MaxFaults /\ faults' = faults + 1

Init ==
    /\ log = History
    /\ gone = {}
    /\ held = DOMAIN History
    /\ config = [k \in Kinds |-> 0]
    /\ markTime \in {0} \union Posted("mark")
    /\ \A t \in Posted("mark") : t <= markTime
    /\ markLogin = 0
    /\ app = "up" /\ link = "down" /\ flight = {}
    /\ pc = "idle" /\ kind = "chat" /\ cursor = 0
    /\ retry = RetryCount /\ complete = FALSE /\ page = {}
    /\ synced = FALSE
    /\ asked = [s \in Streams |-> 0]
    /\ floor = [k \in Kinds \union {"flag"} |-> 0]
    /\ faults = 0

----------------------------------------------------------------------------
(* The server and the network layer (the closed LogicBase library).  The   *)
(* live stream is ordered; what is on its way when the link drops is lost; *)
(* nothing is delivered before the bind has been dealt with.               *)

Post(e) ==
    /\ Len(log) < MaxLog
    /\ e = "signal" => Cardinality(Posted("signal")) < SignalLimit
    /\ log' = Append(log, e)
    /\ flight' = IF link = "bound" THEN flight \union {Len(log) + 1} ELSE flight
    /\ UNCHANGED <<gone, durable, app, link, pc, loop, synced, asked, floor, faults>>

\* LogicBase calls insertMessageInfo, updateReadMask and updateGroupReadMarkTime.
Deliver ==
    /\ link = "bound"
    /\ \E t \in flight :
          /\ \A u \in flight : t <= u
          /\ flight' = flight \ {t}
          /\ held' = IF log[t] = "signal" THEN held ELSE held \union {t}
          /\ markTime' = IF log[t] = "mark" THEN t ELSE markTime
    /\ UNCHANGED <<log, gone, config, markLogin, app, link, pc, loop, synced, asked, floor, faults>>

LoseLink ==
    /\ link = "bound"
    /\ Fault
    /\ link' = "down" /\ flight' = {}
    /\ UNCHANGED <<log, gone, durable, app, pc, loop, synced, asked, floor>>

\* The process ends: what it holds in memory is gone, the database is not.
Stop ==
    /\ app' = "down" /\ link' = "down" /\ flight' = {}
    /\ pc' = "idle" /\ kind' = "chat" /\ cursor' = 0
    /\ retry' = RetryCount /\ complete' = FALSE /\ page' = {}
    /\ synced' = FALSE
    /\ asked' = [s \in Streams |-> 0]
    /\ UNCHANGED <<log, gone, durable, floor>>

Crash == app = "up" /\ Fault /\ Stop

\* onGetHistoryError: the main window restarts the program at the login panel.
Restart == pc = "failed" /\ Stop /\ UNCHANGED faults

\* The user starts the program and logs in.
Start ==
    /\ app = "down"
    /\ app' = "up"
    /\ UNCHANGED <<log, gone, durable, link, flight, pc, loop, synced, asked, floor, faults>>

----------------------------------------------------------------------------
(* Login.                                                                  *)

\* The saved read-mark time is kept while it has not been used up.
\* Faulty variant: it is overwritten at each login.
SaveMarkTimeAlways == markLogin' = markTime
SaveMarkTime == markLogin' = IF markLogin = 0 THEN markTime ELSE markLogin

\* dealBindMsg.  LogicBase raises the login events one at a time, so the
\* previous synSeverData has returned.
DealBind ==
    /\ app = "up" /\ link = "down" /\ pc = "idle"
    /\ SaveMarkTime
    /\ StampAll
    /\ link' = "bound" /\ flight' = {}
    /\ pc' = "due" /\ kind' = "chat"
    /\ synced' = FALSE
    /\ asked' = [s \in Streams |-> 0]
    /\ UNCHANGED <<log, gone, held, markTime, app, cursor, retry, complete, page, floor, faults>>

\* S_UpdateTimeStamp, raised by LogicBase at a moment of its own choosing.
UpdateTimeStamp ==
    /\ app = "up" /\ (pc = "idle" \/ StampInLogin)
    /\ StampAll
    /\ UNCHANGED <<log, gone, held, markTime, markLogin, network, pc, loop, synced, asked, floor, faults>>

\* The user removes sessions, or leaves their groups: the messages go, the
\* watermarks stay.
Remove ==
    /\ app = "up"
    /\ \E out \in SUBSET {t \in held \intersect Removable : log[t] \in Kinds} :
          /\ out # {}
          /\ held' = held \ out
          /\ gone' = gone \union out
    /\ UNCHANGED <<log, config, markTime, markLogin, network, pc, loop, synced, asked, floor, faults>>

----------------------------------------------------------------------------
(* One pull loop: updateChatOfflineMessage, updateGroupOfflineMessage and  *)
(* updateNoticeOfflineMessage differ in the kind and in what follows.      *)

\* The stamps a client without a watermark gives up by looking back 48 hours.
GiveUpOlder(s, k) ==
    floor' = IF config[k] = 0 /\ LookBack > floor[s]
             THEN [floor EXCEPT ![s] = LookBack] ELSE floor

StartPull ==
    /\ pc = "due"
    /\ cursor' = TimeStamp(kind)
    /\ retry' = RetryCount /\ complete' = FALSE /\ page' = {}
    /\ GiveUpOlder(kind, kind)
    /\ pc' = "ask"
    /\ UNCHANGED <<log, gone, durable, network, kind, synced, asked, faults>>

\* HTTP 200, "ret" true, an array: complete = true, and the entries that are
\* not call signalling go to msgList.
PageArrives ==
    /\ pc = "ask"
    /\ \E p \in SUBSET Newer(kind, cursor) :
          /\ IsPage(p, kind, cursor)
          /\ page' = {t \in p : log[t] = kind}
    /\ complete' = TRUE
    /\ asked' = [asked EXCEPT ![kind] = Len(log)]
    /\ pc' = "got"
    /\ UNCHANGED <<log, gone, durable, network, kind, cursor, retry, synced, floor, faults>>

\* Another status, "ret" false or no array: complete = false.
PullRefused ==
    /\ pc = "ask" /\ "refused" \in PullFaults
    /\ Fault
    /\ complete' = FALSE /\ page' = {}
    /\ pc' = "got"
    /\ UNCHANGED <<log, gone, durable, network, kind, cursor, retry, synced, asked, floor>>

\* HTTP 200 with a body that does not parse, or a request that throws before
\* its callback ran: nothing assigns complete, which outlives the iteration.
PullGarbled ==
    /\ pc = "ask" /\ "garbled" \in PullFaults
    /\ Fault
    /\ page' = {}
    /\ pc' = "got"
    /\ UNCHANGED <<log, gone, durable, network, kind, cursor, retry, complete, synced, asked, floor>>

\* timeStamp = lastMsgInfo.LastUpdateTime
\* Faulty variant: off by one.
AdvanceBeyond(last) == cursor' = last + 1
\* Faulty variant: the cursor stays.
AdvanceNowhere(last) == cursor' = cursor
AdvanceTo(last) == cursor' = last

\* bulkInsertMessageInfo, whose result nobody reads, then the new cursor.
StorePage ==
    /\ pc = "got" /\ complete /\ page # {}
    /\ \/ held' = held \union page /\ UNCHANGED faults
       \/ StoreFails /\ Fault /\ UNCHANGED held
    /\ \E last \in page :
          /\ \A t \in page : t <= last
          /\ AdvanceTo(last)
    /\ retry' = RetryCount
    /\ page' = {}
    /\ pc' = "ask"
    /\ UNCHANGED <<log, gone, config, markTime, markLogin, network, kind, complete, synced, asked, floor>>

\* An empty page: everything was fetched.
Drained ==
    /\ pc = "got" /\ complete /\ page = {}
    /\ pc' = "end"
    /\ UNCHANGED <<log, gone, durable, network, loop, synced, asked, floor, faults>>

\* Faulty variant: one retry too many.
MayRetryAgain == retry >= -1
MayRetry == retry >= 0

Retry ==
    /\ pc = "got" /\ ~complete /\ MayRetry
    /\ retry' = retry - 1
    /\ pc' = "ask"
    /\ UNCHANGED <<log, gone, durable, network, kind, cursor, complete, page, synced, asked, floor, faults>>

GiveUp ==
    /\ pc = "got" /\ ~complete /\ ~MayRetry
    /\ pc' = "end"
    /\ UNCHANGED <<log, gone, durable, network, loop, synced, asked, floor, faults>>

\* return retryCount >= 0
\* Faulty variant: a loop that ends has succeeded.
SucceededAlways == TRUE
Succeeded == retry >= 0

\* The loop's locals go out of scope.
Return ==
    cursor' = 0 /\ retry' = RetryCount /\ complete' = FALSE /\ page' = {}

\* sendGetHistoryError; nothing further is synchronised.
HistoryError ==
    /\ pc = "end" /\ ~Succeeded
    /\ Return /\ pc' = "failed"
    /\ UNCHANGED <<log, gone, durable, network, kind, synced, asked, floor, faults>>

\* The two-person pull leaves its watermark to updateChatMasks.
EndChat ==
    /\ pc = "end" /\ kind = "chat" /\ Succeeded
    /\ Return /\ pc' = "flags"
    /\ UNCHANGED <<log, gone, durable, network, kind, synced, asked, floor, faults>>

EndGroup ==
    /\ pc = "end" /\ kind = "group" /\ Succeeded
    /\ config' = [config EXCEPT !["group"] = 0]
    /\ Return /\ pc' = "marks"
    /\ UNCHANGED <<log, gone, held, markTime, markLogin, network, kind, synced, asked, floor, faults>>

\* The last pull; sendSynOfflineSuccess follows.
EndNotice ==
    /\ pc = "end" /\ kind = "notice" /\ Succeeded
    /\ config' = [config EXCEPT !["notice"] = 0]
    /\ synced' = TRUE
    /\ Return /\ pc' = "idle" /\ kind' = "chat"
    /\ UNCHANGED <<log, gone, held, markTime, markLogin, network, asked, floor, faults>>

----------------------------------------------------------------------------
(* updateChatMasks: the read flags of two-person messages, asked for from  *)
(* the same watermark, and the reset of that watermark.                    *)

\* Faulty variant: flags newer than the newest row.
FlagsSinceNewest == MaxTimeStamp("chat")
FlagsSince == TimeStamp("chat")

FlagsArrive ==
    /\ pc = "flags"
    /\ held' = held \union {t \in Posted("flag") : t > FlagsSince}
    /\ GiveUpOlder("flag", "chat")
    /\ asked' = [asked EXCEPT !["flag"] = Len(log)]
    /\ pc' = "flagged"
    /\ UNCHANGED <<log, gone, config, markTime, markLogin, network, loop, synced, faults>>

\* HTTP 200 with "ret" false: no flag is read, and _ret becomes true all the same.
FlagsDenied ==
    /\ pc = "flags" /\ "denied" \in FlagFaults
    /\ Fault
    /\ asked' = [asked EXCEPT !["flag"] = Len(log)]
    /\ pc' = "flagged"
    /\ UNCHANGED <<log, gone, durable, network, loop, synced, floor>>

\* Any other failure: the watermark stays, and the synchronisation goes on.
FlagsRefused ==
    /\ pc = "flags" /\ "refused" \in FlagFaults
    /\ Fault
    /\ pc' = "due" /\ kind' = "group"
    /\ UNCHANGED <<log, gone, durable, network, cursor, retry, complete, page, synced, asked, floor>>

ResetChat ==
    /\ pc = "flagged"
    /\ config' = [config EXCEPT !["chat"] = 0]
    /\ pc' = "due" /\ kind' = "group"
    /\ UNCHANGED <<log, gone, held, markTime, markLogin, network, cursor, retry, complete, page,
                   synced, asked, floor, faults>>

----------------------------------------------------------------------------
(* updateGroupMasks: the group read marks newer than the saved one.        *)

\* Faulty variant: marks newer than the last live one.
MarksSinceLive == markTime
MarksSince == markLogin

MarksArrive ==
    /\ pc = "marks"
    /\ held' = held \union {t \in Posted("mark") : t > MarksSince}
    /\ asked' = [asked EXCEPT !["mark"] = Len(log)]
    /\ pc' = "marked"
    /\ UNCHANGED <<log, gone, config, markTime, markLogin, network, loop, synced, floor, faults>>

\* The request fails: the list stays empty, and updateReadMask answers true
\* for an empty list.
MarksRefused ==
    /\ pc = "marks" /\ "request" \in MarkFaults
    /\ Fault
    /\ asked' = [asked EXCEPT !["mark"] = Len(log)]
    /\ pc' = "marked"
    /\ UNCHANGED <<log, gone, durable, network, loop, synced, floor>>

\* The transaction rolls back and updateReadMask answers false.
MarksRolledBack ==
    /\ pc = "marks" /\ "database" \in MarkFaults
    /\ Fault
    /\ pc' = "due" /\ kind' = "notice"
    /\ UNCHANGED <<log, gone, durable, network, cursor, retry, complete, page, synced, asked, floor>>

\* saveLoginBeforeGroupReadMarkTime("0")
ResetMarks ==
    /\ pc = "marked"
    /\ markLogin' = 0
    /\ pc' = "due" /\ kind' = "notice"
    /\ UNCHANGED <<log, gone, held, config, markTime, network, cursor, retry, complete, page,
                   synced, asked, floor, faults>>

----------------------------------------------------------------------------
Pull  == \/ StartPull \/ PageArrives \/ PullRefused \/ PullGarbled
         \/ StorePage \/ Drained \/ Retry \/ GiveUp
         \/ HistoryError \/ EndChat \/ EndGroup \/ EndNotice
Masks == \/ FlagsArrive \/ FlagsDenied \/ FlagsRefused \/ ResetChat
         \/ MarksArrive \/ MarksRefused \/ MarksRolledBack \/ ResetMarks
Next ==
    \/ \E e \in Traffic : Post(e)
    \/ Deliver \/ LoseLink \/ Crash \/ Restart \/ Start
    \/ DealBind \/ UpdateTimeStamp \/ Remove
    \/ Pull \/ Masks

Spec == Init /\ [][Next]_vars

\* The synchronising thread runs on, LogicBase delivers and reconnects
\* (startAutoReconnectToServer), the user logs in again.  The server owes
\* nothing, and failures are bounded by MaxFaults.
Fairness ==
    /\ WF_vars(Pull) /\ WF_vars(Masks)
    /\ WF_vars(Deliver) /\ WF_vars(DealBind)
    /\ WF_vars(Restart) /\ WF_vars(Start)
FairSpec == Spec /\ Fairness

----------------------------------------------------------------------------
(* Properties.                                                             *)

Stream(e) == IF e = "flag" THEN "chat" ELSE e

\* The watermark saved for entries e, 0 = none, and what stands in for none.
Saved(e)  == IF e = "mark" THEN markLogin ELSE config[Stream(e)]
Newest(e) == IF e = "mark" THEN markTime ELSE MaxTimeStamp(Stream(e))

\* Where the synchronisation after the next bind starts to ask for entries e.
Resume(e) == IF Saved(e) > 0 THEN Saved(e) ELSE Newest(e)

\* The look-back window gave the entry up.
Expired(t) == t \in DOMAIN log /\ log[t] # "mark" /\ t <= floor[log[t]]

\* The sorts of all variables.
TypeOK ==
    /\ log \in Seq(Entries)
    /\ held \subseteq DOMAIN log /\ gone \subseteq DOMAIN log /\ flight \subseteq DOMAIN log
    /\ asked \in [Streams -> Nat]
    /\ config \in [Kinds -> Nat] /\ floor \in [Kinds \union {"flag"} -> Nat]
    /\ markTime \in Nat /\ markLogin \in Nat
    /\ cursor \in Nat /\ faults \in Nat
    /\ app \in {"up", "down"} /\ link \in {"down", "bound"}
    /\ pc \in {"idle", "due", "ask", "got", "end", "flags", "flagged",
               "marks", "marked", "failed"}
    /\ kind \in Kinds
    /\ retry \in -1 .. RetryCount
    /\ complete \in BOOLEAN /\ synced \in BOOLEAN
    /\ page \subseteq DOMAIN log

\* Whatever the moment the program dies at, the next login asks for every
\* entry the database lacks: nothing missing lies at or below the watermark
\* (updateTimeStamp's choice between the saved stamp and the newest row).
NoGap == \A t \in Missing : t > Resume(log[t]) \/ Expired(t)

\* A read mark only touches rows that are already stored, so a mark that will
\* not be fetched again must not precede a group message that still will be
\* (synSeverData pulls the messages first and the marks second).
MarksFollowMessages ==
    \A g \in Missing, q \in Posted("mark") :
        log[g] = "group" /\ g < q => q > Resume("mark") \/ Expired(g)

\* SynOfflineSuccess tells the truth: on that connection, everything the
\* server has is in the database or on its way.  Flags and marks are excepted
\* while the watermark that fetches them again at the next login is kept: their
\* failure does not stop the synchronisation.
SyncedMeansComplete ==
    synced /\ link = "bound" =>
        \A t \in Missing : \/ t \in flight \/ Expired(t)
                           \/ log[t] = "flag" /\ config["chat"] > 0
                           \/ log[t] = "mark" /\ markLogin > 0

\* "Everything was fetched" (an empty page) is only concluded when every
\* message the server had at the last answered request is stored.
DrainedMeansFetched ==
    [][pc = "got" /\ pc' = "end" /\ complete =>
        \A t \in Posted(kind) : t <= asked[kind] => t \in held \/ Expired(t)]_vars

\* "The time stamp is only updated on success": a saved watermark is dropped
\* only when what it guards was fetched.
ResetMeansFetched ==
    [][\A e \in Streams \ {"mark"} :
        config[Stream(e)] > 0 /\ config'[Stream(e)] = 0 =>
            \A t \in Posted(e) : t <= asked[e] => t \in held]_vars

\* "After login, once the read pointers are updated, the time is set to 0".
MarksResetMeansFetched ==
    [][markLogin > 0 /\ markLogin' = 0 =>
        \A t \in Posted("mark") : t <= asked["mark"] => t \in held]_vars

\* The user removed an entry newer than c of the kind that entries e ask for.
Removed(e, c) == \E t \in gone : log[t] = Stream(e) /\ c < t

\* Whatever fails: the point the next login resumes from never moves back,
\* unless to below a message that the user removed, which is then asked for
\* again.  Pages above the point may be stored already: a login that was cut
\* short keeps the point it started from.
NeverBackwards ==
    [][\A e \in Streams : Resume(e) <= Resume(e)' \/ Removed(e, Resume(e))']_vars

\* Whatever fails: a synchronisation comes to an end, in success, in the
\* history error or with the process.
SyncEnds == pc # "idle" ~> pc = "idle"

\* Every message the server logs is eventually stored, across lost links,
\* refused requests, crashes and new logins.
EventuallyHeld ==
    \A t \in 1 .. MaxLog :
        (t \in DOMAIN log /\ log[t] \in Kinds) ~> (t \in held \/ Expired(t))

\* The synchronisation, crashes and all, implements the cursor of Mirror.
Cursors == [s \in Streams |-> Resume(s)]
M == INSTANCE Mirror WITH resume <- Cursors
Mirrors == M!Spec
=============================================================================
