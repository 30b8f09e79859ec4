---------------------- MODULE OfflineSyncOrder_proofs ----------------------
(***************************************************************************)
(* Theorems about the order in which OfflineSync fetches: messages before  *)
(* the marks on them, everything before "success", and every watermark     *)
(* dropped after what it guards.  They rest on the invariant, and on the   *)
(* hypothesis, of OfflineSync_proofs.                                      *)
(***************************************************************************)
EXTENDS OfflineSync_proofs

\* What synSeverData is through with stays fetched to the end, and beyond; the
\* saved read-mark time is there until the marks were asked for.
Finished ==
    /\ kind # "chat" \/ pc \in {"flags", "flagged"} \/ synced => Covered("chat")
    /\ kind = "notice" \/ pc \in {"marks", "marked"} \/ synced => Covered("group")
    /\ synced => Covered("notice") /\ pc = "idle"
    /\ link = "bound" /\ pc = "idle" => synced
    /\ pc # "idle" /\ kind # "notice" => markLogin > 0

\* What is newer than an answer is newer than every mark received live.
MarkOrder ==
    \A e \in Streams, u \in Missing : asked[e] > 0 /\ u > asked[e] => u > markTime

\* The marks are never asked for from beyond a missing group message.
MarksBehind == \A g \in Missing : log[g] = "group" => g > Resume("mark")

Later == Finished /\ MarkOrder /\ MarksBehind

LEMMA InitLater == Init => Later
<1> SUFFICES ASSUME Init PROVE Later
  OBVIOUS
<1>1. Missing = {}
  BY LogAssumption DEF Init, Missing
<1>2. Finished
  BY DEF Init, Finished
<1> QED BY <1>1, <1>2 DEF Later, MarkOrder, MarksBehind

\* Steps other than the server's and the live stream's keep the order: an answer
\* leaves nothing that is newer than it.
LEMMA OrderKept ==
    ASSUME IInv, TypeOK', MarkOrder, held \subseteq held', UNCHANGED <<log, markTime>>,
           \A s \in Streams : asked'[s] \in {0, asked[s], Len(log)}
    PROVE  MarkOrder'
<1> SUFFICES ASSUME NEW e \in Streams, NEW u \in Missing', asked'[e] > 0, u > asked'[e]
             PROVE  u > markTime
  BY DEF MarkOrder
<1>1. u \in Missing /\ u \in Nat /\ u <= Len(log)
  BY DEF Missing, IInv, TypeOK
<1>2. asked[e] \in Nat /\ Len(log) \in Nat
  BY DEF IInv, TypeOK
<1>3. asked'[e] = asked[e]
  BY <1>1, <1>2
<1> QED BY <1>1, <1>3 DEF MarkOrder

\* So do steps that do not move the point from which marks will be asked for.
LEMMA BehindKept ==
    ASSUME MarksBehind, held \subseteq held', log' = log, Resume("mark")' = Resume("mark")
    PROVE  MarksBehind'
BY DEF MarksBehind, Missing

\* The thread stands where it stood.
LEMMA FinishedFrame ==
    ASSUME IInv, TypeOK', Finished, UNCHANGED <<pc, kind, synced, asked>>,
           link' = link \/ link' = "down", markLogin > 0 => markLogin' > 0,
           held \subseteq held', \A t \in DOMAIN log : log'[t] = log[t]
    PROVE  Finished'
<1>1. \A e \in Streams : Covered(e) => Covered(e)'
  BY CoveredKept DEF IInv
<1>2. "chat" \in Streams /\ "group" \in Streams /\ "notice" \in Streams
  BY DEF Streams, Kinds
<1> QED BY <1>1, <1>2 DEF Finished

\* The server logs an entry: it is newer than everything.
LEMMA PostLater ==
    ASSUME IInv, TypeOK', Later, NEW e \in Traffic, Post(e)
    PROVE  Later'
<1>1. /\ e \in Entries /\ log \in Seq(Entries) /\ log' = Append(log, e)
      /\ UNCHANGED <<held, config, markTime, markLogin, link, asked, pc, kind, synced>>
  BY LogAssumption DEF Post, durable, loop, IInv, TypeOK
<1>2. /\ DOMAIN log = 1 .. Len(log) /\ DOMAIN log' = 1 .. (Len(log) + 1) /\ Len(log) \in Nat
      /\ \A t \in DOMAIN log : log'[t] = log[t]
  BY <1>1
<1>3. Resume("mark")' = Resume("mark") /\ Resume("mark") <= Len(log) /\ markTime <= Len(log)
      /\ Resume("mark") \in Nat /\ markTime \in Nat
  BY <1>1, PostCursors, ResumeBounds DEF IInv, Streams, Newest
<1>4. \A u \in Missing' : (u \in Missing /\ log'[u] = log[u]) \/ u = Len(log) + 1
  BY <1>1, <1>2 DEF Missing
<1>5. MarkOrder'
  BY <1>1, <1>2, <1>3, <1>4 DEF Later, MarkOrder
<1>6. MarksBehind'
  BY <1>2, <1>3, <1>4 DEF Later, MarksBehind
<1>7. Finished'
  BY <1>1, <1>2, FinishedFrame DEF Later
<1> QED BY <1>5, <1>6, <1>7 DEF Later

\* The live stream delivers the oldest entry on its way.  Where a live mark
\* decides, the group messages were fetched, and what is missing comes later.
LEMMA DeliverLater ==
    ASSUME IInv, TypeOK', Later, Deliver
    PROVE  Later'
<1>1. PICK t \in flight :
         /\ \A u \in flight : t <= u
         /\ held' = IF log[t] = "signal" THEN held ELSE held \union {t}
         /\ markTime' = IF log[t] = "mark" THEN t ELSE markTime
  BY DEF Deliver
<1>2. /\ UNCHANGED <<log, config, markLogin, asked, link, pc, kind, synced>> /\ link = "bound"
      /\ held \subseteq held'
  BY <1>1 DEF Deliver, loop
<1>3. ASSUME NEW u \in Missing' PROVE u \in Missing /\ u # t /\ log'[u] = log[u]
  BY <1>1, <1>2 DEF Missing
<1>4. flight \subseteq Nat /\ markTime \in Nat /\ markLogin \in Nat
  BY DEF IInv, TypeOK
<1>5. ASSUME NEW s \in Streams, NEW u \in Missing', asked[s] > 0, u > asked[s]
      PROVE  u > markTime'
  <2>1. u \in flight /\ u > markTime
    BY <1>2, <1>3, <1>5 DEF IInv, Coming, Later, MarkOrder
  <2> QED BY <1>1, <1>3, <1>4, <2>1
<1>6. MarkOrder'
  BY <1>2, <1>5 DEF MarkOrder
<1>7. ASSUME NEW g \in Missing', log'[g] = "group" PROVE g > Resume("mark")'
  <2>1. CASE markLogin > 0
    <3>1. Resume("mark")' = Resume("mark")
      BY <1>2, <2>1 DEF Resume, Saved
    <3> QED BY <1>3, <1>7, <3>1 DEF Later, MarksBehind
  <2>2. CASE markLogin = 0
    <3>1. Covered("group")
      BY <1>2, <2>2 DEF Later, Finished
    <3>2. g > asked["group"] /\ asked["group"] > 0 /\ "group" \in Streams
      BY <1>3, <1>7, <3>1 DEF Covered, Streams, Kinds
    <3>3. Resume("mark")' = markTime'
      BY <1>2, <2>2 DEF Resume, Saved, Newest
    <3> QED BY <1>5, <3>2, <3>3
  <2> QED BY <1>4, <2>1, <2>2
<1>8. Finished'
  BY <1>2, FinishedFrame DEF Later
<1> QED BY <1>6, <1>7, <1>8 DEF Later, MarksBehind

\* The login sequence outside the loops, and the end of the process.
LEMMA LoginLater ==
    ASSUME IInv, TypeOK', Later,
           LoseLink \/ Crash \/ Restart \/ Start \/ DealBind \/ UpdateTimeStamp \/ UNCHANGED vars
    PROVE  Later'
<1>1. UNCHANGED <<log, held, markTime>> /\ \A s \in Streams : asked'[s] \in {0, asked[s]}
  BY DEF LoseLink, Crash, Restart, Stop, Start, DealBind, UpdateTimeStamp, vars, durable
<1>2. MarkOrder'
  BY <1>1, OrderKept DEF Later
<1>3. "mark" \in Streams /\ TypeOK /\ Stable
  BY DEF Streams, IInv, Stable
<1>4. CASE DealBind
  <2>1. Resume("mark")' = Resume("mark")
    BY <1>3, <1>4, StampAllSaved DEF DealBind, Stable
  <2>2. Saved("mark")' > 0
    BY <1>3, <1>4, DealBindStable
  <2>3. Finished'
    BY <1>4, <2>2 DEF DealBind, Finished, Saved
  <2> QED BY <1>1, <1>2, <2>1, <2>3, BehindKept DEF Later
<1>5. CASE LoseLink \/ Start \/ UpdateTimeStamp \/ UNCHANGED vars
  <2>1. /\ UNCHANGED <<log, held, markTime, markLogin, pc, kind, synced, asked>>
        /\ link' = link \/ link' = "down"
    BY <1>5 DEF LoseLink, Start, UpdateTimeStamp, vars, durable, loop, network
  <2>2. Resume("mark")' = Resume("mark")
    BY <2>1 DEF Resume, Saved, Newest
  <2>3. Finished'
    BY <2>1, FinishedFrame DEF Later
  <2> QED BY <1>1, <1>2, <2>2, <2>3, BehindKept DEF Later
<1>6. CASE Crash \/ Restart
  <2>1. /\ UNCHANGED <<markTime, markLogin>>
        /\ link' = "down" /\ pc' = "idle" /\ kind' = "chat" /\ synced' = FALSE
    BY <1>6 DEF Crash, Restart, Stop, durable
  <2>2. Resume("mark")' = Resume("mark")
    BY <2>1 DEF Resume, Saved, Newest
  <2>3. Finished'
    BY <2>1 DEF Finished
  <2> QED BY <1>1, <1>2, <2>2, <2>3, BehindKept DEF Later
<1> QED BY <1>4, <1>5, <1>6

\* The steps of the pull loops: the order of the kinds is that of synSeverData.
LEMMA PullLater ==
    ASSUME Benign, IInv, TypeOK', Later, Pull
    PROVE  Later'
<1>1. /\ UNCHANGED <<log, markTime, markLogin, link>> /\ held \subseteq held'
      /\ pc \notin {"idle", "flags", "flagged", "marks", "marked"}
  BY DEF Pull, StartPull, PageArrives, PullRefused, PullGarbled, StorePage, Drained, Retry,
     GiveUp, HistoryError, EndChat, EndGroup, EndNotice, durable, network
<1>2. /\ kind \in Kinds /\ ~ synced /\ "chat" \in Streams /\ "group" \in Streams
      /\ "notice" \in Streams /\ TypeOK /\ Bounds /\ Progress
  BY <1>1 DEF Later, Finished, IInv, TypeOK, Streams, Kinds
<1>3. \A s \in Streams : asked'[s] = asked[s] \/ (s = kind /\ PageArrives /\ asked'[s] = Len(log))
  BY DEF Pull, StartPull, PageArrives, PullRefused, PullGarbled, StorePage, Drained, Retry,
     GiveUp, HistoryError, EndChat, EndGroup, EndNotice, IInv, TypeOK
<1>4. MarkOrder'
  BY <1>1, <1>3, OrderKept DEF Later
<1>5. Resume("mark")' = Resume("mark")
  BY <1>1 DEF Resume, Saved, Newest
<1>6. \A s \in Streams : Covered(s) /\ (s # kind \/ ~ PageArrives) => Covered(s)'
  BY <1>1, <1>2, <1>3, CoveredKept
<1>7. Finished'
  <2>1. CASE EndNotice
    <3>1. Covered("notice") /\ Covered("group") /\ Covered("chat") /\ ~ PageArrives
      BY <1>2, <2>1 DEF EndNotice, PageArrives, Progress, Later, Finished
    <3>2. synced' = TRUE /\ pc' = "idle" /\ kind' = "chat"
      BY <2>1 DEF EndNotice
    <3> QED BY <1>2, <1>6, <3>1, <3>2 DEF Finished
  <2>2. CASE EndGroup
    <3>1. Covered("group") /\ Covered("chat") /\ ~ PageArrives
      BY <1>2, <2>2 DEF EndGroup, PageArrives, Progress, Later, Finished
    <3>2. kind = "group" /\ kind' = "group" /\ pc' = "marks" /\ synced' = synced
      BY <2>2 DEF EndGroup
    <3> QED BY <1>1, <1>2, <1>6, <3>1, <3>2 DEF Later, Finished
  <2>3. CASE EndChat
    <3>1. Covered("chat") /\ ~ PageArrives
      BY <1>2, <2>3 DEF EndChat, PageArrives, Progress, Later, Finished
    <3>2. kind = "chat" /\ kind' = "chat" /\ pc' = "flags" /\ synced' = synced
      BY <2>3 DEF EndChat
    <3> QED BY <1>1, <1>2, <1>6, <3>1, <3>2 DEF Later, Finished
  <2>4. CASE ~ (EndChat \/ EndGroup \/ EndNotice)
    <3>1. /\ kind' = kind /\ synced' = synced
          /\ pc' \notin {"idle", "flags", "flagged", "marks", "marked"}
      BY <2>4 DEF Pull, StartPull, PageArrives, PullRefused, PullGarbled, StorePage, Drained,
         Retry, GiveUp, HistoryError, loop
    <3>2. kind # "chat" => Covered("chat")'
      BY <1>2, <1>6 DEF Later, Finished
    <3>3. kind = "notice" => Covered("group")'
      BY <1>2, <1>6 DEF Later, Finished
    <3> QED BY <1>1, <1>2, <3>1, <3>2, <3>3 DEF Later, Finished
  <2> QED BY <2>1, <2>2, <2>3, <2>4
<1> QED BY <1>1, <1>4, <1>5, <1>7, BehindKept DEF Later

\* updateChatMasks and updateGroupMasks: the saved read-mark time is dropped
\* after the group messages were fetched.
LEMMA MasksLater ==
    ASSUME Benign, IInv, TypeOK', Later, Masks
    PROVE  Later'
<1>1. /\ UNCHANGED <<log, markTime, link, synced>> /\ held \subseteq held'
      /\ pc \in {"flags", "flagged", "marks", "marked"}
      /\ \A s \in Kinds : asked'[s] = asked[s]
      /\ \A s \in Streams : asked'[s] \in {asked[s], Len(log)}
  BY DEF Masks, FlagsArrive, FlagsDenied, FlagsRefused, ResetChat, MarksArrive, MarksRefused,
     MarksRolledBack, ResetMarks, durable, network, IInv, TypeOK, Kinds, Streams
<1>2. /\ ~ synced /\ TypeOK /\ Bounds /\ Guarded /\ Progress
      /\ \A k \in Kinds : k \in Streams
  BY <1>1 DEF Later, Finished, IInv, Streams
<1>3. \A s \in Kinds : Covered(s) => Covered(s)'
  BY <1>1, <1>2, CoveredKept
<1>4. MarkOrder'
  BY <1>1, OrderKept DEF Later
<1>5. /\ "chat" \in Kinds /\ "group" \in Kinds
      /\ pc \in {"flags", "flagged"} => Covered("chat") /\ kind = "chat"
      /\ pc \in {"marks", "marked"} => Covered("chat") /\ Covered("group") /\ kind = "group"
  BY <1>2 DEF Later, Finished, Guarded, Kinds
<1>6. CASE ResetMarks
  <2>1. pc = "marked" /\ markLogin' = 0 /\ pc' = "due" /\ kind' = "notice" /\ held' = held
    BY <1>6 DEF ResetMarks
  <2>2. Resume("mark")' = markTime
    BY <1>1, <2>1 DEF Resume, Saved, Newest
  <2>3. ASSUME NEW g \in Missing, log[g] = "group" PROVE g > markTime
    <3>1. g > asked["group"] /\ asked["group"] > 0
      BY <1>5, <2>1, <2>3 DEF Covered
    <3> QED BY <1>2, <1>5, <3>1 DEF Later, MarkOrder
  <2>4. MarksBehind'
    BY <1>1, <2>1, <2>2, <2>3 DEF MarksBehind, Missing
  <2>5. Finished'
    BY <1>1, <1>2, <1>3, <1>5, <2>1 DEF Finished
  <2> QED BY <1>4, <2>4, <2>5 DEF Later
<1>7. CASE ~ ResetMarks
  <2>1. markLogin' = markLogin
    BY <1>7 DEF Masks, FlagsArrive, FlagsDenied, FlagsRefused, ResetChat, MarksArrive,
       MarksRefused, MarksRolledBack, durable
  <2>2. Resume("mark")' = Resume("mark")
    BY <1>1, <2>1 DEF Resume, Saved, Newest
  <2>3. \/ pc \in {"flags", "flagged"} /\ ((pc' = "flagged" /\ kind' = kind) \/ (pc' = "due" /\ kind' = "group"))
        \/ pc \in {"marks", "marked"} /\ ((pc' = "marked" /\ kind' = kind) \/ (pc' = "due" /\ kind' = "notice"))
    BY <1>7 DEF Masks, FlagsArrive, FlagsDenied, FlagsRefused, ResetChat, MarksArrive,
       MarksRefused, MarksRolledBack, loop
  <2>4. markLogin > 0
    BY <1>1, <1>5 DEF Later, Finished
  <2>5. Finished'
    BY <1>1, <1>2, <1>3, <1>5, <2>1, <2>3, <2>4 DEF Finished
  <2> QED BY <1>1, <1>4, <2>2, <2>5, BehindKept DEF Later
<1> QED BY <1>6, <1>7

LEMMA NextLater == Benign /\ IInv /\ IInv' /\ Later /\ [Next]_vars => Later'
<1> SUFFICES ASSUME Benign, IInv, IInv', Later, [Next]_vars PROVE Later'
  OBVIOUS
<1>1. TypeOK'
  BY DEF IInv
<1> QED
  BY <1>1, PostLater, DeliverLater, LoginLater, PullLater, MasksLater, NoRemoval
     DEF Next

LEMMA AlwaysLater == ASSUME Benign PROVE Spec => [](IInv /\ Later)
<1>1. IInv /\ IInv' /\ Later /\ [Next]_vars => Later'
  BY NextLater
<1> QED BY <1>1, InitLater, Invariance, PTL DEF Spec

----------------------------------------------------------------------------
(* The theorems.                                                           *)

\* synSeverData: "login success" is only sent when all that the server had was
\* fetched, or will be asked for again, or is coming live.
THEOREM SuccessIsTrue == ASSUME Benign PROVE Spec => []SyncedMeansComplete
<1>1. IInv /\ Later => SyncedMeansComplete
  <2> SUFFICES ASSUME IInv, Later, synced, link = "bound", NEW t \in Missing
               PROVE  \/ t \in flight
                      \/ log[t] = "flag" /\ config["chat"] > 0
                      \/ log[t] = "mark" /\ markLogin > 0
    BY DEF SyncedMeansComplete
  <2>1. /\ log[t] \in Streams /\ markLogin \in Nat /\ config["chat"] \in Nat
    BY MissingStream DEF IInv, TypeOK, Kinds
  <2>2. CASE log[t] \in Kinds
    <3>1. Covered(log[t])
      BY <2>2 DEF Later, Finished, Kinds
    <3> QED BY <2>1, <3>1 DEF Covered, IInv, Coming
  <2>3. CASE log[t] = "flag"
    BY <2>1, <2>3 DEF IInv, Coming, Saved, Stream
  <2>4. CASE log[t] = "mark"
    BY <2>1, <2>4 DEF IInv, Coming, Saved
  <2> QED BY <2>1, <2>2, <2>3, <2>4 DEF Streams
<1> QED BY <1>1, AlwaysLater, PTL

\* updateGroupMasks: a read mark that will not be asked for again never precedes
\* a group message that will.
THEOREM MarksComeSecond == ASSUME Benign PROVE Spec => []MarksFollowMessages
<1>1. IInv /\ Later => MarksFollowMessages
  <2> SUFFICES ASSUME IInv, Later, NEW g \in Missing, NEW q \in Posted("mark"),
                      log[g] = "group", g < q
               PROVE  q > Resume("mark")
    BY DEF MarksFollowMessages
  <2>1. g > Resume("mark") /\ g \in Nat /\ q \in Nat /\ Resume("mark") \in Nat
    BY ResumeBounds DEF Later, MarksBehind, IInv, TypeOK, Missing, Posted, Streams
  <2> QED BY <2>1
<1> QED BY <1>1, AlwaysLater, PTL

\* The pull loops: an empty page is the end only when everything was fetched.
THEOREM EmptyPageIsTheEnd == ASSUME Benign PROVE Spec => DrainedMeansFetched
<1>1. IInv /\ [Next]_vars =>
        [pc = "got" /\ pc' = "end" /\ complete =>
            \A t \in Posted(kind) : t <= asked[kind] => t \in held \/ Expired(t)]_vars
  <2> SUFFICES ASSUME IInv, [Next]_vars, pc = "got", pc' = "end", complete,
                      NEW t \in Posted(kind), t <= asked[kind]
               PROVE  t \in held
    OBVIOUS
  <2>1. page = {}
    BY DEF Next, Post, Deliver, LoseLink, Crash, Restart, Stop, Start, DealBind,
       UpdateTimeStamp, Pull, StartPull, PageArrives, PullRefused, PullGarbled, StorePage,
       Drained, Retry, GiveUp, HistoryError, EndChat, EndGroup, EndNotice, Masks, FlagsArrive,
       FlagsDenied, FlagsRefused, ResetChat, MarksArrive, MarksRefused, MarksRolledBack,
       ResetMarks, Remove, vars
  <2>2. Covered(kind) /\ kind # "signal"
    BY <2>1 DEF IInv, Progress, TypeOK, Kinds
  <2>3. t \in Nat /\ asked[kind] \in Nat /\ t \in DOMAIN log /\ log[t] = kind
    BY DEF Posted, IInv, TypeOK, Streams
  <2> QED BY <2>2, <2>3 DEF Covered, Missing
<1> QED BY <1>1, Invariance, PTL DEF Spec, DrainedMeansFetched

\* "The time stamp is only updated on success", for the three config entries.
THEOREM ResetAfterFetch == ASSUME Benign PROVE Spec => ResetMeansFetched
<1> DEFINE Dropped(e) == config[Stream(e)] > 0 /\ config'[Stream(e)] = 0
           Fetched(e) == \A t \in Posted(e) : t <= asked[e] => t \in held
<1>1. IInv /\ [Next]_vars => [\A e \in Streams \ {"mark"} : Dropped(e) => Fetched(e)]_vars
  <2> SUFFICES ASSUME IInv, [Next]_vars, NEW e \in Streams \ {"mark"}, Dropped(e)
               PROVE  Fetched(e)
    OBVIOUS
  <2>1. Stream(e) \in Kinds /\ (e \in {"chat", "flag"} \/ e = Stream(e)) /\ e # "signal"
        /\ e # "mark" /\ (e \in {"chat", "flag"} <=> Stream(e) = "chat")
    BY DEF Streams, Kinds, Stream
  <2>2. CASE DealBind \/ UpdateTimeStamp
    <3>1. StampAll
      BY <2>2 DEF DealBind, UpdateTimeStamp
    <3>2. config'[Stream(e)] = config[Stream(e)]
      BY <2>1, <3>1 DEF StampAll
    <3> QED BY <3>2
  <2>3. CASE EndGroup \/ EndNotice \/ ResetChat
    <3>1. Covered(e)
      <4>1. CASE EndGroup
        BY <2>1, <4>1 DEF EndGroup, IInv, Progress, TypeOK, Kinds
      <4>2. CASE EndNotice
        BY <2>1, <4>2 DEF EndNotice, IInv, Progress, TypeOK, Kinds
      <4>3. CASE ResetChat
        BY <2>1, <4>3 DEF ResetChat, IInv, Progress, TypeOK, Kinds
      <4> QED BY <2>3, <4>1, <4>2, <4>3
    <3>2. \A t \in Posted(e) : t \in Nat /\ t \in DOMAIN log /\ log[t] = e
      BY DEF Posted, IInv, TypeOK
    <3>3. asked[e] \in Nat
      BY DEF IInv, TypeOK
    <3> QED BY <2>1, <3>1, <3>2, <3>3 DEF Covered, Missing
  <2>4. CASE ~ (DealBind \/ UpdateTimeStamp \/ EndGroup \/ EndNotice \/ ResetChat)
    <3>1. config' = config
      BY <2>4 DEF Next, Post, Deliver, LoseLink, Crash, Restart, Stop, Start, Pull, StartPull,
         PageArrives, PullRefused, PullGarbled, StorePage, Drained, Retry, GiveUp,
         HistoryError, EndChat, Masks, FlagsArrive, FlagsDenied, FlagsRefused, MarksArrive,
         MarksRefused, MarksRolledBack, ResetMarks, Remove, vars, durable
    <3> QED BY <3>1
  <2> QED BY <2>2, <2>3, <2>4
<1> QED BY <1>1, Invariance, PTL DEF Spec, ResetMeansFetched

\* The same for the read-mark time of the groups.
THEOREM MarkResetAfterFetch == ASSUME Benign PROVE Spec => MarksResetMeansFetched
<1>1. IInv /\ [Next]_vars =>
        [markLogin > 0 /\ markLogin' = 0 =>
            \A t \in Posted("mark") : t <= asked["mark"] => t \in held]_vars
  <2> SUFFICES ASSUME IInv, [Next]_vars, markLogin > 0, markLogin' = 0,
                      NEW t \in Posted("mark"), t <= asked["mark"]
               PROVE  t \in held
    OBVIOUS
  <2>1. pc = "marked"
    BY DEF Next, Post, Deliver, LoseLink, Crash, Restart, Stop, Start, DealBind, SaveMarkTime,
       UpdateTimeStamp, Pull, StartPull, PageArrives, PullRefused, PullGarbled, StorePage,
       Drained, Retry, GiveUp, HistoryError, EndChat, EndGroup, EndNotice, Masks, FlagsArrive,
       FlagsDenied, FlagsRefused, ResetChat, MarksArrive, MarksRefused, MarksRolledBack,
       ResetMarks, Remove, vars, durable
  <2>2. t \in Nat /\ asked["mark"] \in Nat /\ t \in DOMAIN log /\ log[t] = "mark"
    BY DEF Posted, IInv, TypeOK, Streams
  <2> QED BY <2>1, <2>2 DEF IInv, Progress, Covered, Missing
<1> QED BY <1>1, Invariance, PTL DEF Spec, MarksResetMeansFetched
=============================================================================
