------------------------ MODULE OfflineSync_proofs ------------------------
(***************************************************************************)
(* Theorems about OfflineSync for every history, traffic, page size and    *)
(* number of failures, and their proofs.                                   *)
(***************************************************************************)
EXTENDS OfflineSync, TLAPS, FiniteSetTheorems, WellFoundedInduction

----------------------------------------------------------------------------
(* The newest entry of a bounded set exists, so MaxTimeStamp finds it.     *)

\* Every non-empty set of naturals has a least element.
LEMMA LeastNatural ==
    ASSUME NEW T, T \subseteq Nat, T # {}
    PROVE  \E x \in T : \A y \in T : x <= y
<1> DEFINE R == OpToRel(<, Nat)
<1>1. IsWellFoundedOn(R, Nat)
  BY NatLessThanWellFounded
<1>2. \A x, y \in Nat : x < y => <<x, y>> \in R
  BY DEF OpToRel
<1> HIDE DEF R
<1>3. PICK x \in T : \A y \in T : ~ (<<y, x>> \in R)
  BY <1>1, WFMin
<1>4. \A y \in T : ~ (y < x)
  BY <1>2, <1>3
<1>5. \A y \in T : x <= y
  BY <1>4
<1> QED
  BY <1>5

\* Every non-empty set of log positions has a greatest element.
LEMMA GreatestStamp ==
    ASSUME NEW n \in Nat, NEW S, S \subseteq 1 .. n, S # {}
    PROVE  \E x \in S : \A y \in S : y <= x
<1> DEFINE T == {m \in Nat : \E s \in S : m = n - s}
<1>1. \A s \in S : s \in 1 .. n /\ n - s \in T
  OBVIOUS
<1>2. T \subseteq Nat /\ T # {}
  BY <1>1
<1>3. PICK x \in T : \A y \in T : x <= y
  <2> HIDE DEF T
  <2> QED BY <1>2, LeastNatural
<1>4. PICK s \in S : x = n - s
  OBVIOUS
<1>5. ASSUME NEW y \in S PROVE y <= s
  <2>1. n - s <= n - y
    BY <1>1, <1>3, <1>4
  <2> QED BY <2>1, <1>1
<1> QED BY <1>5

\* What the query for the newest stamp answers: 0 or a member of the set, and
\* no member is newer.
LEMMA ChooseNewest ==
    ASSUME NEW n \in Nat, NEW S, S \subseteq 1 .. n, NEW m,
           m = CHOOSE x \in {0} \union S : \A t \in S : t <= x
    PROVE  m \in {0} \union S /\ \A t \in S : t <= m
<1>1. \E x \in {0} \union S : \A t \in S : t <= x
  BY GreatestStamp
<1> QED BY <1>1

\* The same for the rows of one kind in the local database.
LEMMA NewestStored ==
    ASSUME log \in Seq(Entries), held \subseteq DOMAIN log, NEW k
    PROVE  /\ MaxTimeStamp(k) \in {0} \union Stored(k)
           /\ \A t \in Stored(k) : t <= MaxTimeStamp(k)
           /\ MaxTimeStamp(k) \in 0 .. Len(log)
<1>1. Len(log) \in Nat /\ Stored(k) \subseteq 1 .. Len(log)
  BY DEF Stored
<1>2. /\ MaxTimeStamp(k) \in {0} \union Stored(k)
      /\ \A t \in Stored(k) : t <= MaxTimeStamp(k)
  BY <1>1, ChooseNewest, ZenonT(30) DEF MaxTimeStamp
<1> QED BY <1>1, <1>2

----------------------------------------------------------------------------
(* The sorts of the variables.                                             *)

\* The watermark that a pull starts from is a stamp.
LEMMA TimeStampType ==
    ASSUME TypeOK, NEW k \in Kinds
    PROVE  TimeStamp(k) \in Nat /\ LookBack \in Nat
BY SizeAssumption DEF TypeOK, TimeStamp, LookBack

\* Stamping leaves watermarks that are stamps.
LEMMA StampAllType ==
    ASSUME TypeOK, StampAll
    PROVE  config' \in [Kinds -> Nat]
<1>1. \A k \in Kinds : MaxTimeStamp(k) \in Nat
  BY NewestStored DEF TypeOK
<1> QED BY <1>1 DEF TypeOK, StampAll

\* Giving up what the look-back window leaves out keeps floor's sort.
LEMMA GiveUpOlderType ==
    ASSUME TypeOK, NEW s \in Kinds \union {"flag"}, NEW k \in Kinds, GiveUpOlder(s, k)
    PROVE  floor' \in [Kinds \union {"flag"} -> Nat]
<1>1. LookBack \in Nat
  BY TimeStampType
<1> QED BY <1>1 DEF TypeOK, GiveUpOlder

\* Every initial state is well-typed.
LEMMA InitTypeOK == Init => TypeOK
<1>1. Init => complete \in BOOLEAN /\ synced \in BOOLEAN
  BY Zenon DEF Init
<1> QED
  BY <1>1, LogAssumption DEF Init, TypeOK, Kinds, Streams, Entries, RetryCount, Posted

\* Every step keeps the variables well-typed.
LEMMA NextTypeOK == TypeOK /\ [Next]_vars => TypeOK'
<1> SUFFICES ASSUME TypeOK, [Next]_vars PROVE TypeOK'
  OBVIOUS
<1> USE DEF TypeOK, Kinds, Streams
<1>1. ASSUME NEW e \in Traffic, Post(e) PROVE TypeOK'
  <2>1. e \in Entries
    BY LogAssumption
  <2>2. /\ log' = Append(log, e) /\ Len(log) \in Nat
        /\ flight' \subseteq 1 .. (Len(log) + 1)
    BY <1>1 DEF Post
  <2>3. log' \in Seq(Entries) /\ DOMAIN log' = 1 .. (Len(log) + 1)
    BY <2>1, <2>2
  <2> QED BY <1>1, <2>2, <2>3, SMTT(30) DEF Post, durable, loop
<1>2. CASE Deliver
  BY <1>2 DEF Deliver, loop
<1>3. CASE LoseLink
  BY <1>3 DEF LoseLink, Fault, durable, loop
<1>4. CASE Crash
  <2>1. complete' \in BOOLEAN /\ synced' \in BOOLEAN
    BY <1>4, Zenon DEF Crash, Stop
  <2> QED BY <1>4, <2>1 DEF Crash, Stop, Fault, durable, RetryCount
<1>5. CASE Restart
  <2>1. complete' \in BOOLEAN /\ synced' \in BOOLEAN
    BY <1>5, Zenon DEF Restart, Stop
  <2> QED BY <1>5, <2>1 DEF Restart, Stop, durable, RetryCount
<1>6. CASE Start
  BY <1>6 DEF Start, durable, loop
<1>7. CASE DealBind
  <2>1. config' \in [Kinds -> Nat]
    BY <1>7, StampAllType DEF DealBind
  <2> QED BY <1>7, <2>1 DEF DealBind, SaveMarkTime
<1>8. CASE UpdateTimeStamp
  <2>1. config' \in [Kinds -> Nat]
    BY <1>8, StampAllType DEF UpdateTimeStamp
  <2> QED BY <1>8, <2>1 DEF UpdateTimeStamp, network, loop
<1>9. CASE StartPull
  <2>1. floor' \in [Kinds \union {"flag"} -> Nat] /\ TimeStamp(kind) \in Nat
    BY <1>9, GiveUpOlderType, TimeStampType DEF StartPull
  <2>2. complete' \in BOOLEAN
    BY <1>9, Zenon DEF StartPull
  <2> QED BY <1>9, <2>1, <2>2 DEF StartPull, durable, network, RetryCount
<1>10. CASE PageArrives
  BY <1>10 DEF PageArrives, Newer, Posted, durable, network
<1>11. CASE PullRefused
  <2>1. complete' \in BOOLEAN
    BY <1>11, Zenon DEF PullRefused
  <2> QED BY <1>11, <2>1 DEF PullRefused, Fault, durable, network
<1>12. CASE PullGarbled
  BY <1>12 DEF PullGarbled, Fault, durable, network
<1>13. CASE StorePage
  BY <1>13, SMTT(30) DEF StorePage, AdvanceTo, Fault, network, RetryCount
<1>14. CASE Drained
  BY <1>14 DEF Drained, durable, network, loop
<1>15. CASE Retry
  BY <1>15 DEF Retry, MayRetry, durable, network, RetryCount
<1>16. CASE GiveUp
  BY <1>16 DEF GiveUp, durable, network, loop
<1>17. CASE HistoryError
  <2>1. complete' \in BOOLEAN
    BY <1>17, Zenon DEF HistoryError, Return
  <2> QED BY <1>17, <2>1 DEF HistoryError, Return, durable, network, RetryCount
<1>18. CASE EndChat
  <2>1. complete' \in BOOLEAN
    BY <1>18, Zenon DEF EndChat, Return
  <2> QED BY <1>18, <2>1 DEF EndChat, Return, durable, network, RetryCount
<1>19. CASE EndGroup
  <2>1. complete' \in BOOLEAN
    BY <1>19, Zenon DEF EndGroup, Return
  <2> QED BY <1>19, <2>1 DEF EndGroup, Return, durable, network, RetryCount
<1>20. CASE EndNotice
  <2>1. complete' \in BOOLEAN /\ synced' \in BOOLEAN
    BY <1>20, Zenon DEF EndNotice, Return
  <2> QED BY <1>20, <2>1 DEF EndNotice, Return, durable, network, RetryCount
<1>21. CASE FlagsArrive
  <2>1. floor' \in [Kinds \union {"flag"} -> Nat]
    BY <1>21, GiveUpOlderType DEF FlagsArrive
  <2> QED BY <1>21, <2>1, SMTT(30) DEF FlagsArrive, Posted, network, loop
<1>22. CASE FlagsDenied
  BY <1>22 DEF FlagsDenied, Fault, durable, network, loop
<1>23. CASE FlagsRefused
  BY <1>23 DEF FlagsRefused, Fault, durable, network, loop
<1>24. CASE ResetChat
  BY <1>24 DEF ResetChat, durable, network, loop
<1>25. CASE MarksArrive
  BY <1>25 DEF MarksArrive, Posted, network, loop
<1>26. CASE MarksRefused
  BY <1>26 DEF MarksRefused, Fault, durable, network, loop
<1>27. CASE MarksRolledBack
  BY <1>27 DEF MarksRolledBack, Fault, durable, network, loop
<1>28. CASE ResetMarks
  BY <1>28 DEF ResetMarks, durable, network, loop
<1>30. CASE Remove
  <2>1. PICK out \in SUBSET held : held' = held \ out /\ gone' = gone \union out
    BY <1>30 DEF Remove
  <2>2. UNCHANGED <<log, config, markTime, markLogin, network, pc, loop, synced, asked, floor, faults>>
    BY <1>30 DEF Remove
  <2> QED BY <2>1, <2>2 DEF network, loop
<1>29. CASE UNCHANGED vars
  BY <1>29 DEF vars, durable, network, loop
<1> QED
  BY <1>1, <1>2, <1>3, <1>4, <1>5, <1>6, <1>7, <1>8, <1>9, <1>10, <1>11, <1>12, <1>13, <1>14, <1>15, <1>16, <1>17, <1>18, <1>19, <1>20, <1>21, <1>22, <1>23, <1>24, <1>25, <1>26, <1>27, <1>28, <1>29, <1>30
     DEF Next, Pull, Masks

\* The variables keep their sorts, whatever fails (OfflineMessageManager's
\* loops and Communication's login sequence).
THEOREM TypeCorrect == Spec => []TypeOK
BY InitTypeOK, NextTypeOK, PTL DEF Spec
----------------------------------------------------------------------------
(* The point to resume from only moves back below what the user removed.   *)

\* A saved watermark is not newer than the newest entry, or a removed one is not
\* older; nor is the newest read mark newer than what is still on its way.
Ordered ==
    /\ \A e \in Streams : \/ Saved(e) <= Newest(e)
                           \/ \E t \in gone : log[t] = Stream(e) /\ Saved(e) <= t
    /\ \A t \in flight : t > markTime
    /\ markTime <= Len(log)

\* What a step does to a watermark: it is kept, dropped, or set to the newest
\* entry, which does not get older.
Moves(s) ==
    /\ Newest(s) <= Newest(s)'
    /\ \/ Saved(s)' = Saved(s)
       \/ Saved(s)' = 0
       \/ Saved(s) = 0 /\ Saved(s)' = Newest(s)

\* The sorts of what Resume chooses between.
LEMMA CursorType ==
    ASSUME TypeOK, NEW s \in Streams
    PROVE  Newest(s) \in Nat /\ Saved(s) \in Nat /\ Resume(s) \in Nat
<1>1. Saved(s) \in Nat
  BY DEF TypeOK, Saved, Stream, Streams, Kinds
<1>2. Newest(s) \in Nat
  BY NewestStored DEF TypeOK, Newest
<1> QED BY <1>1, <1>2 DEF Resume

\* What a step that only adds to the log and to the database does to the
\* newest entries.
LEMMA NewestGrows ==
    ASSUME TypeOK, TypeOK', held \subseteq held',
           \A t \in DOMAIN log : t \in DOMAIN log' /\ log'[t] = log[t],
           markTime <= markTime', NEW e \in Streams
    PROVE  /\ Newest(e) \in Nat /\ Newest(e)' \in Nat
           /\ Newest(e) <= Newest(e)'
           /\ \/ Newest(e)' = Newest(e)
              \/ e = "mark" /\ Newest(e)' = markTime'
              \/ e # "mark" /\ Newest(e)' \in held' \ held /\ log'[Newest(e)'] = Stream(e)
<1>1. CASE e = "mark"
  BY <1>1 DEF Newest, TypeOK
<1>2. CASE e # "mark"
  <2> DEFINE k == Stream(e)
             m == MaxTimeStamp(k)
             n == MaxTimeStamp(k)'
  <2>1. /\ m \in {0} \union Stored(k) /\ m \in Nat
        /\ \A t \in Stored(k) : t <= m
    BY NewestStored, SMTT(30) DEF TypeOK
  <2>2. /\ n \in {0} \union Stored(k)' /\ n \in Nat
        /\ \A t \in Stored(k)' : t <= n
    <3>1. Len(log') \in Nat /\ Stored(k)' \subseteq 1 .. Len(log')
      BY SMTT(30) DEF Stored, TypeOK
    <3>2. n = CHOOSE x \in {0} \union Stored(k)' : \A t \in Stored(k)' : t <= x
      BY DEF MaxTimeStamp
    <3> HIDE DEF k, n
    <3>3. n \in {0} \union Stored(k)' /\ \A t \in Stored(k)' : t <= n
      BY <3>1, <3>2, ChooseNewest, ZenonT(30)
    <3> QED BY <3>1, <3>3
  <2>3. Stored(k) \subseteq Stored(k)'
    BY DEF Stored, TypeOK
  <2>4. m <= n
    BY <2>1, <2>2, <2>3
  <2>5. n \in held => n \in {0} \union Stored(k)
    BY <2>2 DEF Stored, TypeOK
  <2>6. n # m => n \in held' \ held /\ log'[n] = k
    BY <2>1, <2>2, <2>4, <2>5 DEF Stored
  <2> HIDE DEF k, m, n
  <2>7. Newest(e) = m /\ Newest(e)' = n
    BY <1>2 DEF Newest, k, m, n
  <2> QED BY <1>2, <2>1, <2>2, <2>4, <2>6, <2>7 DEF k
<1> QED BY <1>1, <1>2

\* An entry that is only logged moves no watermark.
LEMMA PostCursors ==
    ASSUME TypeOK, TypeOK', NEW e \in Traffic, Post(e), NEW s \in Streams
    PROVE  Newest(s)' = Newest(s) /\ Saved(s)' = Saved(s) /\ Resume(s)' = Resume(s)
<1>1. /\ log \in Seq(Entries) /\ log' = Append(log, e)
      /\ UNCHANGED <<held, config, markTime, markLogin>>
  BY DEF Post, durable, TypeOK
<1>2. held \subseteq held' /\ held' \ held = {} /\ markTime <= markTime'
  BY <1>1 DEF TypeOK
<1>3. \A t \in DOMAIN log : t \in DOMAIN log' /\ log'[t] = log[t]
  BY <1>1, LogAssumption
<1>4. \/ Newest(s)' = Newest(s)
      \/ s = "mark" /\ Newest(s)' = markTime'
      \/ Newest(s)' \in held' \ held
  BY <1>2, <1>3, NewestGrows
<1>5. s = "mark" => Newest(s) = markTime
  BY DEF Newest
<1>6. Newest(s)' = Newest(s)
  BY <1>1, <1>2, <1>4, <1>5
<1> QED BY <1>1, <1>6 DEF Saved, Resume

\* Over a database that grows the newest entry does not get older.
LEMMA CursorGrows ==
    ASSUME TypeOK, TypeOK', NEW s \in Streams,
           held \subseteq held', log' = log, markTime <= markTime',
           Saved(s)' = Saved(s) \/ Saved(s)' = 0
    PROVE  Moves(s)
<1>1. \A t \in DOMAIN log : t \in DOMAIN log' /\ log'[t] = log[t]
  OBVIOUS
<1>2. Newest(s) <= Newest(s)'
  BY <1>1, NewestGrows
<1> QED BY <1>2 DEF Moves

\* Stamping makes the cursor explicit.
LEMMA StampCursor ==
    ASSUME TypeOK, StampAll, UNCHANGED <<log, held, markTime>>,
           markLogin' = markLogin \/ SaveMarkTime, NEW s \in Streams
    PROVE  /\ Newest(s)' = Newest(s) /\ Moves(s)
           /\ \/ Saved(s)' = IF Saved(s) = 0 THEN Newest(s) ELSE Saved(s)
              \/ s = "mark" /\ ~ SaveMarkTime /\ Saved(s)' = Saved(s)
<1>1. Newest(s)' = Newest(s)
  BY DEF Newest, MaxTimeStamp, Stored
<1>2. Newest(s) \in Nat
  BY CursorType
<1>3. \/ Saved(s)' = IF Saved(s) = 0 THEN Newest(s) ELSE Saved(s)
      \/ s = "mark" /\ ~ SaveMarkTime /\ Saved(s)' = Saved(s)
  <2>1. CASE s = "mark"
    <3>1. Saved(s) = markLogin /\ Saved(s)' = markLogin' /\ Newest(s) = markTime
      BY <2>1 DEF Saved, Newest
    <3> QED BY <2>1, <3>1 DEF SaveMarkTime
  <2>2. CASE s # "mark"
    <3>1. Stream(s) \in Kinds
      BY <2>2 DEF Stream, Streams, Kinds
    <3>2. /\ Saved(s) = config[Stream(s)] /\ Saved(s)' = config'[Stream(s)]
          /\ Newest(s) = MaxTimeStamp(Stream(s))
      BY <2>2 DEF Saved, Newest
    <3> QED BY <3>1, <3>2 DEF StampAll
  <2> QED BY <2>1, <2>2
<1>4. Moves(s)
  BY <1>1, <1>2, <1>3 DEF Moves
<1> QED BY <1>1, <1>3, <1>4

\* The sorts of a watermark after a step.
LEMMA CursorTypeNext ==
    ASSUME TypeOK', NEW s \in Streams
    PROVE  Newest(s)' \in Nat /\ Saved(s)' \in Nat
<1>1. Saved(s)' \in Nat
  BY DEF TypeOK, Saved, Stream, Streams, Kinds
<1>2. Newest(s)' \in Nat
  <2>1. Len(log') \in Nat /\ Stored(Stream(s))' \subseteq 1 .. Len(log')
    BY SMTT(30) DEF Stored, TypeOK
  <2>2. MaxTimeStamp(Stream(s))' =
          CHOOSE x \in {0} \union Stored(Stream(s))' : \A t \in Stored(Stream(s))' : t <= x
    BY DEF MaxTimeStamp
  <2>3. MaxTimeStamp(Stream(s))' \in {0} \union Stored(Stream(s))'
    BY <2>1, <2>2, ChooseNewest, ZenonT(30)
  <2> QED BY <2>1, <2>3 DEF Newest, TypeOK
<1> QED BY <1>1, <1>2

\* Such a step does not move the cursor of a stream back, unless to below a
\* removed entry.
LEMMA CursorForward ==
    ASSUME TypeOK, TypeOK', NEW s \in Streams, Moves(s)
    PROVE  /\ Saved(s) <= Newest(s) => Resume(s) <= Resume(s)' /\ Saved(s)' <= Newest(s)'
           /\ Saved(s)' <= Newest(s)' \/ Saved(s)' = Saved(s)
           /\ \/ Resume(s) <= Resume(s)'
              \/ Newest(s) < Saved(s) /\ Resume(s)' < Saved(s)
<1>1. Newest(s) \in Nat /\ Saved(s) \in Nat
  BY CursorType
<1>2. Saved(s)' \in Nat /\ Newest(s)' \in Nat
  BY CursorTypeNext
<1>4. /\ Resume(s) = IF Saved(s) > 0 THEN Saved(s) ELSE Newest(s)
      /\ Resume(s)' = IF Saved(s)' > 0 THEN Saved(s)' ELSE Newest(s)'
  BY DEF Resume
<1> QED BY <1>1, <1>2, <1>4 DEF Moves

\* What each step other than the server's and the user's does to the watermarks.
LEMMA CursorSteps ==
    ASSUME TypeOK, TypeOK', Ordered, [Next]_vars, \A e \in Traffic : ~ Post(e), ~ Remove
    PROVE  /\ held \subseteq held' /\ log' = log /\ gone' = gone
           /\ \A s \in Streams : Moves(s)
<1> DEFINE Kept == \A s \in Streams : Saved(s)' = Saved(s) \/ Saved(s)' = 0
           Grown == held \subseteq held' /\ log' = log /\ markTime <= markTime'
<1>g. gone' = gone
  BY DEF Next, Deliver, LoseLink, Crash, Restart, Stop, Start, DealBind, UpdateTimeStamp,
     Pull, StartPull, PageArrives, PullRefused, PullGarbled, StorePage, Drained, Retry,
     GiveUp, HistoryError, EndChat, EndGroup, EndNotice, Masks, FlagsArrive, FlagsDenied,
     FlagsRefused, ResetChat, MarksArrive, MarksRefused, MarksRolledBack, ResetMarks, vars
<1>2. ASSUME UNCHANGED <<log, config, markTime, markLogin>>, held \subseteq held' PROVE Grown /\ Kept
  BY <1>2 DEF TypeOK, Saved
<1>3. CASE Deliver
  <2>1. PICK t \in flight : markTime' = IF log[t] = "mark" THEN t ELSE markTime
    BY <1>3 DEF Deliver
  <2>2. markTime <= markTime'
    BY <2>1 DEF Ordered, TypeOK
  <2>3. /\ held \subseteq held' /\ UNCHANGED <<log, config, markLogin>>
    BY <1>3 DEF Deliver
  <2> QED BY <2>2, <2>3, <1>g, CursorGrows DEF Saved
<1>4. CASE DealBind \/ UpdateTimeStamp
  <2>1. /\ UNCHANGED <<log, held, markTime>> /\ StampAll
        /\ markLogin' = markLogin \/ SaveMarkTime
    BY <1>4 DEF DealBind, UpdateTimeStamp
  <2>2. \A s \in Streams : Moves(s)
    BY <2>1, StampCursor
  <2> QED BY <1>g, <2>1, <2>2
<1>5. CASE \/ LoseLink \/ Crash \/ Restart \/ Start \/ StartPull \/ PageArrives
           \/ PullRefused \/ PullGarbled \/ Drained \/ Retry \/ GiveUp \/ HistoryError
           \/ EndChat \/ FlagsDenied \/ FlagsRefused \/ MarksRefused \/ MarksRolledBack
           \/ UNCHANGED vars
  <2>1. UNCHANGED <<log, held, config, markTime, markLogin>>
    BY <1>5 DEF LoseLink, Crash, Restart, Stop, Start, StartPull, PageArrives, PullRefused,
       PullGarbled, Drained, Retry, GiveUp, HistoryError, EndChat, FlagsDenied, FlagsRefused,
       MarksRefused, MarksRolledBack, vars, durable
  <2>2. Grown /\ Kept
    BY <1>2, <2>1
  <2> QED BY <1>g, <2>2, CursorGrows
<1>6. CASE StorePage \/ FlagsArrive \/ MarksArrive
  <2>1. UNCHANGED <<log, config, markTime, markLogin>> /\ held \subseteq held'
    BY <1>6 DEF StorePage, FlagsArrive, MarksArrive
  <2>2. Grown /\ Kept
    BY <1>2, <2>1
  <2> QED BY <1>g, <2>2, CursorGrows
<1>7. CASE EndGroup \/ EndNotice \/ ResetChat
  <2>1. /\ UNCHANGED <<log, held, markTime, markLogin>>
        /\ \E k \in Kinds : config' = [config EXCEPT ![k] = 0]
    BY <1>7 DEF EndGroup, EndNotice, ResetChat, Kinds
  <2>2. \A k \in Kinds : config'[k] = config[k] \/ config'[k] = 0
    BY <2>1 DEF TypeOK
  <2>3. \A s \in Streams : s = "mark" \/ Stream(s) \in Kinds
    BY DEF Stream, Streams, Kinds
  <2>4. Kept
    BY <2>1, <2>2, <2>3 DEF Saved
  <2>5. Grown
    BY <2>1 DEF TypeOK
  <2> QED BY <1>g, <2>4, <2>5, CursorGrows
<1>8. CASE ResetMarks
  <2>1. UNCHANGED <<log, held, config, markTime>> /\ markLogin' = 0
    BY <1>8 DEF ResetMarks
  <2>2. Grown /\ Kept
    BY <2>1 DEF TypeOK, Saved
  <2> QED BY <1>g, <2>2, CursorGrows
<1> QED
  BY <1>3, <1>4, <1>5, <1>6, <1>7, <1>8 DEF Next, Pull, Masks

\* What a removal does: the newest entry stays, or is among the removed.
LEMMA RemoveCursors ==
    ASSUME TypeOK, TypeOK', Remove, NEW s \in Streams
    PROVE  /\ gone \subseteq gone' /\ Saved(s)' = Saved(s)
           /\ \/ Newest(s)' = Newest(s)
              \/ /\ Newest(s)' < Newest(s)
                 /\ Newest(s) \in gone' /\ log[Newest(s)] = Stream(s)
<1>1. PICK out \in SUBSET held : held' = held \ out /\ gone' = gone \union out
  BY DEF Remove
<1>2. UNCHANGED <<log, config, markTime, markLogin>>
  BY DEF Remove
<1>3. gone \subseteq gone' /\ Saved(s)' = Saved(s)
  BY <1>1, <1>2 DEF Saved
<1>4. CASE s = "mark"
  BY <1>2, <1>3, <1>4 DEF Newest
<1>5. CASE s # "mark"
  <2> DEFINE k == Stream(s)
             m == MaxTimeStamp(k)
             n == MaxTimeStamp(k)'
  <2>1. /\ m \in {0} \union Stored(k) /\ m \in Nat
        /\ \A t \in Stored(k) : t <= m
    BY NewestStored, SMTT(30) DEF TypeOK
  <2>2. /\ n \in {0} \union Stored(k)' /\ n \in Nat
        /\ \A t \in Stored(k)' : t <= n
    <3>1. Len(log') \in Nat /\ Stored(k)' \subseteq 1 .. Len(log')
      BY SMTT(30) DEF Stored, TypeOK
    <3>2. n = CHOOSE x \in {0} \union Stored(k)' : \A t \in Stored(k)' : t <= x
      BY DEF MaxTimeStamp
    <3> HIDE DEF k, n
    <3>3. n \in {0} \union Stored(k)' /\ \A t \in Stored(k)' : t <= n
      BY <3>1, <3>2, ChooseNewest, ZenonT(30)
    <3> QED BY <3>1, <3>3
  <2>3. Stored(k)' = Stored(k) \ out /\ Stored(k) \subseteq held /\ held \subseteq 1 .. Len(log)
    BY <1>1, <1>2 DEF Stored, TypeOK
  <2>4. \A t \in Stored(k) : log[t] = k /\ t \in Nat /\ t > 0
    BY <2>3 DEF Stored, TypeOK
  <2> HIDE DEF k, m, n
  <2>5. CASE m \in out
    <3>1. m \in Stored(k)
      <4>1. m # 0
        BY <1>1, <2>3, <2>5
      <4> QED BY <2>1, <4>1
    <3>2. n < m
      BY <2>1, <2>2, <2>3, <2>4, <2>5, <3>1
    <3> QED BY <1>1, <1>3, <1>5, <2>4, <2>5, <3>1, <3>2 DEF Newest, k, m, n
  <2>6. CASE m \notin out
    <3>1. m <= n
      BY <2>1, <2>2, <2>3, <2>6
    <3>2. n <= m
      BY <2>1, <2>2, <2>3
    <3>3. n = m
      BY <2>1, <2>2, <3>1, <3>2
    <3> QED BY <1>3, <1>5, <3>3 DEF Newest, k, m, n
  <2> QED BY <2>5, <2>6
<1> QED BY <1>4, <1>5

\* How far a step may move a cursor back, and the order of the watermarks.
LEMMA CursorBack ==
    ASSUME TypeOK, TypeOK', Ordered, [Next]_vars, \A e \in Traffic : ~ Post(e),
           NEW s \in Streams
    PROVE  /\ Resume(s) <= Resume(s)' \/ Removed(s, Resume(s))'
           /\ \/ Saved(s)' <= Newest(s)'
              \/ \E t \in gone' : log'[t] = Stream(s) /\ Saved(s)' <= t
<1>1. Newest(s) \in Nat /\ Saved(s) \in Nat /\ gone \subseteq Nat
  <2>1. gone \subseteq Nat
    BY DEF TypeOK
  <2> QED BY <2>1, CursorType
<1>2. \/ Saved(s) <= Newest(s)
      \/ \E t \in gone : log[t] = Stream(s) /\ Saved(s) <= t
  BY DEF Ordered
<1>3. CASE Remove
  <2>1. /\ gone \subseteq gone' /\ Saved(s)' = Saved(s) /\ log' = log
        /\ \/ Newest(s)' = Newest(s)
           \/ /\ Newest(s)' < Newest(s)
              /\ Newest(s) \in gone' /\ log[Newest(s)] = Stream(s)
    BY <1>3, RemoveCursors DEF Remove
  <2>2. /\ Resume(s) = IF Saved(s) > 0 THEN Saved(s) ELSE Newest(s)
        /\ Resume(s)' = IF Saved(s)' > 0 THEN Saved(s)' ELSE Newest(s)'
    BY DEF Resume
  <2>3. Resume(s) <= Resume(s)' \/ (Resume(s)' = Newest(s)' /\ Newest(s)' < Newest(s))
    <3>1. CASE Saved(s) > 0
      BY <1>1, <2>1, <2>2, <3>1
    <3>2. CASE ~ (Saved(s) > 0)
      BY <1>1, <2>1, <2>2, <3>2
    <3> QED BY <3>1, <3>2
  <2>4. Resume(s) <= Resume(s)' \/ Removed(s, Resume(s))'
    <3>1. CASE Resume(s)' = Newest(s)' /\ Newest(s)' < Newest(s)
      <4>1. Newest(s) \in gone' /\ log'[Newest(s)] = Stream(s) /\ Resume(s)' < Newest(s)
        BY <1>1, <2>1, <3>1
      <4> QED BY <4>1 DEF Removed
    <3> QED BY <2>3, <3>1
  <2> QED BY <1>1, <1>2, <2>1, <2>4
<1>4. CASE ~ Remove
  <2>1. log' = log /\ gone' = gone /\ Moves(s)
    BY <1>4, CursorSteps
  <2>2. /\ Saved(s)' <= Newest(s)' \/ Saved(s)' = Saved(s)
        /\ Saved(s) <= Newest(s) => Resume(s) <= Resume(s)' /\ Saved(s)' <= Newest(s)'
        /\ \/ Resume(s) <= Resume(s)'
           \/ Newest(s) < Saved(s) /\ Resume(s)' < Saved(s)
    BY <2>1, CursorForward
  <2>3. CASE Saved(s) <= Newest(s)
    BY <2>2, <2>3
  <2>4. CASE \E t \in gone : log[t] = Stream(s) /\ Saved(s) <= t
    <3>1. PICK t \in gone : log[t] = Stream(s) /\ Saved(s) <= t
      BY <2>4
    <3>2. Resume(s)' \in Nat
      <4>1. Newest(s)' \in Nat /\ Saved(s)' \in Nat
        BY <2>1, <1>1, CursorTypeNext
      <4> QED BY <4>1 DEF Resume
    <3>3. Resume(s) <= Resume(s)' \/ Resume(s)' < t
      BY <1>1, <2>2, <3>1, <3>2
    <3>4. Resume(s) <= Resume(s)' \/ Removed(s, Resume(s))'
      BY <2>1, <3>1, <3>3 DEF Removed
    <3> QED BY <2>1, <2>2, <3>1, <3>4
  <2> QED BY <1>2, <2>3, <2>4
<1> QED BY <1>3, <1>4

\* The order of the watermarks is kept by every step.
LEMMA NextOrdered == TypeOK /\ TypeOK' /\ Ordered /\ [Next]_vars => Ordered'
<1> SUFFICES ASSUME TypeOK, TypeOK', Ordered, [Next]_vars PROVE Ordered'
  OBVIOUS
<1>1. CASE \E e \in Traffic : Post(e)
  <2>1. PICK e \in Traffic : Post(e)
    BY <1>1
  <2>2. \A s \in Streams : Newest(s)' = Newest(s) /\ Saved(s)' = Saved(s)
    BY <2>1, PostCursors
  <2>3. /\ log' = Append(log, e) /\ log \in Seq(Entries) /\ markTime' = markTime
        /\ flight' \subseteq flight \union {Len(log) + 1} /\ gone' = gone
    BY <2>1 DEF Post, durable, TypeOK
  <2>5. \A t \in gone : log'[t] = log[t]
    BY <2>3, LogAssumption DEF TypeOK
  <2>4. Len(log') = Len(log) + 1 /\ Len(log) \in Nat
    BY <2>3, LogAssumption
  <2>6. (\A t \in flight' : t > markTime') /\ markTime' <= Len(log')
    BY <2>3, <2>4 DEF Ordered, TypeOK
  <2> QED BY <2>2, <2>3, <2>5, <2>6 DEF Ordered
<1>2. CASE \A e \in Traffic : ~ Post(e)
  <2>0. \A s \in Streams : \/ Saved(s)' <= Newest(s)'
                           \/ \E t \in gone' : log'[t] = Stream(s) /\ Saved(s)' <= t
    BY <1>2, CursorBack
  <2>1. log' = log
    BY <1>2, CursorSteps DEF Remove
  <2>2. (\A t \in flight' : t > markTime') /\ markTime' <= Len(log')
    <3>1. CASE Deliver
      BY <3>1 DEF Deliver, Ordered, TypeOK
    <3>2. CASE ~ Deliver
      <4>1. markTime' = markTime /\ flight' \subseteq flight
        BY <1>2, <3>2 DEF Next, LoseLink, Crash, Restart, Stop, Start, DealBind, UpdateTimeStamp,
           Pull, StartPull, PageArrives, PullRefused, PullGarbled, StorePage, Drained, Retry,
           GiveUp, HistoryError, EndChat, EndGroup, EndNotice, Masks, FlagsArrive, FlagsDenied,
           FlagsRefused, ResetChat, MarksArrive, MarksRefused, MarksRolledBack, ResetMarks,
           Remove, vars, durable, network
      <4> QED BY <2>1, <4>1 DEF Ordered
    <3> QED BY <3>1, <3>2
  <2> QED BY <2>0, <2>2 DEF Ordered
<1> QED BY <1>1, <1>2

\* It holds at the start.
LEMMA InitOrdered == Init => Ordered
<1> SUFFICES ASSUME Init PROVE Ordered
  OBVIOUS
<1>1. TypeOK
  BY InitTypeOK
<1>2. \A s \in Streams : Saved(s) = 0
  BY DEF Init, Saved, Stream, Streams, Kinds
<1>3. markTime <= Len(log) /\ flight = {}
  BY <1>1 DEF Init, Posted, TypeOK
<1> QED BY <1>1, <1>2, <1>3, CursorType DEF Ordered

\* Whatever fails, the stamp the next login starts from never decreases, unless
\* to below a message that the user removed (updateTimeStamp, the resets of the
\* watermarks, the live stream and the removal of sessions).
THEOREM CursorsMonotonic == Spec => NeverBackwards
<1>1. TypeOK /\ TypeOK' /\ Ordered /\ [Next]_vars =>
         [\A e \in Streams : Resume(e) <= Resume(e)' \/ Removed(e, Resume(e))']_vars
  <2> SUFFICES ASSUME TypeOK, TypeOK', Ordered, [Next]_vars, NEW e \in Streams
               PROVE  Resume(e) <= Resume(e)' \/ Removed(e, Resume(e))'
    OBVIOUS
  <2>1. CASE \E a \in Traffic : Post(a)
    BY <2>1, PostCursors, CursorType
  <2>2. CASE \A a \in Traffic : ~ Post(a)
    BY <2>2, CursorBack
  <2> QED BY <2>1, <2>2
<1> QED BY <1>1, TypeCorrect, InitOrdered, NextOrdered, PTL DEF Spec, NeverBackwards

----------------------------------------------------------------------------
(* No message is skipped.  The hypothesis: an account in use, requests     *)
(* that fail visibly, transactions whose failure the code notices, no      *)
(* removal of messages, and less call signalling than fills a page.  A run *)
(* with one of these constants changed shows what each hypothesis is for.  *)

Benign ==
    /\ PullFaults \subseteq {"refused"}
    /\ FlagFaults \subseteq {"refused"}
    /\ MarkFaults \subseteq {"database"}
    /\ StoreFails = FALSE
    /\ Removable = {}
    /\ SignalLimit < PageSize
    /\ \A e \in Kinds \union {"mark"} : \E t \in DOMAIN History : History[t] = e

\* A stream has a newest entry, at or above its saved watermark.
Bounds ==
    /\ \A e \in Streams : /\ Newest(e) \in 1 .. Len(log)
                          /\ Saved(e) <= Newest(e)
                          /\ asked[e] <= Len(log)
    /\ IsFiniteSet(Posted("signal"))
    /\ Cardinality(Posted("signal")) <= SignalLimit
    /\ \A t \in flight : t > markTime

\* NoGap without its exception.
Resumable == \A u \in Missing : u > Resume(log[u])

\* On a bound connection, what is missing although its watermark was dropped,
\* or although it is newer than the last answer, is on its way.
Coming ==
    link = "bound" =>
        \A u \in Missing :
            /\ Saved(log[u]) = 0 => u \in flight
            /\ \A s \in Streams : asked[s] > 0 /\ u > asked[s] => u \in flight

\* What came live after the last answer came in order.
InOrder ==
    \A e \in Streams \ {"flag"}, u \in Missing :
        asked[e] > 0 /\ u > asked[e] /\ Newest(e) > asked[e] => u > Newest(e)

\* All entries e that the server had at its last answer are stored.
Covered(e) == asked[e] > 0 /\ \A u \in Missing : log[u] = e => u > asked[e]

\* The watermarks that the rest of the synchronisation is to drop.
Guarded ==
    /\ pc \in {"flags", "flagged"} => kind = "chat"
    /\ pc \in {"marks", "marked"} => kind = "group"
    /\ pc \notin {"idle", "failed"} => config["notice"] > 0
    /\ pc \in {"due", "ask", "got", "end", "flags", "flagged"} =>
          /\ kind # "notice" => config["group"] > 0
          /\ kind = "chat" => config["chat"] > 0

\* Where the synchronising thread stands, and what is stored by then.
Progress ==
    /\ pc \in {"ask", "got"} =>
          cursor <= Len(log) /\ \A u \in Missing : log[u] = kind => u > cursor
    /\ pc = "got" /\ complete =>
          /\ asked[kind] > 0
          /\ \A t \in page : /\ log[t] = kind /\ t <= asked[kind]
                             /\ \A u \in Posted(kind) : cursor < u /\ u < t => u \in page
          /\ page = {} => Covered(kind)
    /\ pc = "end" /\ Succeeded => Covered(kind)
    /\ pc \in {"flags", "flagged"} => Covered("chat")
    /\ pc = "flagged" => Covered("flag") /\ asked["flag"] >= asked["chat"]
    /\ pc = "marked" => Covered("mark")

\* Then nothing is removed.
LEMMA NoRemoval == Benign => ~ Remove
BY DEF Benign, Remove

IInv == TypeOK /\ Bounds /\ Resumable /\ Coming /\ InOrder /\ Guarded /\ Progress


\* The invariant holds at the start.
LEMMA InitIInv == Benign /\ Init => IInv
<1> SUFFICES ASSUME Benign, Init PROVE IInv
  OBVIOUS
<1>1. TypeOK
  BY InitTypeOK
<1>2. Missing = {} /\ Posted("signal") = {}
  BY LogAssumption DEF Init, Missing, Posted, Streams, Kinds
<1>3. ASSUME NEW e \in Streams PROVE Newest(e) \in 1 .. Len(log) /\ Saved(e) = 0
  <2>1. CASE e = "mark"
    <3>1. PICK t \in DOMAIN log : log[t] = "mark"
      BY DEF Benign, Init
    <3> QED BY <1>1, <2>1, <3>1 DEF Init, Newest, Saved, Posted, TypeOK
  <2>2. CASE e # "mark"
    <3>1. Stream(e) \in Kinds
      BY <2>2 DEF Stream, Streams, Kinds
    <3>2. PICK t \in DOMAIN log : log[t] = Stream(e)
      BY <3>1 DEF Benign, Init
    <3>3. t \in Stored(Stream(e))
      BY <3>2 DEF Stored, Init
    <3>4. MaxTimeStamp(Stream(e)) \in 1 .. Len(log)
      BY <1>1, <3>3, NewestStored DEF TypeOK
    <3> QED BY <2>2, <3>1, <3>4 DEF Init, Newest, Saved
  <2> QED BY <2>1, <2>2
<1>4. Bounds
  <2>1. IsFiniteSet({}) /\ Cardinality({}) = 0
    BY FS_EmptySet
  <2>2. flight = {} /\ \A e \in Streams : asked[e] = 0
    BY DEF Init
  <2>3. \A e \in Streams : Saved(e) <= Newest(e) /\ asked[e] <= Len(log)
    BY <1>3, <2>2
  <2>4. IsFiniteSet(Posted("signal")) /\ Cardinality(Posted("signal")) <= SignalLimit
    BY <1>2, <2>1, SizeAssumption
  <2> QED BY <1>3, <2>2, <2>3, <2>4 DEF Bounds
<1>5. Resumable /\ Coming /\ InOrder
  BY <1>2 DEF Resumable, Coming, InOrder
<1>6. Guarded /\ Progress
  BY DEF Init, Guarded, Progress
<1> QED BY <1>1, <1>4, <1>5, <1>6 DEF IInv

\* The part of the invariant that does not mention the thread's locals.
Stable == Bounds /\ Resumable /\ Coming /\ InOrder

\* It survives every step that leaves its variables alone.
LEMMA StableFrame ==
    ASSUME Stable, UNCHANGED <<log, durable, link, flight, asked>>
    PROVE  Stable'
<1>1. /\ \A e : Newest(e)' = Newest(e) /\ Saved(e)' = Saved(e)
      /\ \A e : Resume(e)' = Resume(e) /\ Posted(e)' = Posted(e)
      /\ Missing' = Missing
  BY DEF Newest, Saved, Resume, MaxTimeStamp, Stored, Posted, Missing, durable
<1>2. Bounds'
  BY <1>1 DEF Stable, Bounds, durable
<1>3. Resumable' /\ InOrder'
  BY <1>1 DEF Stable, Resumable, InOrder
<1>4. Coming'
  BY <1>1 DEF Stable, Coming
<1> QED BY <1>2, <1>3, <1>4 DEF Stable

\* What the conjuncts of Bounds give for a watermark.
LEMMA ResumeBounds ==
    ASSUME TypeOK, Bounds, NEW s \in Streams
    PROVE  /\ Newest(s) \in 1 .. Len(log) /\ Saved(s) \in Nat /\ Resume(s) \in 1 .. Len(log)
           /\ Resume(s) <= Newest(s)
           /\ Len(log) \in Nat /\ asked[s] \in Nat
<1>1. Saved(s) \in Nat /\ asked[s] \in Nat /\ Len(log) \in Nat
  BY DEF TypeOK, Saved, Stream, Streams, Kinds
<1>2. Newest(s) \in 1 .. Len(log) /\ Saved(s) <= Newest(s)
  BY DEF Bounds
<1> QED BY <1>1, <1>2 DEF Resume

\* The watermarks are in order.
LEMMA BoundsOrdered == ASSUME TypeOK, Bounds PROVE Ordered
<1>1. Newest("mark") = markTime /\ "mark" \in Streams
  BY DEF Newest, Streams
<1> QED BY <1>1, ResumeBounds DEF Bounds, Ordered

\* What is missing belongs to a stream.
LEMMA MissingStream == ASSUME TypeOK, NEW u \in Missing PROVE log[u] \in Streams /\ u \in 1 .. Len(log)
BY DEF TypeOK, Missing, Entries

\* The server logs an entry.
LEMMA PostStable ==
    ASSUME TypeOK, TypeOK', Stable, NEW e \in Traffic, Post(e)
    PROVE  Stable'
<1> DEFINE n == Len(log) + 1
<1>1. /\ e \in Entries /\ log \in Seq(Entries) /\ log' = Append(log, e) /\ n \in Nat
      /\ UNCHANGED <<held, config, markTime, markLogin, link, asked>>
  BY LogAssumption DEF Post, durable, TypeOK
<1>2. /\ DOMAIN log = 1 .. Len(log) /\ DOMAIN log' = 1 .. n /\ Len(log') = n
      /\ log'[n] = e /\ \A t \in DOMAIN log : t \in DOMAIN log' /\ log'[t] = log[t]
  BY <1>1
<1>3. \A s \in Streams : Newest(s)' = Newest(s) /\ Saved(s)' = Saved(s) /\ Resume(s)' = Resume(s)
  BY PostCursors
<1>4. ASSUME NEW u \in Missing'
      PROVE  /\ log'[u] \in Streams
             /\ (u \in Missing /\ log'[u] = log[u]) \/ u = n
  BY <1>1, <1>2 DEF Missing, Entries, TypeOK
<1>5. Bounds'
  <2>1. \A s \in Streams : /\ Newest(s)' \in 1 .. Len(log')
                            /\ Saved(s)' <= Newest(s)'
                            /\ asked'[s] <= Len(log')
    BY <1>1, <1>2, <1>3, ResumeBounds DEF Stable, Bounds
  <2>2. \A t \in flight' : t > markTime'
    <3>1. markTime \in 1 .. Len(log)
      BY ResumeBounds DEF Stable, Newest, Streams
    <3> QED BY <1>1, <3>1 DEF Post, Stable, Bounds, TypeOK
  <2>3. IsFiniteSet(Posted("signal")') /\ Cardinality(Posted("signal")') <= SignalLimit
    <3>1. CASE e = "signal"
      <4>1. Posted("signal")' = Posted("signal") \union {n} /\ n \notin Posted("signal")
        BY <1>2, <3>1 DEF Posted
      <4>2. /\ IsFiniteSet(Posted("signal")) /\ Cardinality(Posted("signal")) \in Nat
            /\ Cardinality(Posted("signal")) < SignalLimit
        BY <3>1, FS_CardinalityType DEF Post, Stable, Bounds
      <4>3. /\ IsFiniteSet(Posted("signal") \union {n})
            /\ Cardinality(Posted("signal") \union {n}) = Cardinality(Posted("signal")) + 1
        BY <4>1, <4>2, FS_AddElement
      <4> HIDE DEF n
      <4> QED BY <4>1, <4>2, <4>3, SizeAssumption
    <3>2. CASE e # "signal"
      <4>1. Posted("signal")' = Posted("signal")
        BY <1>2, <3>2 DEF Posted
      <4> QED BY <4>1 DEF Stable, Bounds
    <3> QED BY <3>1, <3>2
  <2> QED BY <2>1, <2>2, <2>3 DEF Bounds
<1>6. Resumable'
  <2> SUFFICES ASSUME NEW u \in Missing' PROVE u > Resume(log[u])'
    BY DEF Resumable
  <2> QED BY <1>2, <1>3, <1>4, ResumeBounds DEF Stable, Resumable
<1>7. Coming'
  <2> SUFFICES ASSUME link' = "bound", NEW u \in Missing'
               PROVE /\ Saved(log[u])' = 0 => u \in flight'
                     /\ \A s \in Streams : asked'[s] > 0 /\ u > asked'[s] => u \in flight'
    BY DEF Coming
  <2>1. flight' = flight \union {n}
    BY <1>1 DEF Post
  <2> QED BY <1>1, <1>3, <1>4, <2>1 DEF Stable, Coming
<1>8. InOrder'
  <2> SUFFICES ASSUME NEW s \in Streams \ {"flag"}, NEW u \in Missing',
                      asked'[s] > 0, u > asked'[s], Newest(s)' > asked'[s]
               PROVE  u > Newest(s)'
    BY DEF InOrder
  <2> QED BY <1>1, <1>3, <1>4, ResumeBounds DEF Stable, InOrder
<1> QED BY <1>5, <1>6, <1>7, <1>8 DEF Stable

\* The live stream delivers the oldest entry on its way.
LEMMA DeliverStable ==
    ASSUME TypeOK, TypeOK', Stable, Deliver
    PROVE  Stable'
<1>1. PICK t \in flight :
         /\ \A u \in flight : t <= u
         /\ flight' = flight \ {t}
         /\ held' = IF log[t] = "signal" THEN held ELSE held \union {t}
         /\ markTime' = IF log[t] = "mark" THEN t ELSE markTime
  BY DEF Deliver
<1>2. /\ UNCHANGED <<log, config, markLogin, asked, link>> /\ link = "bound"
      /\ t \in DOMAIN log /\ t \in Nat /\ flight \subseteq Nat /\ t > markTime
      /\ markTime \in Nat /\ Len(log) \in Nat /\ t <= Len(log)
  BY DEF Deliver, TypeOK, Stable, Bounds
<1>3. ASSUME NEW u \in Missing'
      PROVE  u \in Missing /\ u # t /\ log'[u] = log[u] /\ log[u] \in Streams /\ u \in 1 .. Len(log)
  BY <1>1, <1>2, MissingStream DEF Missing
<1>4. ASSUME NEW s \in Streams
      PROVE  /\ Newest(s)' \in Nat /\ Newest(s) \in Nat
             /\ Newest(s) <= Newest(s)'
             /\ Newest(s)' = Newest(s) \/ Newest(s)' = t
             /\ Saved(s)' = Saved(s)
  <2>1. held \subseteq held' /\ held' \ held \subseteq {t} /\ markTime <= markTime'
    BY <1>1, <1>2
  <2>2. markTime' = markTime \/ markTime' = t
    BY <1>1
  <2>3. \A x \in DOMAIN log : x \in DOMAIN log' /\ log'[x] = log[x]
    BY <1>2
  <2>4. /\ Newest(s) \in Nat /\ Newest(s)' \in Nat
        /\ Newest(s) <= Newest(s)'
        /\ \/ Newest(s)' = Newest(s)
           \/ s = "mark" /\ Newest(s)' = markTime'
           \/ Newest(s)' \in held' \ held
    BY <2>1, <2>3, NewestGrows
  <2>5. Newest(s)' = Newest(s) \/ Newest(s)' = t
    <3>1. s = "mark" => Newest(s) = markTime
      BY DEF Newest
    <3> QED BY <2>1, <2>2, <2>4, <3>1
  <2> QED BY <1>2, <2>4, <2>5 DEF Saved
<1>5. Bounds'
  <2>1. \A s \in Streams : /\ Newest(s)' \in 1 .. Len(log')
                            /\ Saved(s)' <= Newest(s)'
                            /\ asked'[s] <= Len(log')
    <3> SUFFICES ASSUME NEW s \in Streams
                 PROVE  /\ Newest(s)' \in 1 .. Len(log')
                        /\ Saved(s)' <= Newest(s)' /\ asked'[s] <= Len(log')
      OBVIOUS
    <3>1. /\ Newest(s) \in 1 .. Len(log) /\ Saved(s) \in Nat
          /\ Saved(s) <= Newest(s) /\ asked[s] <= Len(log)
      BY ResumeBounds DEF Stable, Bounds
    <3> QED BY <1>2, <1>4, <3>1
  <2>2. \A u \in flight' : u > markTime'
    BY <1>1, <1>2 DEF Stable, Bounds
  <2>3. Posted("signal")' = Posted("signal")
    BY <1>2 DEF Posted
  <2> QED BY <2>1, <2>2, <2>3 DEF Bounds, Stable
<1>6. Resumable'
  <2> SUFFICES ASSUME NEW u \in Missing' PROVE u > Resume(log[u])'
    BY DEF Resumable
  <2>1. /\ u \in Missing /\ u # t /\ log'[u] = log[u] /\ log[u] \in Streams
        /\ u > Resume(log[u]) /\ u \in Nat
    BY <1>3 DEF Stable, Resumable
  <2>2. CASE Saved(log[u]) > 0
    BY <1>4, <2>1, <2>2 DEF Resume
  <2>3. CASE ~ (Saved(log[u]) > 0)
    <3>1. Saved(log[u]) = 0
      BY <2>1, <2>3, ResumeBounds DEF Stable
    <3>2. u \in flight /\ u > t
      BY <1>1, <1>2, <2>1, <3>1 DEF Stable, Coming
    <3> QED BY <1>4, <2>1, <2>3, <3>2 DEF Resume
  <2> QED BY <2>2, <2>3
<1>7. Coming'
  <2> SUFFICES ASSUME NEW u \in Missing'
               PROVE /\ Saved(log[u])' = 0 => u \in flight'
                     /\ \A s \in Streams : asked'[s] > 0 /\ u > asked'[s] => u \in flight'
    BY DEF Coming
  <2> QED BY <1>1, <1>2, <1>3, <1>4 DEF Stable, Coming
<1>8. InOrder'
  <2> SUFFICES ASSUME NEW s \in Streams \ {"flag"}, NEW u \in Missing',
                      asked'[s] > 0, u > asked'[s], Newest(s)' > asked'[s]
               PROVE  u > Newest(s)'
    BY DEF InOrder
  <2>1. u \in flight /\ u > t
    BY <1>1, <1>2, <1>3 DEF Stable, Coming
  <2> QED BY <1>2, <1>3, <1>4, <2>1 DEF Stable, InOrder
<1> QED BY <1>5, <1>6, <1>7, <1>8 DEF Stable

\* A step that only stores entries of the log.
LEMMA HeldGrows ==
    ASSUME TypeOK, TypeOK', held \subseteq held', UNCHANGED <<log, markTime, config, markLogin>>
    PROVE  /\ Missing' \subseteq Missing
           /\ \A s \in Streams : Saved(s)' = Saved(s)
           /\ \A s \in Streams : Newest(s) <= Newest(s)'
           /\ \A s \in Streams :
                 \/ Newest(s)' = Newest(s)
                 \/ s # "mark" /\ Newest(s)' \in held' \ held /\ log[Newest(s)'] = Stream(s)
           /\ \A s \in Streams : Newest(s)' \in Nat
           /\ \A e : Posted(e)' = Posted(e)
<1>1. \A x \in DOMAIN log : x \in DOMAIN log' /\ log'[x] = log[x]
  OBVIOUS
<1>2. markTime <= markTime'
  BY DEF TypeOK
<1>3. ASSUME NEW s \in Streams
      PROVE  /\ Newest(s)' \in Nat
             /\ Newest(s) <= Newest(s)'
             /\ \/ Newest(s)' = Newest(s)
                \/ s = "mark" /\ Newest(s)' = markTime'
                \/ s # "mark" /\ Newest(s)' \in held' \ held /\ log'[Newest(s)'] = Stream(s)
  BY <1>1, <1>2, NewestGrows
<1>4. Newest("mark")' = markTime' /\ Newest("mark") = markTime
  BY DEF Newest
<1>5. ASSUME NEW s \in Streams
      PROVE  \/ Newest(s)' = Newest(s)
             \/ s # "mark" /\ Newest(s)' \in held' \ held /\ log[Newest(s)'] = Stream(s)
  <2>1. CASE s = "mark"
    BY <1>4, <2>1
  <2>2. CASE s # "mark"
    <3>1. \/ Newest(s)' = Newest(s)
          \/ Newest(s)' \in held' \ held /\ log'[Newest(s)'] = Stream(s)
      BY <1>3, <2>2
    <3>2. log' = log
      OBVIOUS
    <3> QED BY <2>2, <3>1, <3>2
  <2> QED BY <2>1, <2>2
<1>6. Missing' \subseteq Missing
  BY DEF Missing
<1>7. \A e : Posted(e)' = Posted(e) /\ Saved(e)' = Saved(e)
  BY DEF Saved, Posted
<1>8. \A s \in Streams : Newest(s) <= Newest(s)' /\ Newest(s)' \in Nat
  BY <1>3
<1> QED BY <1>5, <1>6, <1>7, <1>8

\* A step that forgets the connection, or the answers given on it, or both.
LEMMA LinkStable ==
    ASSUME TypeOK, Stable, UNCHANGED <<log, durable>>,
           link' = "down", flight' = {},
           asked' = asked \/ asked' = [s \in Streams |-> 0]
    PROVE  Stable'
<1>1. /\ \A e : Newest(e)' = Newest(e) /\ Saved(e)' = Saved(e)
      /\ \A e : Resume(e)' = Resume(e) /\ Posted(e)' = Posted(e)
      /\ Missing' = Missing
  BY DEF Newest, Saved, Resume, MaxTimeStamp, Stored, Posted, Missing, durable
<1>2. \A s \in Streams : asked'[s] = asked[s] \/ asked'[s] = 0
  OBVIOUS
<1>3. \A s \in Streams : asked'[s] <= Len(log)
  BY <1>2 DEF TypeOK, Stable, Bounds
<1>4. Bounds'
  BY <1>1, <1>3 DEF Stable, Bounds
<1>5. Resumable' /\ InOrder'
  BY <1>1, <1>2 DEF Stable, Resumable, InOrder
<1>6. Coming'
  BY DEF Coming
<1> QED BY <1>4, <1>5, <1>6 DEF Stable

\* Stamping: a watermark of 0 becomes the newest row's stamp.
LEMMA StampAllSaved ==
    ASSUME TypeOK, Bounds, StampAll, UNCHANGED <<log, held, markTime>>,
           markLogin' = markLogin \/ SaveMarkTime, NEW s \in Streams
    PROVE  /\ Newest(s)' = Newest(s)
           /\ Resume(s)' = Resume(s)
           /\ Saved(s)' \in Nat /\ Saved(s)' <= Newest(s)'
           /\ Saved(s) > 0 \/ s # "mark" \/ SaveMarkTime => Saved(s)' > 0
<1>2. /\ Newest(s)' = Newest(s)
      /\ \/ Saved(s)' = IF Saved(s) = 0 THEN Newest(s) ELSE Saved(s)
         \/ s = "mark" /\ ~ SaveMarkTime /\ Saved(s)' = Saved(s)
  BY StampCursor
<1>3. Newest(s) \in Nat /\ Newest(s) > 0 /\ Saved(s) \in Nat /\ Saved(s) <= Newest(s)
  BY ResumeBounds DEF Bounds
<1> QED BY <1>2, <1>3 DEF Resume

\* dealBindMsg.
LEMMA DealBindStable ==
    ASSUME TypeOK, TypeOK', Stable, DealBind
    PROVE  Stable' /\ \A s \in Streams : Saved(s)' > 0
<1>1. /\ UNCHANGED <<log, held, markTime>> /\ StampAll /\ SaveMarkTime
      /\ flight' = {} /\ \A s \in Streams : asked'[s] = 0
  BY DEF DealBind
<1>2. ASSUME NEW s \in Streams
      PROVE  /\ Newest(s)' = Newest(s) /\ Resume(s)' = Resume(s)
             /\ Saved(s)' <= Newest(s)' /\ Saved(s)' > 0
  BY <1>1, StampAllSaved, ResumeBounds DEF Stable, StampAll
<1>3. Missing' = Missing /\ Posted("signal")' = Posted("signal")
  BY <1>1 DEF Missing, Posted
<1>4. \A u \in Missing : log[u] \in Streams
  BY MissingStream
<1>5. Bounds'
  BY <1>1, <1>2, <1>3 DEF Stable, Bounds, TypeOK
<1>6. Resumable' /\ Coming' /\ InOrder'
  BY <1>1, <1>2, <1>3, <1>4 DEF Stable, Resumable, Coming, InOrder
<1> QED BY <1>2, <1>5, <1>6 DEF Stable

\* S_UpdateTimeStamp.
LEMMA UpdateTimeStampStable ==
    ASSUME TypeOK, TypeOK', Stable, UpdateTimeStamp
    PROVE  Stable' /\ \A s \in Streams : Saved(s) > 0 => Saved(s)' > 0
<1>1. /\ UNCHANGED <<log, held, markTime, markLogin, link, flight, asked>> /\ StampAll
  BY DEF UpdateTimeStamp, network
<1>2. ASSUME NEW s \in Streams
      PROVE  /\ Newest(s)' = Newest(s) /\ Resume(s)' = Resume(s)
             /\ Saved(s)' \in Nat /\ Saved(s)' <= Newest(s)'
             /\ Saved(s) > 0 => Saved(s)' > 0
  BY <1>1, StampAllSaved DEF Stable
<1>3. Missing' = Missing /\ Posted("signal")' = Posted("signal")
  BY <1>1 DEF Missing, Posted
<1>4. \A u \in Missing : log[u] \in Streams
  BY MissingStream
<1>5. \A s \in Streams : Saved(s) \in Nat
  BY ResumeBounds DEF Stable
<1>6. Bounds'
  BY <1>1, <1>2, <1>3 DEF Stable, Bounds
<1>7. Resumable' /\ InOrder'
  BY <1>1, <1>2, <1>3, <1>4 DEF Stable, Resumable, InOrder
<1>8. Coming'
  <2>1. \A s \in Streams : Saved(s)' = 0 => Saved(s) = 0
    BY <1>2, <1>5
  <2> QED BY <1>1, <1>3, <1>4, <2>1 DEF Stable, Coming
<1> QED BY <1>2, <1>6, <1>7, <1>8 DEF Stable

\* An answer whose entries are not the newest row of anything.
LEMMA AnswerStable ==
    ASSUME TypeOK, TypeOK', Stable, NEW e \in Streams,
           UNCHANGED <<log, config, markTime, markLogin, link, flight>>,
           held \subseteq held', \A t \in held' \ held : log[t] \in {"flag", "mark"},
           asked' = [asked EXCEPT ![e] = Len(log)]
    PROVE  Stable'
<1>1. /\ Missing' \subseteq Missing /\ \A s \in Streams : Saved(s)' = Saved(s)
      /\ Posted("signal")' = Posted("signal")
  BY HeldGrows
<1>2. ASSUME NEW s \in Streams PROVE Newest(s)' = Newest(s) /\ Resume(s)' = Resume(s)
  <2>1. s # "mark" => Stream(s) \notin {"flag", "mark"}
    BY DEF Stream, Streams, Kinds
  <2>2. Newest(s)' = Newest(s)
    BY <2>1, HeldGrows
  <2> QED BY <1>1, <2>2 DEF Resume
<1>3. ASSUME NEW u \in Missing' PROVE u \in Missing /\ log[u] \in Streams /\ u \in Nat /\ u <= Len(log)
  BY <1>1, MissingStream DEF TypeOK
<1>4. \A s \in Streams : asked'[s] = asked[s] \/ asked'[s] = Len(log)
  BY DEF TypeOK
<1>5. Len(log) \in Nat /\ \A s \in Streams : asked[s] <= Len(log)
  BY DEF Stable, Bounds, TypeOK
<1>6. Bounds'
  <2>1. \A s \in Streams : asked'[s] <= Len(log')
    BY <1>4, <1>5
  <2> QED BY <1>1, <1>2, <2>1 DEF Stable, Bounds
<1>7. Resumable'
  BY <1>2, <1>3 DEF Stable, Resumable
<1>8. ASSUME NEW s \in Streams, NEW u \in Missing', u > asked'[s]
      PROVE  asked'[s] = asked[s]
  <2>1. u \in Nat /\ u <= Len(log)
    BY <1>3
  <2>2. asked'[s] # Len(log)
    BY <1>5, <1>8, <2>1
  <2> QED BY <1>4, <2>2
<1>9. Coming'
  <2> SUFFICES ASSUME link' = "bound", NEW u \in Missing'
               PROVE /\ Saved(log[u])' = 0 => u \in flight'
                     /\ \A s \in Streams : asked'[s] > 0 /\ u > asked'[s] => u \in flight'
    BY DEF Coming
  <2> QED BY <1>1, <1>3, <1>8 DEF Stable, Coming
<1>10. InOrder'
  <2> SUFFICES ASSUME NEW s \in Streams \ {"flag"}, NEW u \in Missing',
                      asked'[s] > 0, u > asked'[s], Newest(s)' > asked'[s]
               PROVE  u > Newest(s)'
    BY DEF InOrder
  <2> QED BY <1>2, <1>3, <1>8 DEF Stable, InOrder
<1> QED BY <1>6, <1>7, <1>9, <1>10 DEF Stable

\* The kind being pulled still has its watermark.
LEMMA GuardedKind ==
    ASSUME TypeOK, Guarded, pc \in {"due", "ask", "got", "end"}
    PROVE  config[kind] > 0
BY DEF TypeOK, Guarded, Kinds

\* bulkInsertMessageInfo of a page that was asked for.
LEMMA StorePageStable ==
    ASSUME Benign, TypeOK, TypeOK', Stable, Guarded, Progress, StorePage
    PROVE  Stable'
<1>1. /\ pc = "got" /\ complete /\ held' = held \union page
      /\ UNCHANGED <<log, config, markTime, markLogin, link, flight, asked>>
  BY DEF StorePage, Benign, network
<1>2. /\ kind \in Kinds /\ config[kind] > 0 /\ asked[kind] > 0
      /\ \A t \in page : log[t] = kind /\ t <= asked[kind]
  BY <1>1, GuardedKind DEF Progress, TypeOK
<1>3. /\ Missing' \subseteq Missing /\ \A s \in Streams : Saved(s)' = Saved(s)
      /\ Posted("signal")' = Posted("signal")
  BY <1>1, HeldGrows
<1>4. ASSUME NEW s \in Streams
      PROVE  /\ Newest(s) <= Newest(s)' /\ Newest(s)' \in Nat
             /\ \/ Newest(s)' = Newest(s)
                \/ s # "mark" /\ Stream(s) = kind /\ Newest(s)' \in page
  <2>1. /\ Newest(s) <= Newest(s)' /\ Newest(s)' \in Nat
        /\ \/ Newest(s)' = Newest(s)
           \/ s # "mark" /\ Newest(s)' \in held' \ held /\ log[Newest(s)'] = Stream(s)
    BY <1>1, HeldGrows
  <2> QED BY <1>1, <1>2, <2>1
<1>5. ASSUME NEW u \in Missing' PROVE u \in Missing /\ log[u] \in Streams /\ u \in Nat
  BY <1>3, MissingStream, SMTT(30) DEF TypeOK
<1>6. Bounds'
  <2> SUFFICES ASSUME NEW s \in Streams
               PROVE  /\ Newest(s)' \in 1 .. Len(log')
                      /\ Saved(s)' <= Newest(s)' /\ asked'[s] <= Len(log')
    BY <1>1, <1>3 DEF Bounds, Stable
  <2>1. /\ Newest(s) \in 1 .. Len(log) /\ Saved(s) \in Nat /\ Len(log) \in Nat
        /\ Saved(s) <= Newest(s) /\ asked[s] <= Len(log)
    BY ResumeBounds DEF Stable, Bounds
  <2>2. \A t \in page : t \in 1 .. Len(log)
    BY SMTT(30) DEF TypeOK
  <2> QED BY <1>1, <1>3, <1>4, <2>1, <2>2
<1>7. Resumable'
  <2> SUFFICES ASSUME NEW u \in Missing' PROVE u > Resume(log[u])'
    BY DEF Resumable
  <2>1. u > Resume(log[u]) /\ log[u] \in Streams /\ log'[u] = log[u]
    BY <1>1, <1>5 DEF Stable, Resumable
  <2>2. CASE Newest(log[u])' = Newest(log[u])
    BY <1>3, <2>1, <2>2 DEF Resume
  <2>3. CASE Newest(log[u])' # Newest(log[u])
    <3>1. Saved(log[u]) = config[kind]
      BY <1>4, <2>1, <2>3 DEF Saved
    <3> QED BY <1>2, <1>3, <2>1, <3>1 DEF Resume
  <2> QED BY <2>2, <2>3
<1>8. Coming'
  BY <1>1, <1>3, <1>5 DEF Stable, Coming
<1>9. InOrder'
  <2> SUFFICES ASSUME NEW s \in Streams \ {"flag"}, NEW u \in Missing',
                      asked'[s] > 0, u > asked'[s], Newest(s)' > asked'[s]
               PROVE  u > Newest(s)'
    BY DEF InOrder
  <2>1. s # "mark" => Stream(s) = s
    BY DEF Stream
  <2>2. Newest(s)' = Newest(s)
    <3> SUFFICES ASSUME Newest(s)' # Newest(s) PROVE FALSE
      OBVIOUS
    <3>1. s = kind /\ Newest(s)' \in page
      BY <1>4, <2>1
    <3> QED BY <1>1, <1>2, <1>4, <3>1 DEF TypeOK
  <2> QED BY <1>1, <1>5, <2>2 DEF Stable, InOrder
<1> QED BY <1>6, <1>7, <1>8, <1>9 DEF Stable

\* A watermark is dropped after what it guards was stored: what is missing
\* then came after the last answer, hence after every entry that came live.
LEMMA ResetStable ==
    ASSUME TypeOK, TypeOK', Stable, NEW e \in Streams \ {"flag"},
           UNCHANGED <<log, held, markTime, link, flight, asked>>,
           NEW D, D = IF e = "chat" THEN {"chat", "flag"} ELSE {e},
           \A d \in D : Covered(d) /\ asked[e] <= asked[d],
           \A s \in Streams : Saved(s)' = IF s \in D THEN 0 ELSE Saved(s)
    PROVE  Stable'
<1>1. /\ \A s \in Streams : Newest(s)' = Newest(s)
      /\ Missing' = Missing /\ Posted("signal")' = Posted("signal")
  BY DEF Newest, MaxTimeStamp, Stored, Missing, Posted
<1>2. \A s \in Streams : /\ Newest(s) \in 1 .. Len(log) /\ Saved(s) \in Nat
                         /\ Len(log) \in Nat /\ asked[s] \in Nat /\ Saved(s) <= Newest(s)
  BY ResumeBounds DEF Stable, Bounds
<1>3. \A u \in Missing : log[u] \in Streams /\ u \in Nat
  BY MissingStream
<1>4. ASSUME NEW u \in Missing, log[u] \in D
      PROVE  u > asked[e] /\ asked[e] > 0 /\ u > Newest(log[u])
  <2>1. u > asked[e] /\ asked[e] > 0
    BY <1>2, <1>3, <1>4, SMTT(30) DEF Covered, Streams, Kinds
  <2>2. Newest(log[u]) = Newest(e)
    BY <1>4 DEF Newest, Stream
  <2> QED BY <1>2, <1>3, <2>1, <2>2 DEF Stable, InOrder
<1>5. Bounds'
  <2>1. \A s \in Streams : Saved(s)' <= Newest(s)'
    BY <1>1, <1>2
  <2> QED BY <1>1, <2>1 DEF Stable, Bounds
<1>6. Resumable'
  <2> SUFFICES ASSUME NEW u \in Missing PROVE u > Resume(log[u])'
    BY <1>1 DEF Resumable
  <2>1. CASE log[u] \in D
    BY <1>1, <1>3, <1>4, <2>1 DEF Resume
  <2>2. CASE log[u] \notin D
    BY <1>1, <1>3, <2>2 DEF Resume, Stable, Resumable
  <2> QED BY <2>1, <2>2
<1>7. Coming'
  <2> SUFFICES ASSUME link = "bound", NEW u \in Missing
               PROVE /\ Saved(log[u])' = 0 => u \in flight
                     /\ \A s \in Streams : asked[s] > 0 /\ u > asked[s] => u \in flight
    BY <1>1 DEF Coming
  <2> QED BY <1>3, <1>4 DEF Stable, Coming
<1>8. InOrder'
  BY <1>1 DEF Stable, InOrder
<1> QED BY <1>5, <1>6, <1>7, <1>8 DEF Stable

\* What is covered stays covered while the log and the database only grow.
LEMMA CoveredKept ==
    ASSUME TypeOK, TypeOK', Bounds, NEW e \in Streams, Covered(e), asked'[e] = asked[e],
           held \subseteq held', \A t \in DOMAIN log : log'[t] = log[t]
    PROVE  Covered(e)'
<1>1. asked[e] \in Nat /\ Len(log) \in Nat /\ asked[e] <= Len(log) /\ DOMAIN log = 1 .. Len(log)
  BY DEF Bounds, TypeOK
<1>2. ASSUME NEW u \in Missing', log'[u] = e PROVE u > asked[e]
  <2>1. u \in Nat \ {0} /\ u \notin held
    BY SMTT(30) DEF Missing, TypeOK
  <2>2. CASE u \in DOMAIN log
    BY <1>2, <2>1, <2>2 DEF Covered, Missing
  <2>3. CASE u \notin DOMAIN log
    BY <1>1, <2>1, <2>3
  <2> QED BY <2>2, <2>3
<1> QED BY <1>2 DEF Covered

\* Steps of the server, the network and LogicBase leave the thread where it is.
LEMMA LoopFrame ==
    ASSUME IInv, TypeOK', UNCHANGED <<pc, loop, asked>>,
           \A k \in Kinds : config[k] > 0 => config'[k] > 0,
           Len(log) <= Len(log'), held \subseteq held', \A t \in DOMAIN log : log'[t] = log[t]
    PROVE  Guarded' /\ Progress'
<1>1. Guarded'
  BY DEF IInv, Guarded, loop, Kinds
<1>2. /\ kind \in Streams /\ Len(log) \in Nat /\ Len(log') \in Nat /\ DOMAIN log = 1 .. Len(log)
      /\ cursor \in Nat /\ page \subseteq 1 .. Len(log) /\ TypeOK /\ Bounds /\ Progress
      /\ UNCHANGED <<kind, cursor, retry, complete, page>>
  <2>1. TypeOK /\ Bounds /\ Progress
    BY DEF IInv
  <2>2. UNCHANGED <<kind, cursor, retry, complete, page>>
    BY DEF loop
  <2>3. kind \in Kinds /\ cursor \in Nat /\ page \subseteq DOMAIN log /\ log \in Seq(Entries)
    BY <2>1 DEF TypeOK
  <2>4. Len(log') \in Nat
    BY DEF TypeOK
  <2>5. kind \in Streams
    BY <2>3 DEF Streams
  <2> QED BY <2>1, <2>2, <2>3, <2>4, <2>5
<1>3. \A e \in Streams : Covered(e) => Covered(e)'
  BY <1>2, CoveredKept
<1>4. ASSUME pc \in {"ask", "got"}, NEW u \in Missing', log'[u] = kind
      PROVE  u > cursor
  <2>1. u \in Nat \ {0} /\ u \notin held
    BY DEF Missing, TypeOK
  <2>2. CASE u \in DOMAIN log
    BY <1>2, <1>4, <2>1, <2>2 DEF Progress, Missing
  <2>3. CASE u \notin DOMAIN log
    BY <1>2, <1>4, <2>1, <2>3 DEF Progress
  <2> QED BY <2>2, <2>3
<1>5. ASSUME pc = "got", complete, NEW t \in page
      PROVE  /\ log'[t] = kind /\ t <= asked[kind]
             /\ \A u \in Posted(kind)' : cursor < u /\ u < t => u \in page
  <2>1. /\ log[t] = kind /\ t <= asked[kind] /\ t \in 1 .. Len(log)
        /\ \A u \in Posted(kind) : cursor < u /\ u < t => u \in page
    BY <1>2, <1>5 DEF Progress
  <2>2. \A u \in Posted(kind)' : u < t => u \in Posted(kind)
    BY <1>2, <2>1 DEF Posted, TypeOK
  <2> QED BY <1>2, <2>1, <2>2
<1>6. kind \in Streams /\ "chat" \in Streams /\ "flag" \in Streams /\ "mark" \in Streams
  BY <1>2 DEF Streams, Kinds
<1>7. Progress'
  <2>1. pc' \in {"ask", "got"} =>
            cursor' <= Len(log') /\ \A u \in Missing' : log'[u] = kind' => u > cursor'
    BY <1>2, <1>4 DEF Progress
  <2>2. pc' = "got" /\ complete' =>
          /\ asked'[kind'] > 0
          /\ \A t \in page' : /\ log'[t] = kind' /\ t <= asked'[kind']
                              /\ \A u \in Posted(kind)' : cursor' < u /\ u < t => u \in page'
          /\ page' = {} => Covered(kind)'
    BY <1>2, <1>3, <1>5 DEF Progress
  <2>3. /\ pc' = "end" /\ Succeeded' => Covered(kind)'
        /\ pc' \in {"flags", "flagged"} => Covered("chat")'
        /\ pc' = "flagged" => Covered("flag")' /\ asked'["flag"] >= asked'["chat"]
        /\ pc' = "marked" => Covered("mark")'
    BY <1>2, <1>3, <1>6 DEF Progress, Succeeded
  <2> QED BY <1>2, <2>1, <2>2, <2>3 DEF Progress
<1> QED BY <1>1, <1>7

\* The reply to a page request: a prefix of what is newer than the cursor, so
\* that an empty page, or one whose last entry is stored, leaves nothing behind.
LEMMA PageArrivesProgress ==
    ASSUME Benign, IInv, TypeOK', PageArrives
    PROVE  Guarded' /\ Progress'
<1>1. /\ pc = "ask" /\ pc' = "got" /\ TypeOK /\ Bounds /\ Progress /\ Guarded
      /\ UNCHANGED <<log, held, config, markTime, markLogin, kind, cursor, retry>>
      /\ asked' = [asked EXCEPT ![kind] = Len(log)]
  BY DEF PageArrives, IInv, durable
<1>2. PICK p \in SUBSET Newer(kind, cursor) :
         IsPage(p, kind, cursor) /\ page' = {t \in p : log[t] = kind}
  BY DEF PageArrives
<1>3. /\ kind \in Kinds /\ kind \in Streams /\ kind # "signal" /\ Len(log) \in Nat
      /\ asked'[kind] = Len(log) /\ cursor \in Nat
      /\ Newest(kind) \in 1 .. Len(log)
  BY <1>1, ResumeBounds DEF TypeOK, Kinds, Streams
<1>4. Newer(kind, cursor) \subseteq Nat /\ \A t \in Newer(kind, cursor) : t <= Len(log)
  BY <1>1 DEF Newer, Posted, TypeOK
<1>5. \A t \in page' : /\ log[t] = kind /\ t <= asked'[kind]
                       /\ \A u \in Posted(kind) : cursor < u /\ u < t => u \in page'
  BY <1>2, <1>3, <1>4 DEF IsPage, Newer, Posted
<1>6. ASSUME page' = {} PROVE \A u \in Posted(kind) : ~ (u > cursor)
  <2>1. p \subseteq Posted("signal")
    BY <1>2, <1>6 DEF Newer, Posted
  <2>2. Cardinality(p) # PageSize
    <3>1. IsFiniteSet(Posted("signal")) /\ Cardinality(Posted("signal")) <= SignalLimit
      BY <1>1 DEF Bounds
    <3>2. IsFiniteSet(p) /\ Cardinality(p) <= Cardinality(Posted("signal"))
      BY <2>1, <3>1, FS_Subset
    <3>3. Cardinality(p) \in Nat /\ Cardinality(Posted("signal")) \in Nat
      BY <3>1, <3>2, FS_CardinalityType
    <3> QED BY <3>1, <3>2, <3>3, SizeAssumption DEF Benign
  <2>3. p = Newer(kind, cursor)
    BY <1>2, <2>2 DEF IsPage
  <2> QED BY <1>3, <2>1, <2>3 DEF Newer, Posted
<1>7. page' = {} => Covered(kind)'
  <2>1. \A u \in Missing' : log'[u] = kind => u > cursor
    BY <1>1 DEF Progress, Missing
  <2>2. \A u \in Missing' : log'[u] = kind => u \in Posted(kind)
    BY <1>1 DEF Missing, Posted
  <2> QED BY <1>1, <1>3, <1>6, <2>1, <2>2 DEF Covered
<1>8. Missing' = Missing /\ Posted(kind)' = Posted(kind) /\ Len(log') = Len(log)
  BY <1>1 DEF Missing, Posted
<1>9. Progress'
  BY <1>1, <1>3, <1>5, <1>7, <1>8 DEF Progress
<1>10. Guarded'
  BY <1>1 DEF Guarded
<1> QED BY <1>9, <1>10

\* The steps of the pull loops.
LEMMA PullIInv ==
    ASSUME Benign, IInv, TypeOK', Pull
    PROVE  IInv'
<1> USE DEF IInv
<1>1. kind \in Streams /\ kind \in Kinds
  BY DEF TypeOK, Streams, Kinds
<1>2. CASE StartPull
  <2>1. /\ UNCHANGED <<log, durable, link, flight, asked, held, config, kind>>
        /\ pc = "due" /\ pc' = "ask" /\ cursor' = TimeStamp(kind)
    BY <1>2 DEF StartPull, network, durable
  <2>2. config[kind] > 0
    BY <2>1, GuardedKind
  <2>3. kind # "mark" /\ Stream(kind) = kind
    BY <1>1 DEF Stream, Kinds
  <2>4. cursor' = Resume(kind) /\ Resume(kind) \in 1 .. Len(log)
    BY <1>1, <2>1, <2>2, <2>3, ResumeBounds DEF TimeStamp, Resume, Saved
  <2>5. \A u \in Missing' : u \in Missing /\ log'[u] = log[u]
    BY <2>1 DEF Missing
  <2>6. \A u \in Missing' : log'[u] = kind => u > cursor'
    BY <2>4, <2>5 DEF Resumable
  <2>7. cursor' <= Len(log')
    BY <2>1, <2>4 DEF TypeOK
  <2>8. Progress'
    BY <2>1, <2>6, <2>7 DEF Progress
  <2>9. Guarded'
    BY <2>1 DEF Guarded
  <2>10. Stable'
    BY <2>1, StableFrame DEF Stable
  <2> QED BY <2>8, <2>9, <2>10 DEF Stable
<1>3. CASE PageArrives
  <2>1. Stable'
    BY <1>1, <1>3, AnswerStable DEF PageArrives, Stable, durable, network
  <2> QED BY <1>3, <2>1, PageArrivesProgress DEF Stable
<1>4. CASE PullRefused
  <2>1. /\ UNCHANGED <<log, durable, link, flight, asked, held, config, kind, cursor>>
        /\ pc = "ask" /\ pc' = "got" /\ ~ complete'
    BY <1>4 DEF PullRefused, network, durable
  <2>2. Progress' /\ Guarded'
    BY <2>1 DEF Progress, Guarded, Missing
  <2>3. Stable'
    BY <2>1, StableFrame DEF Stable
  <2> QED BY <2>2, <2>3 DEF Stable
<1>5. CASE PullGarbled
  BY <1>5 DEF PullGarbled, Benign
<1>6. CASE StorePage
  <2>1. /\ pc = "got" /\ complete /\ pc' = "ask" /\ held' = held \union page
        /\ UNCHANGED <<log, config, asked, kind>>
    BY <1>6 DEF StorePage, Benign
  <2>2. PICK last \in page : (\A t \in page : t <= last) /\ cursor' = last
    BY <1>6 DEF StorePage, AdvanceTo
  <2>3. /\ last \in Nat /\ last <= Len(log) /\ asked[kind] > 0
        /\ \A u \in Posted(kind) : cursor < u /\ u < last => u \in page
        /\ \A u \in Missing : log[u] = kind => u > cursor
    BY <2>1, <2>2 DEF Progress, TypeOK
  <2>4. ASSUME NEW u \in Missing', log'[u] = kind PROVE u > last
    <3>1. u \in Missing /\ u \in Posted(kind) /\ u \notin page /\ u \in Nat
      BY <2>1, <2>4 DEF Missing, Posted, TypeOK
    <3> QED BY <2>1, <2>2, <2>3, <2>4, <3>1
  <2>5. Progress'
    BY <2>1, <2>2, <2>3, <2>4 DEF Progress
  <2>6. Guarded'
    BY <2>1 DEF Guarded
  <2>7. Stable'
    BY <1>6, StorePageStable DEF Stable
  <2> QED BY <2>5, <2>6, <2>7 DEF Stable
<1>7. CASE Drained
  <2>1. /\ UNCHANGED <<log, durable, link, flight, asked, held, config, kind, retry>>
        /\ pc = "got" /\ complete /\ page = {} /\ pc' = "end"
    BY <1>7 DEF Drained, network, durable, loop
  <2>2. Covered(kind)'
    BY <1>1, <2>1, CoveredKept DEF Progress
  <2>3. Progress' /\ Guarded'
    BY <2>1, <2>2 DEF Progress, Guarded
  <2>4. Stable'
    BY <2>1, StableFrame DEF Stable
  <2> QED BY <2>3, <2>4 DEF Stable
<1>8. CASE Retry
  <2>1. /\ UNCHANGED <<log, durable, link, flight, asked, held, config, kind, cursor>>
        /\ pc = "got" /\ pc' = "ask"
    BY <1>8 DEF Retry, network, durable
  <2>2. Progress' /\ Guarded'
    BY <2>1 DEF Progress, Guarded, Missing
  <2>3. Stable'
    BY <2>1, StableFrame DEF Stable
  <2> QED BY <2>2, <2>3 DEF Stable
<1>9. CASE GiveUp
  <2>1. /\ UNCHANGED <<log, durable, link, flight, asked, held, config, kind, retry>>
        /\ pc = "got" /\ pc' = "end" /\ ~ (retry >= 0)
    BY <1>9 DEF GiveUp, MayRetry, network, durable, loop
  <2>2. Progress' /\ Guarded'
    BY <2>1 DEF Progress, Guarded, Succeeded
  <2>3. Stable'
    BY <2>1, StableFrame DEF Stable
  <2> QED BY <2>2, <2>3 DEF Stable
<1>10. CASE HistoryError
  <2>1. /\ UNCHANGED <<log, durable, link, flight, asked>> /\ pc' = "failed"
    BY <1>10 DEF HistoryError, network
  <2>2. Progress' /\ Guarded'
    BY <2>1 DEF Progress, Guarded
  <2>3. Stable'
    BY <2>1, StableFrame DEF Stable
  <2> QED BY <2>2, <2>3 DEF Stable
<1>11. CASE EndChat
  <2>1. /\ UNCHANGED <<log, durable, link, flight, asked, held, config, kind>>
        /\ pc = "end" /\ Succeeded /\ kind = "chat" /\ pc' = "flags"
    BY <1>11 DEF EndChat, network, durable
  <2>2. Covered("chat")'
    BY <1>1, <2>1, CoveredKept DEF Progress
  <2>3. Progress' /\ Guarded'
    BY <2>1, <2>2 DEF Progress, Guarded
  <2>4. Stable'
    BY <2>1, StableFrame DEF Stable
  <2> QED BY <2>3, <2>4 DEF Stable
<1>12. CASE EndGroup
  <2>1. /\ UNCHANGED <<log, held, markTime, markLogin, link, flight, asked, kind>>
        /\ pc = "end" /\ Succeeded /\ kind = "group" /\ pc' = "marks"
        /\ config' = [config EXCEPT !["group"] = 0]
    BY <1>12 DEF EndGroup, network
  <2>2. \A d \in {"group"} : Covered(d) /\ asked["group"] <= asked[d]
    BY <1>1, <2>1 DEF Progress, TypeOK
  <2>3. \A s \in Streams : Saved(s)' = IF s \in {"group"} THEN 0 ELSE Saved(s)
    BY <2>1 DEF Saved, Stream, Streams, Kinds, TypeOK
  <2>4. Stable'
    BY <1>1, <2>1, <2>2, <2>3, ResetStable DEF Stable
  <2>5. Progress' /\ Guarded'
    BY <2>1 DEF Progress, Guarded, TypeOK, Kinds
  <2> QED BY <2>4, <2>5 DEF Stable
<1>13. CASE EndNotice
  <2>1. /\ UNCHANGED <<log, held, markTime, markLogin, link, flight, asked>>
        /\ pc = "end" /\ Succeeded /\ kind = "notice" /\ pc' = "idle"
        /\ config' = [config EXCEPT !["notice"] = 0]
    BY <1>13 DEF EndNotice, network
  <2>2. \A d \in {"notice"} : Covered(d) /\ asked["notice"] <= asked[d]
    BY <1>1, <2>1 DEF Progress, TypeOK
  <2>3. \A s \in Streams : Saved(s)' = IF s \in {"notice"} THEN 0 ELSE Saved(s)
    BY <2>1 DEF Saved, Stream, Streams, Kinds, TypeOK
  <2>4. Stable'
    BY <1>1, <2>1, <2>2, <2>3, ResetStable DEF Stable
  <2>5. Progress' /\ Guarded'
    BY <2>1 DEF Progress, Guarded
  <2> QED BY <2>4, <2>5 DEF Stable
<1> QED
  BY <1>2, <1>3, <1>4, <1>5, <1>6, <1>7, <1>8, <1>9, <1>10, <1>11, <1>12, <1>13 DEF Pull

\* The steps of updateChatMasks and updateGroupMasks.
LEMMA MasksIInv ==
    ASSUME Benign, IInv, TypeOK', Masks
    PROVE  IInv'
<1> USE DEF IInv
<1>1. {"chat", "flag", "mark"} \subseteq Streams /\ "chat" \in Streams /\ "flag" \in Streams /\ "mark" \in Streams
  BY DEF Streams, Kinds
<1>2. CASE FlagsArrive
  <2>1. /\ UNCHANGED <<log, config, markTime, markLogin, link, flight, kind>>
        /\ held' = held \union {t \in Posted("flag") : t > TimeStamp("chat")}
        /\ pc = "flags" /\ pc' = "flagged"
        /\ asked' = [asked EXCEPT !["flag"] = Len(log)]
    BY <1>2 DEF FlagsArrive, FlagsSince, network, loop
  <2>2. held \subseteq held' /\ \A t \in held' \ held : log[t] \in {"flag", "mark"}
    BY <2>1 DEF Posted
  <2>3. Stable'
    BY <1>1, <2>1, <2>2, AnswerStable DEF Stable
  <2>4. TimeStamp("chat") = config["chat"] /\ config["chat"] > 0
    BY <2>1 DEF Guarded, TimeStamp
  <2>5. Resume("flag") = config["chat"]
    BY <2>4 DEF Resume, Saved, Stream
  <2>6. \A u \in Missing' : log'[u] # "flag"
    BY <2>1, <2>4, <2>5 DEF Missing, Resumable, Posted
  <2>7. /\ asked'["flag"] = Len(log) /\ asked'["chat"] = asked["chat"] /\ Len(log) > 0
        /\ asked["chat"] <= Len(log) /\ Len(log) \in Nat /\ asked["chat"] \in Nat
    BY <1>1, <2>1, ResumeBounds DEF Bounds, TypeOK
  <2>8. Covered("flag")' /\ asked'["flag"] >= asked'["chat"]
    BY <2>6, <2>7 DEF Covered
  <2>9. Covered("chat")'
    BY <1>1, <2>1, <2>2, <2>7, CoveredKept DEF Progress
  <2>10. Progress' /\ Guarded'
    BY <2>1, <2>8, <2>9 DEF Progress, Guarded
  <2> QED BY <2>3, <2>10 DEF Stable
<1>3. CASE FlagsDenied
  BY <1>3 DEF FlagsDenied, Benign
<1>4. CASE FlagsRefused
  <2>1. /\ UNCHANGED <<log, durable, link, flight, asked, config>>
        /\ pc = "flags" /\ pc' = "due" /\ kind' = "group"
    BY <1>4 DEF FlagsRefused, network, durable
  <2>2. Progress' /\ Guarded'
    BY <2>1 DEF Progress, Guarded
  <2>3. Stable'
    BY <2>1, StableFrame DEF Stable
  <2> QED BY <2>2, <2>3 DEF Stable
<1>5. CASE ResetChat
  <2>1. /\ UNCHANGED <<log, held, markTime, markLogin, link, flight, asked>>
        /\ pc = "flagged" /\ pc' = "due" /\ kind' = "group"
        /\ config' = [config EXCEPT !["chat"] = 0]
    BY <1>5 DEF ResetChat, network
  <2>2. \A d \in {"chat", "flag"} : Covered(d) /\ asked["chat"] <= asked[d]
    BY <1>1, <2>1, SMTT(30) DEF Progress, TypeOK
  <2>3. \A s \in Streams : Saved(s)' = IF s \in {"chat", "flag"} THEN 0 ELSE Saved(s)
    BY <2>1 DEF Saved, Stream, Streams, Kinds, TypeOK
  <2>4. Stable'
    BY <1>1, <2>1, <2>2, <2>3, ResetStable DEF Stable
  <2>5. Progress' /\ Guarded'
    BY <2>1 DEF Progress, Guarded, TypeOK, Kinds
  <2> QED BY <2>4, <2>5 DEF Stable
<1>6. CASE MarksArrive
  <2>1. /\ UNCHANGED <<log, config, markTime, markLogin, link, flight, kind>>
        /\ held' = held \union {t \in Posted("mark") : t > markLogin}
        /\ pc = "marks" /\ pc' = "marked"
        /\ asked' = [asked EXCEPT !["mark"] = Len(log)]
    BY <1>6 DEF MarksArrive, MarksSince, network, loop
  <2>2. held \subseteq held' /\ \A t \in held' \ held : log[t] \in {"flag", "mark"}
    BY <2>1 DEF Posted
  <2>3. Stable'
    BY <1>1, <2>1, <2>2, AnswerStable DEF Stable
  <2>4. markLogin = 0 \/ Resume("mark") = markLogin
    BY DEF Resume, Saved, TypeOK
  <2>5. \A u \in Missing' : log'[u] # "mark"
    BY <2>1, <2>4 DEF Missing, Resumable, Posted, TypeOK
  <2>6. asked'["mark"] = Len(log) /\ Len(log) > 0
    BY <1>1, <2>1, ResumeBounds, SMTT(30) DEF TypeOK
  <2>7. Covered("mark")'
    BY <2>5, <2>6 DEF Covered
  <2>8. Progress' /\ Guarded'
    BY <2>1, <2>7 DEF Progress, Guarded
  <2> QED BY <2>3, <2>8 DEF Stable
<1>7. CASE MarksRefused
  BY <1>7 DEF MarksRefused, Benign
<1>8. CASE MarksRolledBack
  <2>1. /\ UNCHANGED <<log, durable, link, flight, asked, config>>
        /\ pc = "marks" /\ pc' = "due" /\ kind' = "notice"
    BY <1>8 DEF MarksRolledBack, network, durable
  <2>2. Progress' /\ Guarded'
    BY <2>1 DEF Progress, Guarded
  <2>3. Stable'
    BY <2>1, StableFrame DEF Stable
  <2> QED BY <2>2, <2>3 DEF Stable
<1>9. CASE ResetMarks
  <2>1. /\ UNCHANGED <<log, held, config, markTime, link, flight, asked>>
        /\ pc = "marked" /\ pc' = "due" /\ kind' = "notice" /\ markLogin' = 0
    BY <1>9 DEF ResetMarks, network
  <2>2. \A d \in {"mark"} : Covered(d) /\ asked["mark"] <= asked[d]
    BY <1>1, <2>1 DEF Progress, TypeOK
  <2>3. \A s \in Streams : Saved(s)' = IF s \in {"mark"} THEN 0 ELSE Saved(s)
    BY <2>1 DEF Saved
  <2>4. Stable'
    BY <1>1, <2>1, <2>2, <2>3, ResetStable DEF Stable
  <2>5. Progress' /\ Guarded'
    BY <2>1 DEF Progress, Guarded
  <2> QED BY <2>4, <2>5 DEF Stable
<1> QED
  BY <1>2, <1>3, <1>4, <1>5, <1>6, <1>7, <1>8, <1>9 DEF Masks

\* Every step keeps the invariant.
LEMMA NextIInv == Benign /\ IInv /\ [Next]_vars => IInv'
<1> SUFFICES ASSUME Benign, IInv, [Next]_vars PROVE IInv'
  OBVIOUS
<1>1. TypeOK'
  BY NextTypeOK DEF IInv
<1>2. TypeOK /\ Stable
  BY DEF IInv, Stable
<1>3. ASSUME NEW e \in Traffic, Post(e) PROVE IInv'
  <2>1. /\ UNCHANGED <<pc, loop, asked, held, config>> /\ log' = Append(log, e)
        /\ log \in Seq(Entries) /\ e \in Entries
    BY <1>2, <1>3, LogAssumption DEF Post, durable, TypeOK
  <2>2. Len(log) <= Len(log') /\ \A t \in DOMAIN log : log'[t] = log[t]
    BY <2>1
  <2>3. Guarded' /\ Progress'
    BY <1>1, <2>1, <2>2, LoopFrame
  <2> QED BY <1>1, <1>2, <1>3, <2>3, PostStable DEF IInv, Stable
<1>4. CASE Deliver
  <2>1. /\ UNCHANGED <<pc, loop, asked, log, config>> /\ held \subseteq held'
    BY <1>4 DEF Deliver
  <2>2. Guarded' /\ Progress'
    BY <1>1, <1>2, <2>1, LoopFrame DEF TypeOK
  <2> QED BY <1>1, <1>2, <1>4, <2>2, DeliverStable DEF IInv, Stable
<1>5. CASE LoseLink
  <2>1. /\ UNCHANGED <<pc, loop, asked, log, durable, held, config>> /\ link' = "down" /\ flight' = {}
    BY <1>5 DEF LoseLink, durable
  <2>2. Guarded' /\ Progress'
    BY <1>1, <1>2, <2>1, LoopFrame DEF TypeOK
  <2>3. Stable'
    BY <1>2, <2>1, LinkStable
  <2> QED BY <1>1, <2>2, <2>3 DEF IInv, Stable
<1>6. CASE Crash \/ Restart
  <2>1. /\ UNCHANGED <<log, durable>> /\ link' = "down" /\ flight' = {}
        /\ pc' = "idle" /\ asked' = [s \in Streams |-> 0]
    BY <1>6 DEF Crash, Restart, Stop
  <2>2. Guarded' /\ Progress'
    BY <2>1 DEF Guarded, Progress
  <2>3. Stable'
    BY <1>2, <2>1, LinkStable
  <2> QED BY <1>1, <2>2, <2>3 DEF IInv, Stable
<1>7. CASE Start
  <2>1. UNCHANGED <<pc, loop, asked, log, durable, held, config, link, flight>>
    BY <1>7 DEF Start, durable
  <2>2. Guarded' /\ Progress'
    BY <1>1, <1>2, <2>1, LoopFrame DEF TypeOK
  <2>3. Stable'
    BY <1>2, <2>1, StableFrame
  <2> QED BY <1>1, <2>2, <2>3 DEF IInv, Stable
<1>8. CASE DealBind
  <2>1. Stable' /\ \A s \in Streams : Saved(s)' > 0
    BY <1>1, <1>2, <1>8, DealBindStable
  <2>2. \A k \in Kinds : k \in Streams /\ Saved(k)' = config'[k]
    BY DEF Saved, Stream, Streams, Kinds
  <2>3. pc' = "due" /\ \A k \in Kinds : config'[k] > 0
    BY <1>8, <2>1, <2>2 DEF DealBind
  <2>4. Guarded' /\ Progress'
    BY <2>3 DEF Guarded, Progress, Kinds
  <2> QED BY <1>1, <2>1, <2>4 DEF IInv, Stable
<1>9. CASE UpdateTimeStamp
  <2>1. Stable' /\ \A s \in Streams : Saved(s) > 0 => Saved(s)' > 0
    BY <1>1, <1>2, <1>9, UpdateTimeStampStable
  <2>2. \A k \in Kinds : k \in Streams /\ Saved(k)' = config'[k] /\ Saved(k) = config[k]
    BY DEF Saved, Stream, Streams, Kinds
  <2>3. UNCHANGED <<pc, loop, asked, log, held>>
    BY <1>9 DEF UpdateTimeStamp
  <2>4. \A k \in Kinds : config[k] > 0 => config'[k] > 0
    BY <2>1, <2>2
  <2>5. Guarded' /\ Progress'
    BY <1>1, <1>2, <2>3, <2>4, LoopFrame DEF TypeOK
  <2> QED BY <1>1, <2>1, <2>5 DEF IInv, Stable
<1>10. CASE Pull
  BY <1>1, <1>10, PullIInv
<1>11. CASE Masks
  BY <1>1, <1>11, MasksIInv
<1>12. CASE UNCHANGED vars
  <2>1. UNCHANGED <<pc, loop, asked, log, durable, held, config, link, flight>>
    BY <1>12 DEF vars, durable, network
  <2>2. Guarded' /\ Progress'
    BY <1>1, <1>2, <2>1, LoopFrame DEF TypeOK
  <2>3. Stable'
    BY <1>2, <2>1, StableFrame
  <2> QED BY <1>1, <2>2, <2>3 DEF IInv, Stable
<1> QED
  BY <1>3, <1>4, <1>5, <1>6, <1>7, <1>8, <1>9, <1>10, <1>11, <1>12, NoRemoval DEF Next

\* The invariant holds in every reachable state.
LEMMA Invariance == ASSUME Benign PROVE Spec => []IInv
<1>1. Init => IInv
  BY InitIInv
<1>2. IInv /\ [Next]_vars => IInv'
  BY NextIInv
<1> QED BY <1>1, <1>2, PTL DEF Spec

\* Whatever the moment the program dies at, the next login asks for every
\* entry the database lacks (updateTimeStamp and the pull loops).
THEOREM NothingSkipped == ASSUME Benign PROVE Spec => []NoGap
<1>1. IInv => NoGap
  BY DEF IInv, Resumable, NoGap
<1> QED BY <1>1, Invariance, PTL

----------------------------------------------------------------------------
(* The synchronisation implements the cursors of Mirror.                   *)

\* The initial states, and every step, are steps of the cursor replica.
LEMMA MirrorsInit == Benign /\ Init => M!Init
<1> SUFFICES ASSUME Benign, Init PROVE M!Init
  OBVIOUS
<1>1. IInv
  BY InitIInv
<1>2. log \in Seq(Entries) /\ held \subseteq DOMAIN log
  BY <1>1 DEF IInv, TypeOK
<1>3. Cursors \in [Streams -> Nat]
  BY <1>1, ResumeBounds DEF IInv, Cursors
<1>4. M!Recoverable
  BY <1>1 DEF M!Recoverable, M!Wanted, IInv, Resumable, Missing, Cursors, Streams, Kinds
<1> QED BY <1>2, <1>3, <1>4 DEF M!Init

LEMMA MirrorsNext == Benign /\ IInv /\ IInv' /\ [Next]_vars => [M!Next]_(M!vars)
<1> SUFFICES ASSUME Benign, IInv, IInv', [Next]_vars PROVE M!Next
  BY DEF M!vars
<1>1. CASE \E e \in Traffic : Post(e)
  <2>1. PICK e \in Traffic : Post(e)
    BY <1>1
  <2>2. \A s \in Streams : Resume(s)' = Resume(s)
    BY <2>1, PostCursors DEF IInv
  <2>3. Cursors' = Cursors
    BY <2>2 DEF Cursors
  <2>4. log' = Append(log, e) /\ log \in Seq(Entries) /\ e \in Entries /\ held' = held
    BY <2>1, LogAssumption DEF Post, durable, IInv, TypeOK
  <2>5. M!Log
    BY <2>3, <2>4 DEF M!Log
  <2> QED BY <2>5 DEF M!Next
<1>2. CASE \A e \in Traffic : ~ Post(e)
  <2>1. /\ held \subseteq held' /\ log' = log
        /\ \A s \in Streams : Resume(s) <= Resume(s)'
    <3>1. TypeOK /\ TypeOK' /\ Ordered /\ \A s \in Streams : Saved(s) <= Newest(s)
      BY BoundsOrdered DEF IInv, Bounds
    <3>2. /\ held \subseteq held' /\ log' = log
          /\ \A s \in Streams : Moves(s)
      BY <1>2, <3>1, NoRemoval, CursorSteps
    <3> QED BY <3>1, <3>2, CursorForward
  <2>2. Cursors' \in [Streams -> Nat]
    <3>1. ASSUME NEW s \in Streams PROVE Resume(s)' \in Nat
      <4>1. Newest(s)' \in Nat
        BY DEF IInv, Bounds
      <4>2. Saved(s)' \in Nat
        BY DEF IInv, TypeOK, Saved, Stream, Streams, Kinds
      <4> QED BY <4>1, <4>2 DEF Resume
    <3> QED BY <3>1 DEF Cursors
  <2>3. \A s \in Streams : Cursors'[s] >= Cursors[s]
    <3>1. \A s \in Streams : Cursors'[s] = Resume(s)' /\ Cursors[s] = Resume(s)
      BY DEF Cursors
    <3>2. \A s \in Streams : Resume(s) \in Nat /\ Resume(s)' \in Nat
      BY <2>2, <3>1, ResumeBounds DEF IInv
    <3> QED BY <2>1, <3>1, <3>2
  <2>4. M!Recoverable'
    BY DEF M!Recoverable, M!Wanted, IInv, Resumable, Missing, Cursors, Streams, Kinds
  <2>5. held' \subseteq DOMAIN log'
    BY DEF IInv, TypeOK
  <2>6. M!Copy
    BY <2>1, <2>2, <2>3, <2>4, <2>5 DEF M!Copy
  <2> QED BY <2>6 DEF M!Next
<1> QED BY <1>1, <1>2

\* The login sequence, with its failures, crashes and restarts, implements a
\* replica that never forgets what it lacks and never starts over.
THEOREM Refinement == ASSUME Benign PROVE Spec => Mirrors
<1>1. Init => M!Init
  BY MirrorsInit
<1>2. IInv /\ IInv' /\ [Next]_vars => [M!Next]_(M!vars)
  BY MirrorsNext
<1> QED BY <1>1, <1>2, Invariance, PTL DEF Spec, Mirrors, M!Spec
=============================================================================
