------------------------ MODULE MessageStore_proofs ------------------------
(***************************************************************************)
(* Proofs about MessageStore.  Typing, and the order of the transactions,  *)
(* hold whatever happens.  The counters are exact, every message has a     *)
(* session, every session a message, and a session is as recent as its     *)
(* newest message until one of the upsets the code allows, each property   *)
(* for the upsets that matter to it.                                       *)
(***************************************************************************)
EXTENDS MessageStore, FiniteSetTheorems, WellFoundedInduction, TLAPS

\* Messages are removed for sessions that are gone.
Removal == todo.do = "remove" => todo.sids \intersect listed = {}

\* The sessions of a page are listed after their rows are stored.
Filled == todo.do = "list" => \A p \in todo.sids : \E m \in stored : Peer[m] = p

\* A group's sessions are removed after its messages, unless those were kept.
Emptied == todo.do = "unlist" /\ "kept" \notin upset =>
    \A m \in stored : Peer[m] \notin todo.sids

\* A session shows something, or is about to go.
Full == \A p \in listed \ Leaving : \E m \in stored : Peer[m] = p

\* The counters, whatever happened before.
Counts == \A p \in listed \ Leaving : count[p] = Cardinality(Unread(p))

\* While the rows of a page are stored and its sessions are not, the counter
\* a new session will get is that of the rows.
Fresh == todo.do = "list" =>
    \A p \in todo.sids \ listed : todo.unread[p] = Cardinality(Unread(p))

\* A stored message is not newer than its session, or than what the second
\* transaction will make of it, or it is about to go.
Recent == \A m \in stored :
    \/ Peer[m] \in listed /\ Time[m] <= last[Peer[m]]
    \/ todo.do = "list" /\ Peer[m] \in todo.sids /\ Time[m] <= todo.time[Peer[m]]
    \/ todo.do = "remove" /\ Peer[m] \in todo.sids

Safe == TypeOK /\ Removal
IInv == /\ Safe
        /\ Filled /\ Emptied
        /\ upset \intersect {"list", "remove", "kept"} = {} => Recent
        /\ upset \intersect {"unlist", "deleted"} = {} => Full
        /\ upset = {} => Counts /\ Fresh

----------------------------------------------------------------------------
(* Numbers and sets.                                                       *)

\* A nonempty set of naturals has a least element.
LEMMA LeastNumber ==
  ASSUME NEW T, T \subseteq Nat, T # {}
  PROVE  \E x \in T : \A y \in T : x <= y
<1> DEFINE R == {ss \in Nat \X Nat : ss[1] < ss[2]}
<1>1. IsWellFoundedOn(R, Nat)
  BY NatLessThanWellFounded DEF OpToRel
<1> HIDE DEF R
<1>2. \E x \in T : \A y \in T : ~(<<y, x>> \in R)
  BY <1>1, WFMin
<1>3. \A x, y \in Nat : <<y, x>> \notin R => x <= y
  BY DEF R
<1> QED BY <1>2, <1>3

\* A nonempty set of positions of a sequence has a last one.
LEMMA LastPosition ==
  ASSUME NEW n \in Nat, NEW K, K \subseteq 1 .. n, K # {}
  PROVE  \E k \in K : \A h \in K : h <= k
<1> DEFINE T == {n - k : k \in K}
<1>a. \A k \in K : n - k \in Nat
  <2> SUFFICES ASSUME NEW k \in 1 .. n PROVE n - k \in Nat
    OBVIOUS
  <2> QED OBVIOUS
<1>1. T \subseteq Nat /\ T # {}
  BY <1>a
<1>2. PICK x \in T : \A y \in T : x <= y
  BY <1>1, LeastNumber
<1>3. PICK k \in K : x = n - k
  BY <1>2
<1>4. \A h \in K : n - k <= n - h
  BY <1>2, <1>3
<1> QED BY <1>4

\* Sets of messages are finite.
LEMMA Finite ==
  ASSUME NEW S, S \subseteq Msgs
  PROVE  IsFiniteSet(S) /\ Cardinality(S) \in Nat
BY MessageAssumption, FS_Subset, FS_CardinalityType

----------------------------------------------------------------------------
(* The batch.                                                              *)

\* What a batch is, index by index.
LEMMA BatchFacts ==
  ASSUME NEW b \in Batches
  PROVE  /\ \E n \in Nat : DOMAIN b = 1 .. n
         /\ \A i \in DOMAIN b : b[i] \in Msgs
         /\ \A i, k \in DOMAIN b : i < k => b[i] # b[k] /\ Time[b[i]] <= Time[b[k]]
         /\ Ids(b) \subseteq Msgs
<1>1. PICK n \in 1 .. BatchSize : b \in [1 .. n -> Msgs]
  BY DEF Batches
<1>2. n \in Nat
  BY <1>1, MessageAssumption
<1>3. DOMAIN b = 1 .. n /\ \A i \in DOMAIN b : b[i] \in Msgs
  BY <1>1
<1> QED BY <1>2, <1>3 DEF Batches, Ids

\* Latest is the time of a message of the batch, and no message is newer.
LEMMA LatestFacts ==
  ASSUME NEW b \in Batches, NEW p \in Peers
  PROVE  /\ Latest(b, p) \in Nat
         /\ \A m \in Ids(b) : Peer[m] = p => Time[m] <= Latest(b, p)
<1> DEFINE K == {k \in DOMAIN b : Peer[b[k]] = p}
           S == {Time[m] : m \in Ids(b) \intersect Of(p)}
           Top(t) == \A m \in Ids(b) \intersect Of(p) : Time[m] <= t
<1>1. CASE K = {}
  <2>1. p \notin {Peer[m] : m \in Ids(b)}
    BY <1>1 DEF Ids
  <2> QED BY <2>1 DEF Latest
<1>2. CASE K # {}
  <2>1. PICK n \in Nat : DOMAIN b = 1 .. n
    BY BatchFacts
  <2>2. PICK k \in K : \A h \in K : h <= k
    BY <1>2, <2>1, LastPosition
  <2>3. b[k] \in Ids(b) \intersect Of(p)
    BY <2>2, BatchFacts DEF Ids, Of
  <2>4. \A h \in K : Time[b[h]] <= Time[b[k]]
    <3> SUFFICES ASSUME NEW h \in K PROVE Time[b[h]] <= Time[b[k]]
      OBVIOUS
    <3>1. h \in Nat /\ k \in Nat /\ h <= k
      BY <2>1, <2>2
    <3>2. CASE h = k
      BY <2>3, <3>2, MessageAssumption DEF Of
    <3>3. CASE h < k
      BY <3>3, <2>2, BatchFacts
    <3> QED BY <3>1, <3>2, <3>3
  <2>5. Time[b[k]] \in S /\ Top(Time[b[k]])
    BY <2>3, <2>4 DEF Ids, Of
  <2>6. p \in {Peer[m] : m \in Ids(b)}
    BY <2>3 DEF Of
  <2>7. Latest(b, p) = CHOOSE t \in S : Top(t)
    BY <2>6 DEF Latest
  <2> HIDE DEF Top
  <2>8. Latest(b, p) \in S /\ Top(Latest(b, p))
    BY <2>5, <2>7
  <2>9. S \subseteq Nat
    BY MessageAssumption DEF Of
  <2> USE DEF Top
  <2>10. \A m \in Ids(b) : Peer[m] = p => Time[m] <= Latest(b, p)
    BY <2>8, BatchFacts DEF Of
  <2> QED BY <2>8, <2>9, <2>10
<1> QED BY <1>1, <1>2

\* Times apart, the session map counts every unread message of others.
LEMMA CountedFacts ==
  ASSUME NEW b \in Batches, NEW seen, NEW p \in Peers
  PROVE  /\ Counted(b, seen, p) \subseteq Msgs
         /\ (\A m, n \in Msgs : Peer[m] = Peer[n] /\ Time[m] = Time[n] => m = n)
               => Counted(b, seen, p) = ((Ids(b) \ seen) \ Mine) \intersect Of(p)
<1>1. Counted(b, seen, p) \subseteq Msgs
  BY BatchFacts DEF Counted
<1>2. ASSUME \A m, n \in Msgs : Peer[m] = Peer[n] /\ Time[m] = Time[n] => m = n
      PROVE  Counted(b, seen, p) = ((Ids(b) \ seen) \ Mine) \intersect Of(p)
  <2> DEFINE K == {k \in DOMAIN b : /\ Peer[b[k]] = p /\ b[k] \notin seen \union Mine
                                    /\ \A h \in 1 .. k - 1 :
                                          Peer[b[h]] = p => Time[b[h]] < Time[b[k]]}
  <2>1. PICK n \in Nat : DOMAIN b = 1 .. n
    BY BatchFacts
  <2>2. \A k \in DOMAIN b : \A h \in 1 .. k - 1 :
           Peer[b[k]] = p /\ Peer[b[h]] = p => Time[b[h]] < Time[b[k]]
    <3> SUFFICES ASSUME NEW k \in DOMAIN b, NEW h \in 1 .. k - 1,
                        Peer[b[k]] = p, Peer[b[h]] = p
                 PROVE  Time[b[h]] < Time[b[k]]
      OBVIOUS
    <3>1. h \in DOMAIN b /\ h < k
      BY <2>1
    <3>2. b[h] \in Msgs /\ b[k] \in Msgs /\ b[h] # b[k] /\ Time[b[h]] <= Time[b[k]]
      BY <3>1, BatchFacts
    <3>3. Time[b[h]] # Time[b[k]]
      BY <1>2, <3>2
    <3>4. Time[b[h]] \in Nat /\ Time[b[k]] \in Nat
      BY <3>2, MessageAssumption
    <3> QED BY <3>2, <3>3, <3>4
  <2>3. K = {k \in DOMAIN b : Peer[b[k]] = p /\ b[k] \notin seen \union Mine}
    BY <2>2
  <2>4. Counted(b, seen, p) = {b[i] : i \in K}
    BY DEF Counted
  <2> QED BY <2>3, <2>4, BatchFacts DEF Ids, Of
<1> QED BY <1>1, <1>2
----------------------------------------------------------------------------
(* Counting.                                                               *)

\* Adding new elements, and taking some away.
LEMMA CountUnion ==
  ASSUME NEW S, NEW T, S \subseteq Msgs, T \subseteq Msgs, S \intersect T = {}
  PROVE  Cardinality(S \union T) = Cardinality(S) + Cardinality(T)
<1>1. IsFiniteSet(S) /\ IsFiniteSet(T) /\ Cardinality(S) \in Nat /\ Cardinality(T) \in Nat
  BY Finite
<1>2. Cardinality(S \intersect T) = 0
  BY FS_EmptySet
<1>3. Cardinality(S \union T) = Cardinality(S) + Cardinality(T) - Cardinality(S \intersect T)
  BY <1>1, FS_Union
<1> QED BY <1>1, <1>2, <1>3

LEMMA CountDifference ==
  ASSUME NEW S, NEW T, S \subseteq Msgs, T \subseteq S
  PROVE  /\ Cardinality(S \ T) = Cardinality(S) - Cardinality(T)
         /\ Cardinality(T) <= Cardinality(S)
<1>1. IsFiniteSet(S) /\ S \intersect T = T
  BY Finite
<1> QED BY <1>1, FS_Difference, FS_Subset, ZenonT(30)

\* The insert trigger adds natural numbers.
LEMMA InsertTyped ==
  ASSUME TypeOK, NEW new, new \subseteq Msgs, InsertTrigger(new)
  PROVE  /\ count' \in [Peers -> Nat]
         /\ \A p \in Peers \ listed : count'[p] = 0
<1> SUFFICES ASSUME NEW p \in Peers
             PROVE  count'[p] \in Nat /\ (p \notin listed => count'[p] = 0)
  BY DEF InsertTrigger
<1>1. Cardinality((new \ Mine) \intersect Of(p)) \in Nat
  BY Finite
<1> QED BY <1>1 DEF InsertTrigger, TypeOK

\* So does the update trigger: what it subtracts is there.
LEMMA UpdateTyped ==
  ASSUME TypeOK, NEW now, NEW again, now \subseteq Msgs, again \subseteq Msgs,
         UpdateTrigger(now, again)
  PROVE  /\ count' \in [Peers -> Nat]
         /\ \A p \in Peers \ listed : count'[p] = 0
<1>1. PICK lost \in [Peers -> 0 .. Cardinality(now)] :
        /\ \A p \in Peers : Falling(now, p) <= count[p] + Rising(again, p) + lost[p]
        /\ count' = [p \in Peers |->
                        IF p \in listed
                        THEN count[p] + Rising(again, p) + lost[p] - Falling(now, p)
                        ELSE count[p]]
  BY DEF UpdateTrigger
<1> SUFFICES ASSUME NEW p \in Peers
             PROVE  count'[p] \in Nat /\ (p \notin listed => count'[p] = 0)
  BY <1>1
<1>2. Rising(again, p) \in Nat /\ Falling(now, p) \in Nat
  BY Finite DEF Rising, Falling
<1>3. lost[p] \in Nat /\ count[p] \in Nat
  <2>1. Cardinality(now) \in Nat
    BY Finite
  <2> QED BY <1>1, <2>1 DEF TypeOK
<1>4. CASE p \in listed
  <2>1. count'[p] = count[p] + Rising(again, p) + lost[p] - Falling(now, p)
    BY <1>1, <1>4
  <2>2. Falling(now, p) <= count[p] + Rising(again, p) + lost[p]
    BY <1>1
  <2> QED BY <2>1, <2>2, <1>2, <1>3, <1>4
<1>5. CASE p \notin listed
  BY <1>1, <1>3, <1>5 DEF TypeOK
<1> QED BY <1>4, <1>5

\* An exact counter stays exact under a change of read states.
LEMMA UpdateExact ==
  ASSUME TypeOK, Counts, NEW now, NEW again, now \subseteq stored, again \subseteq stored,
         now \intersect again = {},
         UpdateTrigger(now, again),
         read' = (read \ again) \union now, UNCHANGED <<stored, listed, todo>>
  PROVE  Counts'
<1>1. PICK lost \in [Peers -> 0 .. Cardinality(now)] :
        /\ \A p \in Peers : lost[p] = 0 \/ lost[p] <= Falling(now, p) - count[p]
        /\ count' = [p \in Peers |->
                        IF p \in listed
                        THEN count[p] + Rising(again, p) + lost[p] - Falling(now, p)
                        ELSE count[p]]
  BY DEF UpdateTrigger
<1> SUFFICES ASSUME NEW p \in listed \ Leaving
             PROVE  count'[p] = Cardinality(Unread(p)')
  BY DEF Counts, Leaving
<1> DEFINE U == Unread(p)
           R == ((again \intersect read) \ Mine) \intersect Of(p)
           F == ((now \ read) \ Mine) \intersect Of(p)
<1>2. p \in Peers /\ stored \subseteq Msgs /\ read \subseteq stored
  BY DEF TypeOK
<1>3. /\ U \subseteq Msgs /\ R \subseteq Msgs /\ U \intersect R = {}
      /\ F \subseteq U
      /\ Unread(p)' = (U \union R) \ F
  BY <1>2 DEF Unread, Of
<1> HIDE DEF U, R, F
<1>4. Cardinality(Unread(p)') = (Cardinality(U) + Cardinality(R)) - Cardinality(F)
  <2>1. Cardinality(U \union R) = Cardinality(U) + Cardinality(R)
    BY <1>3, CountUnion
  <2>2. Cardinality((U \union R) \ F) = Cardinality(U \union R) - Cardinality(F)
    <3>1. U \union R \subseteq Msgs /\ F \subseteq U \union R
      BY <1>3
    <3> QED BY <3>1, CountDifference
  <2> QED BY <1>3, <2>1, <2>2
<1>5. Cardinality(F) <= Cardinality(U)
  BY <1>3, CountDifference
<1>6. Cardinality(U) \in Nat /\ Cardinality(R) \in Nat /\ Cardinality(F) \in Nat
  <2>1. F \subseteq Msgs
    BY <1>3
  <2> QED BY <1>3, <2>1, Finite
<1>7. count[p] = Cardinality(U)
  BY DEF Counts, U
<1>8. Falling(now, p) = Cardinality(F) /\ Rising(again, p) = Cardinality(R)
  BY DEF Falling, Rising, F, R
<1>9. lost[p] = 0
  <2>1. lost[p] \in Nat
    <3>1. now \subseteq Msgs
      BY <1>2
    <3>2. Cardinality(now) \in Nat
      BY <3>1, Finite
    <3> QED BY <1>1, <1>2, <3>2
  <2>2. lost[p] = 0 \/ lost[p] <= Cardinality(F) - Cardinality(U)
    BY <1>1, <1>2, <1>7, <1>8
  <2> QED BY <2>1, <2>2, <1>5, <1>6
<1>10. count'[p] = count[p] + Rising(again, p) + lost[p] - Falling(now, p)
  BY <1>1, <1>2
<1>11. count'[p] = Cardinality(U) + Cardinality(R) + 0 - Cardinality(F)
  BY <1>7, <1>8, <1>9, <1>10
<1> QED BY <1>4, <1>6, <1>11

----------------------------------------------------------------------------
(* Types, and the order of a removal, whatever happens.                    *)

LEMMA InitSafe == Init => Safe
<1> SUFFICES ASSUME Init PROVE Safe
  OBVIOUS
<1>1. TypeOK
  BY DEF Init, TypeOK, Nothing
<1>2. Removal
  BY DEF Init, Removal, Nothing
<1> QED BY <1>1, <1>2 DEF Safe

LEMMA StepSafe == Safe /\ [Next]_vars => Safe'
<1> SUFFICES ASSUME Safe, [Next]_vars PROVE Safe'
  OBVIOUS
<1> USE DEF Safe
<1>1. ASSUME NEW b \in Batches, NEW seen \in SUBSET (Ids(b)), StoreMessages(b, seen)
      PROVE  Safe'
  <2>1. Ids(b) \subseteq Msgs
    BY BatchFacts
  <2>2. /\ count' \in [Peers -> Nat]
        /\ \A p \in Peers \ listed : count'[p] = 0
    <3>1. (Ids(b) \ stored) \ seen \subseteq Msgs
      BY <2>1
    <3> QED BY <1>1, <3>1, InsertTyped DEF StoreMessages
  <2>3. [p \in Peers |-> Cardinality(Counted(b, seen, p))] \in [Peers -> Nat]
    BY CountedFacts, Finite
  <2>4. [p \in Peers |-> Latest(b, p)] \in [Peers -> Nat]
    BY LatestFacts
  <2>5. {Peer[m] : m \in Ids(b)} \subseteq Peers
    BY <2>1, MessageAssumption
  <2>6. todo' \in [do : {"nothing", "list", "remove", "unlist"}, sids : SUBSET Peers,
                   unread : [Peers -> Nat], time : [Peers -> Nat]]
    BY <1>1, <2>3, <2>4, <2>5 DEF StoreMessages
  <2>7. stored' \subseteq Msgs /\ read' \subseteq stored'
    BY <1>1, <2>1 DEF StoreMessages, TypeOK
  <2>8. UNCHANGED <<listed, last>> /\ todo'.do = "list"
    BY <1>1 DEF StoreMessages
  <2>9. upset' \subseteq Upsets
    BY <1>1 DEF StoreMessages, TypeOK, Upsets
  <2> QED BY <2>2, <2>6, <2>7, <2>8, <2>9 DEF TypeOK, Removal
<1>2. CASE ListSessions
  <2>1. \A p \in Peers : todo.unread[p] \in Nat /\ todo.time[p] \in Nat
    BY DEF TypeOK
  <2>2. count' \in [Peers -> Nat] /\ last' \in [Peers -> Nat]
    BY <1>2, <2>1 DEF ListSessions, TypeOK
  <2>3. \A p \in Peers \ listed' : count'[p] = 0 /\ last'[p] = 0
    BY <1>2 DEF ListSessions, TypeOK
  <2> QED BY <1>2, <2>2, <2>3 DEF ListSessions, TypeOK, Removal, Nothing
<1>3. ASSUME NEW ids \in SUBSET Msgs, MarkRead(ids)
      PROVE  Safe'
  <2>1. /\ count' \in [Peers -> Nat]
        /\ \A p \in Peers \ listed : count'[p] = 0
    BY <1>3, UpdateTyped, {} \subseteq Msgs, ids \intersect stored \subseteq Msgs DEF MarkRead
  <2> QED BY <1>3, <2>1 DEF MarkRead, TypeOK, Removal
<1>4. ASSUME NEW p \in Peers, NEW t, MarkGroup(p, t)
      PROVE  Safe'
  <2>1. PICK hit \in SUBSET stored : UpdateTrigger(hit, {}) /\ read' = read \union hit
    BY <1>4 DEF MarkGroup
  <2>2. /\ count' \in [Peers -> Nat]
        /\ \A q \in Peers \ listed : count'[q] = 0
    <3>1. hit \subseteq Msgs /\ {} \subseteq Msgs
      BY DEF TypeOK
    <3> QED BY <2>1, <3>1, UpdateTyped
  <2>3. UNCHANGED <<stored, listed, last, todo, upset>>
    BY <1>4 DEF MarkGroup
  <2> QED BY <2>1, <2>2, <2>3 DEF TypeOK, Removal
<1>5. ASSUME NEW ids \in SUBSET Msgs, NEW flagged \in SUBSET ids, AssignFlags(ids, flagged)
      PROVE  Safe'
  <2>1. /\ count' \in [Peers -> Nat]
        /\ \A q \in Peers \ listed : count'[q] = 0
    <3>1. ids \intersect flagged \intersect stored \subseteq Msgs /\ (ids \ flagged) \intersect stored \subseteq Msgs
      OBVIOUS
    <3> QED BY <1>5, <3>1, UpdateTyped DEF AssignFlags
  <2>2. upset' \subseteq Upsets
    BY <1>5 DEF AssignFlags, TypeOK, Upsets
  <2>3. read' \subseteq stored /\ UNCHANGED <<stored, listed, last, todo>>
    BY <1>5 DEF AssignFlags, TypeOK
  <2> QED BY <2>1, <2>2, <2>3 DEF TypeOK, Removal
<1>n. Nothing \in [do : {"nothing", "list", "remove", "unlist"}, sids : SUBSET Peers,
                   unread : [Peers -> Nat], time : [Peers -> Nat]] /\ Nothing.do = "nothing"
  BY DEF Nothing
<1>l. ASSUME NEW ps \in SUBSET Peers, Unlist(ps)
      PROVE  /\ listed' \subseteq Peers
             /\ count' \in [Peers -> Nat] /\ last' \in [Peers -> Nat]
             /\ \A q \in Peers \ listed' : count'[q] = 0 /\ last'[q] = 0
  BY <1>l DEF Unlist, TypeOK
<1>6. ASSUME NEW ps \in SUBSET Peers, RemoveSessions(ps)
      PROVE  Safe'
  <2>1. todo' = [do |-> "remove", sids |-> ps, unread |-> [q \in Peers |-> 0],
                 time |-> [q \in Peers |-> 0]]
    BY <1>6 DEF RemoveSessions, Nothing
  <2>2. listed' \intersect ps = {}
    BY <1>6 DEF RemoveSessions, Unlist
  <2>3. UNCHANGED <<stored, read, upset>>
    BY <1>6 DEF RemoveSessions
  <2>4. /\ listed' \subseteq Peers
        /\ count' \in [Peers -> Nat] /\ last' \in [Peers -> Nat]
        /\ \A q \in Peers \ listed' : count'[q] = 0 /\ last'[q] = 0
    BY <1>6, <1>l DEF RemoveSessions
  <2> QED BY <2>1, <2>2, <2>3, <2>4 DEF TypeOK, Removal
<1>7. CASE RemoveMessages
  BY <1>7 DEF RemoveMessages, Without, TypeOK, Removal, Nothing, sessions
<1>11. ASSUME NEW ps \in SUBSET Peers, DeleteGroupMessages(ps)
       PROVE  Safe'
  <2>1. todo' = [do |-> "unlist", sids |-> ps, unread |-> [q \in Peers |-> 0],
                 time |-> [q \in Peers |-> 0]]
    BY <1>11 DEF DeleteGroupMessages, Nothing
  <2>2. stored' \subseteq Msgs /\ read' \subseteq stored' /\ upset' \subseteq Upsets
    BY <1>11 DEF DeleteGroupMessages, Without, TypeOK, Upsets
  <2>3. UNCHANGED <<listed, count, last>>
    BY <1>11 DEF DeleteGroupMessages, sessions
  <2> QED BY <2>1, <2>2, <2>3 DEF TypeOK, Removal
<1>12. CASE DeleteGroupSessions
  <2>1. todo.sids \in SUBSET Peers
    BY DEF TypeOK
  <2>2. /\ listed' \subseteq Peers
        /\ count' \in [Peers -> Nat] /\ last' \in [Peers -> Nat]
        /\ \A q \in Peers \ listed' : count'[q] = 0 /\ last'[q] = 0
    BY <1>12, <1>l, <2>1 DEF DeleteGroupSessions
  <2>3. UNCHANGED <<stored, read, upset>> /\ todo' = Nothing
    BY <1>12 DEF DeleteGroupSessions
  <2> QED BY <1>n, <2>2, <2>3 DEF TypeOK, Removal
<1>13. ASSUME NEW m \in Msgs, DeleteMessage(m)
       PROVE  Safe'
  <2>1. stored' \subseteq Msgs /\ read' \subseteq stored' /\ upset' \subseteq Upsets
    BY <1>13 DEF DeleteMessage, TypeOK, Upsets
  <2>2. UNCHANGED <<listed, count, last, todo>>
    BY <1>13 DEF DeleteMessage, sessions
  <2> QED BY <2>1, <2>2 DEF TypeOK, Removal
<1>8. CASE Interrupt
  <2>1. todo.do # "nothing" => todo.do \in Upsets
    BY DEF TypeOK, Upsets
  <2>2. todo.do # "nothing"
    BY <1>8 DEF Interrupt
  <2> QED BY <1>8, <1>n, <2>1, <2>2 DEF Interrupt, TypeOK, Removal, sessions
<1>9. CASE UNCHANGED vars
  BY <1>9 DEF vars, sessions, TypeOK, Removal
<1> QED BY <1>1, <1>2, <1>3, <1>4, <1>5, <1>6, <1>7, <1>8, <1>9, <1>11, <1>12, <1>13
    DEF Next, Selections

\* The sorts of the variables, for any messages, batches and failures: in
\* particular no counter is ever negative.
THEOREM TypeCorrect == Spec => []TypeOK
<1>1. Spec => []Safe
  BY InitSafe, StepSafe, PTL DEF Spec
<1>2. Safe => TypeOK
  BY DEF Safe
<1> QED BY <1>1, <1>2, PTL

----------------------------------------------------------------------------
(* Counters, sessions and times.                                           *)

\* Where no two messages of a conversation have one time, no batch is miscounted.
LEMMA ApartMeansCounted ==
  ASSUME \A m, n \in Msgs : Peer[m] = Peer[n] /\ Time[m] = Time[n] => m = n,
         NEW b \in Batches, NEW seen
  PROVE  ~Tied(b, seen)
  BY CountedFacts DEF Tied

LEMMA InitIInv == Init => IInv
<1> SUFFICES ASSUME Init PROVE IInv
  OBVIOUS
<1>1. Safe
  BY InitSafe
<1>2. Counts /\ Fresh /\ Recent
  BY DEF Init, Counts, Fresh, Recent, Nothing
<1>3. Filled /\ Emptied /\ Full
  BY DEF Init, Filled, Emptied, Full, Nothing
<1> QED BY <1>1, <1>2, <1>3 DEF IInv

\* Every task runs to its end: nothing a step of the store does leaves a message
\* without a session that is as recent, or newer than what is still to be done.
LEMMA StepRecent ==
  ASSUME Safe, Emptied, Recent, [Next]_vars,
         upset \intersect {"list", "remove", "kept"} = {},
         upset' \intersect {"list", "remove", "kept"} = {}
  PROVE  Recent'
<1>t. /\ stored \subseteq Msgs /\ listed \subseteq Peers /\ todo.sids \subseteq Peers
      /\ last \in [Peers -> Nat] /\ todo.time \in [Peers -> Nat]
  BY DEF Safe, TypeOK
<1>1. ASSUME NEW b \in Batches, NEW seen \in SUBSET (Ids(b)), StoreMessages(b, seen)
      PROVE  Recent'
  <2> SUFFICES ASSUME NEW m \in stored'
               PROVE  \/ Peer[m] \in listed' /\ Time[m] <= last'[Peer[m]]
                      \/ todo'.do = "list" /\ Peer[m] \in todo'.sids /\ Time[m] <= todo'.time[Peer[m]]
    BY DEF Recent
  <2>1. CASE m \in Ids(b)
    <3>1. Peer[m] \in Peers
      BY <2>1, BatchFacts, MessageAssumption
    <3>2. Time[m] <= Latest(b, Peer[m])
      BY <2>1, <3>1, LatestFacts
    <3>3. todo'.time[Peer[m]] = Latest(b, Peer[m]) /\ todo'.do = "list"
      BY <1>1, <3>1 DEF StoreMessages
    <3>4. Peer[m] \in todo'.sids
      BY <1>1, <2>1 DEF StoreMessages
    <3> QED BY <3>2, <3>3, <3>4
  <2>2. CASE m \in stored
    <3>1. UNCHANGED <<listed, last>> /\ todo = Nothing
      BY <1>1 DEF StoreMessages
    <3> QED BY <2>2, <3>1 DEF Recent, Nothing
  <2> QED BY <1>1, <2>1, <2>2 DEF StoreMessages
<1>2. CASE ListSessions
  <2> SUFFICES ASSUME NEW m \in stored
               PROVE  Peer[m] \in listed' /\ Time[m] <= last'[Peer[m]]
    BY <1>2 DEF Recent, ListSessions
  <2>1. Peer[m] \in Peers /\ Time[m] \in Nat
    BY <1>t, MessageAssumption
  <2>2. last'[Peer[m]] = IF Peer[m] \in todo.sids /\ (Peer[m] \notin listed \/ last[Peer[m]] < todo.time[Peer[m]])
                         THEN todo.time[Peer[m]] ELSE last[Peer[m]]
    BY <1>2, <2>1 DEF ListSessions
  <2>3. last[Peer[m]] \in Nat /\ todo.time[Peer[m]] \in Nat
    BY <1>t, <2>1
  <2>4. \/ Peer[m] \in listed /\ Time[m] <= last[Peer[m]]
        \/ Peer[m] \in todo.sids /\ Time[m] <= todo.time[Peer[m]]
    BY <1>2 DEF ListSessions, Recent
  <2>5. Peer[m] \in listed'
    BY <1>2, <2>4 DEF ListSessions
  <2>6. Time[m] <= last'[Peer[m]]
    <3>1. CASE Peer[m] \in todo.sids /\ (Peer[m] \notin listed \/ last[Peer[m]] < todo.time[Peer[m]])
      BY <2>1, <2>2, <2>3, <2>4, <3>1
    <3>2. CASE ~(Peer[m] \in todo.sids /\ (Peer[m] \notin listed \/ last[Peer[m]] < todo.time[Peer[m]]))
      BY <2>1, <2>2, <2>3, <2>4, <3>2
    <3> QED BY <3>1, <3>2
  <2> QED BY <2>5, <2>6
<1>3. CASE UNCHANGED <<stored, listed, last, todo>>
  BY <1>3 DEF Recent
<1>6. ASSUME NEW ps \in SUBSET Peers, RemoveSessions(ps) PROVE Recent'
  <2>1. /\ stored' = stored /\ listed' = listed \ ps
        /\ \A q \in listed' : last'[q] = last[q]
    BY <1>6, <1>t DEF RemoveSessions, Unlist
  <2>2. todo'.do = "remove" /\ todo'.sids = ps /\ todo = Nothing
    BY <1>6 DEF RemoveSessions, Nothing
  <2> QED BY <2>1, <2>2 DEF Recent, Nothing
<1>7. CASE RemoveMessages
  BY <1>7 DEF RemoveMessages, Without, Recent, sessions
<1>12. ASSUME NEW ps \in SUBSET Peers, DeleteGroupMessages(ps) PROVE Recent'
  <2>1. stored' \subseteq stored /\ UNCHANGED <<listed, last>> /\ todo = Nothing
    BY <1>12 DEF DeleteGroupMessages, Without, sessions
  <2> QED BY <2>1 DEF Recent, Nothing
<1>13. CASE DeleteGroupSessions
  <2>1. /\ stored' = stored /\ listed' = listed \ todo.sids /\ todo.do = "unlist"
        /\ \A q \in listed' : last'[q] = last[q]
    BY <1>13, <1>t DEF DeleteGroupSessions, Unlist
  <2>2. \A m \in stored : Peer[m] \notin todo.sids
    BY <2>1 DEF Emptied
  <2> QED BY <2>1, <2>2 DEF Recent
<1>14. ASSUME NEW m, DeleteMessage(m) PROVE Recent'
  <2>1. stored' \subseteq stored /\ UNCHANGED <<listed, last, todo>>
    BY <1>14 DEF DeleteMessage, sessions
  <2> QED BY <2>1 DEF Recent
<1>8. CASE Interrupt
  <2>1. todo.do \notin {"list", "remove"}
    BY <1>8 DEF Interrupt
  <2>2. UNCHANGED <<stored, listed, last>>
    BY <1>8 DEF Interrupt, sessions
  <2> QED BY <2>1, <2>2 DEF Recent
<1>9. CASE UNCHANGED vars
  BY <1>3, <1>9 DEF vars, sessions
<1>10. ASSUME NEW ids, NEW flagged, MarkRead(ids) \/ AssignFlags(ids, flagged) PROVE Recent'
  BY <1>3, <1>10 DEF MarkRead, AssignFlags
<1>11. ASSUME NEW p, NEW t, MarkGroup(p, t) PROVE Recent'
  BY <1>3, <1>11 DEF MarkGroup
<1> QED BY <1>1, <1>2, <1>6, <1>7, <1>8, <1>9, <1>10, <1>11, <1>12, <1>13, <1>14 DEF Next

\* The rows of a page are there when its sessions are listed, and those of a
\* group are gone when its session is, or were kept.
LEMMA StepOrdered ==
  ASSUME Safe, Filled, Emptied, [Next]_vars
  PROVE  (Filled /\ Emptied)'
<1>1. ASSUME NEW b \in Batches, NEW seen, StoreMessages(b, seen) PROVE (Filled /\ Emptied)'
  BY <1>1 DEF StoreMessages, Filled, Emptied
<1>2. CASE todo' = Nothing
  BY <1>2 DEF Nothing, Filled, Emptied
<1>3. CASE UNCHANGED <<stored, todo>> /\ upset \subseteq upset'
  BY <1>3 DEF Filled, Emptied
<1>4. ASSUME NEW ids, NEW flagged, NEW p, NEW t,
             MarkRead(ids) \/ MarkGroup(p, t) \/ AssignFlags(ids, flagged)
      PROVE  (Filled /\ Emptied)'
  BY <1>3, <1>4 DEF MarkRead, MarkGroup, AssignFlags
<1>5. ASSUME NEW ps, RemoveSessions(ps) PROVE (Filled /\ Emptied)'
  BY <1>5 DEF RemoveSessions, Nothing, Filled, Emptied
<1>6. ASSUME NEW ps, DeleteGroupMessages(ps) PROVE (Filled /\ Emptied)'
  <2>1. todo'.do = "unlist" /\ todo'.sids = ps
    BY <1>6 DEF DeleteGroupMessages, Nothing
  <2>2. stored' = Without(ps, stored) \/ "kept" \in upset'
    BY <1>6 DEF DeleteGroupMessages
  <2> QED BY <2>1, <2>2 DEF Without, Filled, Emptied
<1>7. ASSUME NEW m, DeleteMessage(m) PROVE (Filled /\ Emptied)'
  BY <1>7, <1>2 DEF DeleteMessage
<1>8. CASE ListSessions \/ RemoveMessages \/ DeleteGroupSessions \/ Interrupt
  BY <1>2, <1>8 DEF ListSessions, RemoveMessages, DeleteGroupSessions, Interrupt
<1>9. CASE UNCHANGED vars
  BY <1>3, <1>9 DEF vars
<1> QED BY <1>1, <1>4, <1>5, <1>6, <1>7, <1>8, <1>9 DEF Next

\* No step leaves a session without a message to show.
LEMMA StepFull ==
  ASSUME Safe, Filled, Full, [Next]_vars,
         upset' \intersect {"unlist", "deleted"} = {}
  PROVE  Full'
<1>1. CASE stored \subseteq stored' /\ listed' = listed /\ Leaving \subseteq Leaving'
  BY <1>1 DEF Full
<1>2. ASSUME NEW b, NEW seen, StoreMessages(b, seen) PROVE Full'
  BY <1>1, <1>2 DEF StoreMessages, Leaving, Nothing
<1>3. CASE ListSessions
  BY <1>3 DEF ListSessions, Full, Filled, Leaving
<1>4. ASSUME NEW ids, NEW flagged, NEW p, NEW t,
             MarkRead(ids) \/ MarkGroup(p, t) \/ AssignFlags(ids, flagged)
      PROVE  Full'
  BY <1>1, <1>4 DEF MarkRead, MarkGroup, AssignFlags, Leaving
<1>5. ASSUME NEW ps, RemoveSessions(ps) PROVE Full'
  BY <1>5 DEF RemoveSessions, Unlist, Full, Leaving, Nothing
<1>6. CASE RemoveMessages
  <2>1. \A p \in listed : p \notin todo.sids
    BY <1>6 DEF RemoveMessages, Safe, Removal
  <2> QED BY <1>6, <2>1 DEF RemoveMessages, Without, Full, Leaving, sessions
<1>7. ASSUME NEW ps, DeleteGroupMessages(ps) PROVE Full'
  <2>1. /\ todo = Nothing /\ listed' = listed /\ Leaving' = ps
        /\ (stored' = Without(ps, stored) \/ stored' = stored)
    BY <1>7 DEF DeleteGroupMessages, Leaving, Nothing, sessions
  <2> QED BY <2>1 DEF Full, Leaving, Nothing, Without
<1>8. CASE DeleteGroupSessions
  BY <1>8 DEF DeleteGroupSessions, Unlist, Full, Leaving
<1>9. ASSUME NEW m, DeleteMessage(m) PROVE Full'
  BY <1>9 DEF DeleteMessage
<1>10. CASE Interrupt
  <2>1. todo.do # "unlist"
    BY <1>10 DEF Interrupt
  <2> QED BY <1>1, <1>10, <2>1 DEF Interrupt, Leaving, sessions
<1>11. CASE UNCHANGED vars
  BY <1>1, <1>11 DEF vars, sessions, Leaving
<1> QED BY <1>2, <1>3, <1>4, <1>5, <1>6, <1>7, <1>8, <1>9, <1>10, <1>11 DEF Next

\* A page is stored: the sessions that exist count its rows, and those it
\* starts will.
LEMMA StoreExact ==
  ASSUME Safe, Recent, Counts, NEW b \in Batches, NEW seen \in SUBSET (Ids(b)),
         StoreMessages(b, seen), ~Tied(b, seen)
  PROVE  (Counts /\ Fresh)'
<1> DEFINE new == Ids(b) \ stored
<1>1. /\ stored \subseteq Msgs /\ read \subseteq stored /\ listed \subseteq Peers
      /\ Ids(b) \subseteq Msgs
  BY BatchFacts DEF Safe, TypeOK
<1>2. \A p \in Peers : Unread(p)' = Unread(p) \union (((new \ seen) \ Mine) \intersect Of(p))
  BY <1>1 DEF StoreMessages, Unread, Of
<1>3. Counts'
  <2> SUFFICES ASSUME NEW p \in listed PROVE count'[p] = Cardinality(Unread(p)')
    BY DEF Counts, StoreMessages
  <2> DEFINE U == Unread(p)
             N == ((new \ seen) \ Mine) \intersect Of(p)
  <2>0. p \in listed \ Leaving
    BY DEF StoreMessages, Leaving, Nothing
  <2>1. U \subseteq Msgs /\ N \subseteq Msgs /\ U \intersect N = {}
    BY <1>1 DEF Unread
  <2>2. Cardinality(U \union N) = Cardinality(U) + Cardinality(N)
    BY <2>1, CountUnion
  <2>3. count'[p] = count[p] + Cardinality(N)
    BY <1>1 DEF StoreMessages, InsertTrigger
  <2>4. count[p] = Cardinality(U)
    BY <2>0 DEF Counts
  <2>5. Unread(p)' = U \union N
    BY <1>1, <1>2
  <2> QED BY <2>2, <2>3, <2>4, <2>5
<1>4. Fresh'
  <2> SUFFICES ASSUME NEW p \in todo'.sids \ listed'
               PROVE  todo'.unread[p] = Cardinality(Unread(p)')
    BY DEF Fresh
  <2>1. p \in Peers /\ p \notin listed
    BY <1>1, MessageAssumption DEF StoreMessages
  <2>2. todo'.unread[p] = Cardinality(Counted(b, seen, p))
    BY <2>1 DEF StoreMessages
  <2>3. \A m \in stored : Peer[m] # p
    BY <2>1 DEF StoreMessages, Recent, Nothing
  <2>4. Unread(p) = {}
    BY <2>3 DEF Unread
  <2>5. Counted(b, seen, p) = ((Ids(b) \ seen) \ Mine) \intersect Of(p)
    BY <2>1 DEF Tied
  <2>6. ((Ids(b) \ seen) \ Mine) \intersect Of(p) = ((new \ seen) \ Mine) \intersect Of(p)
    BY <2>3 DEF Of
  <2> QED BY <1>2, <2>1, <2>2, <2>4, <2>5, <2>6
<1> QED BY <1>3, <1>4

\* Its sessions are listed.
LEMMA ListExact ==
  ASSUME Safe, Counts, Fresh, ListSessions
  PROVE  (Counts /\ Fresh)'
<1>1. listed \subseteq Peers /\ todo.sids \subseteq Peers
  BY DEF Safe, TypeOK
<1>2. \A p \in Peers : Unread(p)' = Unread(p)
  BY DEF ListSessions, Unread
<1>3. Counts'
  BY <1>1, <1>2 DEF Counts, Fresh, ListSessions, Leaving
<1>4. Fresh'
  BY DEF ListSessions, Fresh, Nothing
<1> QED BY <1>3, <1>4

\* Until something is upset, no step makes a counter wrong.
LEMMA StepExact ==
  ASSUME Safe, Recent, Counts, Fresh, [Next]_vars, upset' = {}
  PROVE  (Counts /\ Fresh)'
<1>t. TypeOK /\ stored \subseteq Msgs /\ read \subseteq stored
  BY DEF Safe, TypeOK
<1>f. ASSUME todo = Nothing, todo' = todo PROVE Fresh'
  BY <1>f DEF Fresh, Nothing
<1>1. ASSUME NEW b \in Batches, NEW seen \in SUBSET (Ids(b)), StoreMessages(b, seen)
      PROVE  (Counts /\ Fresh)'
  <2>1. ~Tied(b, seen)
    BY <1>1 DEF StoreMessages
  <2> QED BY <1>1, <2>1, StoreExact
<1>2. CASE ListSessions
  BY <1>2, ListExact
<1>3. ASSUME NEW ids \in SUBSET Msgs, MarkRead(ids)
      PROVE  (Counts /\ Fresh)'
  <2> DEFINE now == ids \intersect stored
  <2>1. UpdateTrigger(now, {}) /\ read' = (read \ {}) \union now /\ UNCHANGED <<stored, listed, last, todo>>
    BY <1>3 DEF MarkRead
  <2>2. now \subseteq stored /\ {} \subseteq stored /\ now \intersect {} = {}
    OBVIOUS
  <2> HIDE DEF now
  <2>3. Counts'
    BY <1>t, <2>1, <2>2, UpdateExact
  <2> QED BY <1>3, <1>f, <2>1, <2>3 DEF MarkRead
<1>4. ASSUME NEW p \in Peers, NEW t, MarkGroup(p, t)
      PROVE  (Counts /\ Fresh)'
  <2>1. PICK hit \in SUBSET stored : UpdateTrigger(hit, {}) /\ read' = read \union hit
    BY <1>4 DEF MarkGroup
  <2>2. UNCHANGED <<stored, listed, last, todo>> /\ todo = Nothing
    BY <1>4 DEF MarkGroup
  <2>3. Counts'
    <3>1. read' = (read \ {}) \union hit /\ {} \subseteq stored /\ hit \intersect {} = {}
      BY <2>1
    <3> QED BY <1>t, <2>1, <2>2, <3>1, UpdateExact
  <2> QED BY <1>f, <2>2, <2>3
<1>5. ASSUME NEW ids \in SUBSET Msgs, NEW flagged \in SUBSET ids, AssignFlags(ids, flagged)
      PROVE  (Counts /\ Fresh)'
  <2> DEFINE now == ids \intersect flagged \intersect stored
             again == (ids \ flagged) \intersect stored
  <2>1. UpdateTrigger(now, again) /\ UNCHANGED <<stored, listed, last, todo>> /\ todo = Nothing
    BY <1>5 DEF AssignFlags
  <2>2. now \subseteq stored /\ again \subseteq stored /\ now \intersect again = {}
    OBVIOUS
  <2>3. read' = (read \ again) \union now
    BY <1>5, <1>t DEF AssignFlags
  <2> HIDE DEF now, again
  <2>4. Counts'
    BY <1>t, <2>1, <2>2, <2>3, UpdateExact
  <2> QED BY <1>f, <2>1, <2>4
<1>6. ASSUME NEW ps, RemoveSessions(ps)
      PROVE  (Counts /\ Fresh)'
  <2>1. /\ stored' = stored /\ read' = read /\ listed' = listed \ ps
        /\ \A q \in listed' : count'[q] = count[q]
    BY <1>6 DEF RemoveSessions, Unlist, Safe, TypeOK
  <2>2. todo'.do = "remove" /\ todo = Nothing
    BY <1>6 DEF RemoveSessions, Nothing
  <2>3. Counts'
    BY <2>1, <2>2 DEF Counts, Unread, Leaving, Nothing
  <2>4. Fresh'
    BY <2>2 DEF Fresh
  <2> QED BY <2>3, <2>4
<1>7. CASE RemoveMessages
  <2>1. \A p \in listed : p \notin todo.sids
    BY <1>7 DEF RemoveMessages, Safe, Removal
  <2>2. \A p \in listed : Unread(p)' = Unread(p)
    BY <1>7, <2>1 DEF RemoveMessages, Without, Unread
  <2>3. Counts'
    BY <1>7, <2>2 DEF RemoveMessages, Counts, Leaving, sessions
  <2>4. Fresh'
    BY <1>7 DEF RemoveMessages, Fresh, Nothing
  <2> QED BY <2>3, <2>4
<1>10. ASSUME NEW ps, DeleteGroupMessages(ps)
       PROVE  (Counts /\ Fresh)'
  <2>1. /\ stored' = Without(ps, stored) /\ read' = Without(ps, read)
        /\ UNCHANGED <<listed, count>>
    BY <1>10 DEF DeleteGroupMessages, sessions
  <2>2. todo = Nothing /\ todo'.do = "unlist" /\ todo'.sids = ps
    BY <1>10 DEF DeleteGroupMessages, Nothing
  <2>3. \A p \in listed \ ps : Unread(p)' = Unread(p)
    BY <2>1 DEF Without, Unread
  <2>4. Counts'
    BY <2>1, <2>2, <2>3 DEF Counts, Leaving, Nothing
  <2>5. Fresh'
    BY <2>2 DEF Fresh
  <2> QED BY <2>4, <2>5
<1>11. CASE DeleteGroupSessions
  <2>1. /\ stored' = stored /\ read' = read /\ listed' = listed \ todo.sids
        /\ \A q \in listed' : count'[q] = count[q]
    BY <1>11 DEF DeleteGroupSessions, Unlist, Safe, TypeOK
  <2>2. Leaving = todo.sids /\ todo' = Nothing
    BY <1>11 DEF DeleteGroupSessions, Leaving
  <2>3. Counts'
    BY <2>1, <2>2 DEF Counts, Unread
  <2>4. Fresh'
    BY <2>2 DEF Fresh, Nothing
  <2> QED BY <2>3, <2>4
<1>12. ASSUME NEW m, DeleteMessage(m)
       PROVE  (Counts /\ Fresh)'
  BY <1>12 DEF DeleteMessage
<1>8. CASE Interrupt
  BY <1>8 DEF Interrupt
<1>9. CASE UNCHANGED vars
  BY <1>9 DEF vars, sessions, Counts, Fresh, Unread, Leaving
<1> QED BY <1>1, <1>2, <1>3, <1>4, <1>5, <1>6, <1>7, <1>8, <1>9, <1>10, <1>11, <1>12
    DEF Next, Selections

LEMMA UpsetsStay == [Next]_vars => upset \subseteq upset'
  BY DEF Next, vars, sessions, StoreMessages, ListSessions, MarkRead, MarkGroup, AssignFlags,
         RemoveSessions, RemoveMessages, DeleteGroupMessages, DeleteGroupSessions,
         DeleteMessage, Interrupt

LEMMA StepIInv == IInv /\ [Next]_vars => IInv'
<1> SUFFICES ASSUME IInv, [Next]_vars PROVE IInv'
  OBVIOUS
<1>1. Safe' /\ (Filled /\ Emptied)'
  BY StepSafe, StepOrdered DEF IInv
<1>2. upset' \intersect {"list", "remove", "kept"} = {} => Recent'
  BY UpsetsStay, StepRecent DEF IInv
<1>3. upset' \intersect {"unlist", "deleted"} = {} => Full'
  BY UpsetsStay, StepFull DEF IInv
<1>4. upset' = {} => (Counts /\ Fresh)'
  BY UpsetsStay, StepExact DEF IInv
<1> QED BY <1>1, <1>2, <1>3, <1>4 DEF IInv

LEMMA Invariant == Spec => []IInv
  BY InitIInv, StepIInv, PTL DEF Spec

\* Until something is upset, the badge of every session is the number of its
\* unread messages.
THEOREM CountersExact == Spec => []CountExact
<1>1. IInv => CountExact
  BY DEF IInv, Counts, CountExact
<1> QED BY <1>1, Invariant, PTL

\* Until a page's or a removal's second transaction does not run, or a group's
\* messages are kept, every message is shown by a session, or will be.
THEOREM AllListed == Spec => []EveryMessageListed
<1>1. IInv => EveryMessageListed
  BY DEF IInv, Recent, EveryMessageListed
<1> QED BY <1>1, Invariant, PTL

\* In the same case a session is as recent as its newest message.
THEOREM NewestShown == Spec => []LastIsNewest
<1>1. IInv => LastIsNewest
  BY DEF IInv, Recent, LastIsNewest, Nothing
<1> QED BY <1>1, Invariant, PTL

\* Until a group's session outlives its messages, or a message is deleted alone,
\* every session that is shown has a message, except those just being deleted.
THEOREM NoEmptySession == Spec => []SessionsHaveMessages
<1>1. IInv => SessionsHaveMessages
  BY DEF IInv, Full, SessionsHaveMessages
<1> QED BY <1>1, Invariant, PTL
=============================================================================
