------------------------- MODULE VersionSync_proofs -------------------------
(***************************************************************************)
(* Theorems about VersionSync for all keys, callers, logs and numbers of   *)
(* failures, and their proofs.                                             *)
(***************************************************************************)
EXTENDS VersionSync, TLAPS, SequenceTheorems, WellFoundedInduction

\* A row of k as new as version m says is right.
Good(k, m) == Latest(k, Len(log)) <= m => Right(k, Len(log))

\* The staff are written before they are deleted.
Awaits(k) == kind = "staff" /\ \E c \in Callers : todo[c] = <<"delete">> /\ k \in Dels(c)
Fit(k, m) == Good(k, m) \/ Awaits(k)

\* What a call may still have to do.
Stages ==
    CASE kind = "groups"   -> {<< >>, <<"mark">>, <<"delete", "mark">>, <<"put", "delete", "mark">>}
      [] kind = "staff"    -> {<< >>, <<"delete">>, <<"put", "delete">>}
      [] kind = "settings" -> {<< >>, <<"put">>, <<"delete", "put">>}
      [] kind = "medals"   -> {<< >>, <<"mark">>, <<"put", "mark">>}
      [] kind = "replies"  -> {<< >>, <<"all">>}
Staged == \A c \in Callers : todo[c] \in Stages
Standing == kind = "medals" => \A i \in DOMAIN log : log[i].here

\* Who writes has the newest answer.
Latecomers ==
    \A c \in Callers : todo[c] # << >> =>
        Version <= answer[c] /\ \A d \in Callers : asked[d] <= answer[c] /\ answer[d] <= answer[c]

\* The table fits its version, and the versions that calls asked from.
Fits == \A k \in Keys : Fit(k, Version) /\ \A c \in Callers : Fit(k, asked[c])

\* Before the version comes what it covers.
Prepared ==
    \A c \in Callers :
        /\ kind \in {"groups", "medals"} /\ todo[c] \in {<<"mark">>, <<"delete", "mark">>} =>
              \A k \in Puts(c) : Good(k, answer[c])
        /\ kind = "groups" /\ todo[c] = <<"mark">> => \A k \in Dels(c) : Good(k, answer[c])
        /\ kind = "settings" /\ todo[c] = <<"put">> => \A k \in Dels(c) : Good(k, answer[c])

Unspoilt == upset \intersect Spoils = {}
IInv ==
    /\ TypeOK /\ Staged /\ Standing
    /\ Unspoilt => Latecomers /\ Fits /\ Prepared

\* What a call has not done yet is still to come.
Puttable(c) == todo[c] \in {<<"put", "delete", "mark">>, <<"put", "delete">>, <<"put">>,
                            <<"delete", "put">>, <<"put", "mark">>, <<"all">>}
Deletable(c) == todo[c] \in {<<"put", "delete", "mark">>, <<"delete", "mark">>, <<"delete">>,
                             <<"put", "delete">>, <<"delete", "put">>, <<"all">>}
Harmless == IF kind = "staff" THEN {"unmarked"} ELSE {"unmarked", "torn"}
Done(c, k) ==
    \/ Fit(k, answer[c])
    \/ k \in Puts(c) /\ Puttable(c)
    \/ k \in Dels(c) /\ Deletable(c)
Through == \A c \in Callers : state[c] = "writing" => \A k \in Keys : Done(c, k)
Thorough == upset \subseteq Harmless => Through

----------------------------------------------------------------------------
(* Newest changes and largest versions.                                    *)

LEMMA LeastNumber ==
  ASSUME NEW T, T \subseteq Nat, T # {}
  PROVE  \E x \in T : \A y \in T : x <= y
<1> DEFINE R == {ss \in Nat \X Nat : ss[1] < ss[2]}
<1>1. IsWellFoundedOn(R, Nat)
  BY NatLessThanWellFounded DEF OpToRel
<1> HIDE DEF R
<1>2. \E x \in T : \A y \in T : ~(<<y, x>> \in R)
  BY <1>1, WFMin
<1>3. \A x, y \in Nat : <<y, x>> \notin R => x <= y
  BY DEF R
<1> QED BY <1>2, <1>3

\* A bounded set of numbers has a greatest, which Max finds.
LEMMA MaxFound ==
  ASSUME NEW n \in Nat, NEW S, S \subseteq 0 .. n, S # {}
  PROVE  Max(S) \in S /\ \A y \in S : y <= Max(S)
<1> DEFINE T == {m \in Nat : \E s \in S : m + s = n}
<1>1. ASSUME NEW s \in S PROVE s \in Nat /\ \E m \in T : m + s = n
  <2>1. s \in Nat /\ n - s \in Nat /\ (n - s) + s = n
    OBVIOUS
  <2> QED BY <2>1
<1>2. T \subseteq Nat /\ T # {}
  BY <1>1
<1>3. PICK x \in T : \A y \in T : x <= y
  <2> HIDE DEF T
  <2> QED BY <1>2, LeastNumber
<1>4. PICK g \in S : x + g = n
  OBVIOUS
<1>5. ASSUME NEW y \in S PROVE g >= y
  <2>1. PICK m \in T : m + y = n
    BY <1>1
  <2>2. x <= m /\ x \in Nat /\ m \in Nat /\ g \in Nat /\ y \in Nat
    BY <1>1, <1>2, <1>3
  <2> QED BY <1>4, <2>1, <2>2
<1>6. \E z \in S : \A y \in S : z >= y
  BY <1>5
<1>7. Max(S) \in S /\ \A y \in S : Max(S) >= y
  BY <1>6 DEF Max
<1>8. Max(S) \in Nat
  BY <1>1, <1>7
<1> HIDE DEF T
<1> QED BY <1>1, <1>7, <1>8

\* The change that says what k is.
LEMMA LatestFacts ==
  ASSUME TypeOK, NEW k, NEW n \in 0 .. Len(log)
  PROVE  /\ Latest(k, n) \in 0 .. n
         /\ Latest(k, n) # 0 => log[Latest(k, n)].key = k
         /\ \A i \in 1 .. n : log[i].key = k => i <= Latest(k, n)
<1> DEFINE S == {0} \union {i \in 1 .. n : log[i].key = k}
<1>1. S \subseteq 0 .. n /\ S # {} /\ n \in Nat
  BY DEF TypeOK
<1>2. Max(S) \in S /\ \A y \in S : y <= Max(S)
  <2> HIDE DEF S
  <2> QED BY <1>1, MaxFound
<1>3. Latest(k, n) = Max(S)
  BY DEF Latest
<1> QED BY <1>1, <1>2, <1>3

\* Later changes are about other keys, or newer.
LEMMA LatestWithin ==
  ASSUME TypeOK, NEW k, NEW n \in 0 .. Len(log)
  PROVE  /\ Latest(k, n) <= Latest(k, Len(log))
         /\ Latest(k, Len(log)) <= n => Latest(k, n) = Latest(k, Len(log))
<1>1. Len(log) \in Nat /\ n \in Nat /\ n <= Len(log) /\ Len(log) \in 0 .. Len(log)
  BY DEF TypeOK
<1> DEFINE a == Latest(k, n)  b == Latest(k, Len(log))
<1>2. a \in 0 .. n /\ (a # 0 => log[a].key = k) /\ \A i \in 1 .. n : log[i].key = k => i <= a
  BY LatestFacts
<1>3. b \in 0 .. Len(log) /\ (b # 0 => log[b].key = k) /\ \A i \in 1 .. Len(log) : log[i].key = k => i <= b
  BY <1>1, LatestFacts
<1> HIDE DEF a, b
<1>4. a <= b
  BY <1>1, <1>2, <1>3
<1>5. b <= n => b <= a
  BY <1>1, <1>2, <1>3
<1> QED BY <1>1, <1>2, <1>3, <1>4, <1>5 DEF a, b

\* The largest version of any row.
LEMMA LargestVersion ==
  ASSUME NEW n \in Nat, NEW v \in [Keys -> 0 .. n]
  PROVE  LET top == Max({0} \union {v[k] : k \in Keys}) IN
         /\ top \in 0 .. n /\ \A k \in Keys : v[k] <= top
         /\ \A m \in Nat : (\A k \in Keys : v[k] <= m) => top <= m
<1> DEFINE S == {0} \union {v[k] : k \in Keys}
<1>1. S \subseteq 0 .. n /\ S # {}
  OBVIOUS
<1>2. Max(S) \in S /\ \A y \in S : y <= Max(S)
  <2> HIDE DEF S
  <2> QED BY <1>1, MaxFound
<1>3. \A k \in Keys : v[k] \in S
  OBVIOUS
<1>4. Max(S) = 0 \/ \E k \in Keys : Max(S) = v[k]
  BY <1>2
<1> HIDE DEF S
<1>5. Max(S) \in 0 .. n /\ \A k \in Keys : v[k] <= Max(S)
  BY <1>1, <1>2, <1>3
<1>6. ASSUME NEW m \in Nat, \A k \in Keys : v[k] <= m PROVE Max(S) <= m
  BY <1>4, <1>6
<1> QED BY <1>5, <1>6 DEF S

\* The version held is the mark, or the least that no row's exceeds.
LEMMA VersionFacts ==
  ASSUME TypeOK
  PROVE  /\ Version \in 0 .. Len(log)
         /\ Marked => Version = mark
         /\ ~Marked => \A k \in Keys : vers[k] <= Version
         /\ ~Marked => \A m \in Nat : (\A k \in Keys : vers[k] <= m) => Version <= m
<1>1. Len(log) \in Nat /\ vers \in [Keys -> 0 .. Len(log)] /\ mark \in 0 .. Len(log)
  BY DEF TypeOK
<1> QED BY <1>1, LargestVersion DEF Version

LEMMA VersionNext ==
  ASSUME TypeOK'
  PROVE  /\ Version' \in 0 .. Len(log')
         /\ Marked' => Version' = mark'
         /\ ~Marked' => \A k \in Keys : vers'[k] <= Version'
         /\ ~Marked' => \A m \in Nat : (\A k \in Keys : vers'[k] <= m) => Version' <= m
<1>1. Len(log') \in Nat /\ vers' \in [Keys -> 0 .. Len(log')] /\ mark' \in 0 .. Len(log')
  BY DEF TypeOK
<1> QED BY <1>1, LargestVersion DEF Version

----------------------------------------------------------------------------
(* The sorts of the variables.                                             *)

LEMMA InitType == Init => TypeOK
<1> SUFFICES ASSUME Init PROVE TypeOK
  OBVIOUS
<1>1. log \in Seq([key : Keys, here : BOOLEAN]) /\ Len(log) <= MaxLog /\ Len(log) \in Nat
  <2>1. [key : Keys, here : {TRUE}] \subseteq [key : Keys, here : BOOLEAN]
    OBVIOUS
  <2>2. Before \in Seq([key : Keys, here : BOOLEAN])
    BY <2>1, SeqMonotonic, BeforeAssumption
  <2>3. Len(Before) \in Nat
    BY BeforeAssumption
  <2> QED BY <2>2, <2>3, BeforeAssumption DEF Init
<1>2. << >> \in Seq({"put", "delete", "mark", "all"})
  OBVIOUS
<1> QED BY <1>1, <1>2, BoundAssumption DEF Init, TypeOK

\* An answer leaves rows that have a version, neither beyond the log.
LEMMA WrittenType ==
  ASSUME TypeOK, NEW c \in Callers, Written(c)
  PROVE  /\ rows' \in [Keys -> 0 .. Len(log)] /\ vers' \in [Keys -> 0 .. Len(log)]
         /\ \A k \in Keys : rows'[k] = 0 <=> vers'[k] = 0
         /\ \A k \in Keys : vers'[k] <= answer[c] \/ vers'[k] = vers[k]
<1>1. answer[c] \in 0 .. Len(log) /\ Len(log) \in Nat /\ answer[c] \in Nat
  BY DEF TypeOK
<1>2. \A k \in Keys : Latest(k, answer[c]) \in 0 .. answer[c]
  BY <1>1, LatestFacts
<1>3. \A k \in Puts(c) : k \in Keys /\ Latest(k, answer[c]) # 0
  BY DEF Puts, Changed, There
<1>4. \A k \in Puts(c) : RowVersion(c, k) \in 1 .. answer[c]
  BY <1>1, <1>2, <1>3 DEF RowVersion
<1>5. /\ \A k \in Keys : rows'[k] = IF k \in Puts(c) /\ ~(kind = "groups" /\ rows[k] # 0)
                                     THEN Latest(k, answer[c]) ELSE rows[k]
      /\ \A k \in Keys : vers'[k] = IF k \in Puts(c) THEN RowVersion(c, k) ELSE vers[k]
      /\ DOMAIN rows' = Keys /\ DOMAIN vers' = Keys
      /\ rows' = [k \in Keys |-> rows'[k]] /\ vers' = [k \in Keys |-> vers'[k]]
  BY DEF Written
<1>6. ASSUME NEW k \in Keys
      PROVE  /\ rows'[k] \in 0 .. Len(log) /\ vers'[k] \in 0 .. Len(log)
             /\ rows'[k] = 0 <=> vers'[k] = 0
             /\ vers'[k] <= answer[c] \/ vers'[k] = vers[k]
  <2>1. rows[k] \in 0 .. Len(log) /\ vers[k] \in 0 .. Len(log) /\ (rows[k] = 0 <=> vers[k] = 0)
    BY DEF TypeOK
  <2>2. CASE k \in Puts(c)
    BY <1>1, <1>2, <1>3, <1>4, <1>5, <2>1, <2>2
  <2>3. CASE k \notin Puts(c)
    BY <1>5, <2>1, <2>3
  <2> QED BY <2>2, <2>3
<1> QED BY <1>5, <1>6

\* The transactions still to come.
LEMMA PassesType ==
  ASSUME TypeOK, NEW c \in Callers, state[c] = "writing", todo[c] # << >>,
         \/ Passes(c)
         \/ todo' = [todo EXCEPT ![c] = << >>]
         \/ todo' = todo
  PROVE  /\ todo' \in [Callers -> Seq({"put", "delete", "mark", "all"})]
         /\ \A d \in Callers : todo'[d] # << >> => state[d] = "writing"
<1>1. todo[c] \in Seq({"put", "delete", "mark", "all"})
  BY DEF TypeOK
<1>2. Tail(todo[c]) \in Seq({"put", "delete", "mark", "all"})
  BY <1>1
<1>3. << >> \in Seq({"put", "delete", "mark", "all"})
  OBVIOUS
<1> HIDE <1>1
<1> QED BY <1>2, <1>3 DEF TypeOK, Passes

LEMMA NextType == TypeOK /\ [Next]_vars => TypeOK'
<1> SUFFICES ASSUME TypeOK, [Next]_vars PROVE TypeOK'
  OBVIOUS
<1> DEFINE Todos == Seq({"put", "delete", "mark", "all"})
<1>1. Len(log) \in Nat /\ MaxLog \in Nat /\ MaxFaults \in Nat
  BY BoundAssumption DEF TypeOK
<1>2. ASSUME NEW k \in Keys, NEW here \in BOOLEAN, Change(k, here) PROVE TypeOK'
  <2>1. [key |-> k, here |-> here] \in [key : Keys, here : BOOLEAN]
    OBVIOUS
  <2>2. /\ log' \in Seq([key : Keys, here : BOOLEAN]) /\ Len(log') = Len(log) + 1
        /\ Len(log') <= MaxLog
    BY <1>1, <1>2, <2>1 DEF Change, TypeOK
  <2>3. 0 .. Len(log) \subseteq 0 .. Len(log')
    BY <1>1, <2>2
  <2>4. UNCHANGED <<kind, rows, vers, mark, todo, asked, answer, state, upset, faults>>
    BY <1>2 DEF Change, client, table
  <2> HIDE DEF Todos
  <2> QED BY <2>2, <2>3, <2>4 DEF TypeOK
<1>3. ASSUME NEW c \in Callers, Call(c) PROVE TypeOK'
  <2>1. CASE Ask(c)
    <3>1. Version \in 0 .. Len(log)
      BY VersionFacts
    <3> QED BY <2>1, <3>1 DEF Ask, TypeOK, table
  <2>2. CASE Answer(c)
    <3>1. Plan \in Todos /\ << >> \in Todos
      <4>1. kind \in {"groups", "staff", "settings", "medals", "replies"}
        BY KindAssumption DEF TypeOK
      <4>2. /\ <<"put", "delete", "mark">> \in Todos /\ <<"put", "delete">> \in Todos
            /\ <<"delete", "put">> \in Todos /\ <<"put", "mark">> \in Todos
            /\ <<"all">> \in Todos /\ << >> \in Todos
        OBVIOUS
      <4> HIDE DEF Todos
      <4> QED BY <4>1, <4>2 DEF Plan
    <3>2. todo' \in [Callers -> Todos]
      BY <2>2, <3>1 DEF Answer, TypeOK
    <3>3. Len(log) \in 0 .. Len(log)
      BY <1>1
    <3>4. upset' \subseteq Upsets
      BY <2>2 DEF Answer, TypeOK, Upsets
    <3> HIDE DEF Todos
    <3> QED BY <2>2, <3>2, <3>3, <3>4 DEF Answer, TypeOK, table, Todos
  <2>3. CASE Refused(c)
    BY <1>1, <2>3 DEF Refused, TypeOK, table
  <2>4. CASE Return(c)
    BY <1>1, <2>4 DEF Return, TypeOK, table
  <2>5. ASSUME NEW t, Does(c, t), \/ Passes(c)
                                 \/ todo' = [todo EXCEPT ![c] = << >>]
                                 \/ todo' = todo,
               rows' \in [Keys -> 0 .. Len(log)], vers' \in [Keys -> 0 .. Len(log)],
               \A k \in Keys : rows'[k] = 0 <=> vers'[k] = 0,
               mark' \in 0 .. Len(log), upset' \subseteq Upsets, faults' \in 0 .. MaxFaults
        PROVE  TypeOK'
    <3>1. /\ todo' \in [Callers -> Todos]
          /\ \A d \in Callers : todo'[d] # << >> => state[d] = "writing"
      BY <2>5, PassesType DEF Does
    <3> HIDE DEF Todos
    <3> QED BY <2>5, <3>1 DEF Does, TypeOK, Todos
  <2>6. CASE Put(c)
    <3>1. Does(c, "put") /\ Passes(c) /\ Written(c) /\ UNCHANGED <<mark, upset, faults>>
      BY <2>6 DEF Put
    <3> QED BY <2>5, <3>1, WrittenType DEF TypeOK
  <2>7. CASE Delete(c)
    <3>1. PICK E \in Removed(Dels(c)) :
            /\ rows' = [k \in Keys |-> IF k \in E THEN 0 ELSE rows[k]]
            /\ vers' = [k \in Keys |-> IF k \in E THEN 0 ELSE vers[k]]
            /\ upset' = upset \union (IF E # Dels(c) THEN {"merged"} ELSE {})
      BY <2>7 DEF Delete
    <3>2. /\ rows' \in [Keys -> 0 .. Len(log)] /\ vers' \in [Keys -> 0 .. Len(log)]
          /\ \A k \in Keys : rows'[k] = 0 <=> vers'[k] = 0
          /\ upset' \subseteq Upsets
      BY <1>1, <3>1 DEF TypeOK, Upsets
    <3> QED BY <2>5, <2>7, <3>2 DEF Delete, TypeOK
  <2>8. CASE SetMark(c)
    BY <2>5, <2>8 DEF SetMark, TypeOK
  <2>9. CASE All(c)
    <3>1. Does(c, "all") /\ Passes(c) /\ UNCHANGED <<mark, faults>>
      BY <2>9 DEF All
    <3>2. CASE Dels(c) = {}
      BY <2>5, <2>9, <3>1, <3>2, WrittenType DEF All, TypeOK
    <3>3. CASE Dels(c) # {}
      BY <2>5, <2>9, <3>1, <3>3 DEF All, TypeOK, Upsets
    <3> QED BY <3>2, <3>3
  <2>10. ASSUME NEW t, NEW what \in Upsets, Fail(c, t, what) PROVE TypeOK'
    <3>1. Does(c, t) /\ UNCHANGED <<rows, vers, mark>> /\ upset' = upset \union {what}
      BY <2>10 DEF Fail, table
    <3>2. Passes(c) \/ todo' = [todo EXCEPT ![c] = << >>]
      BY <2>10 DEF Fail, Passes
    <3>3. faults' \in 0 .. MaxFaults
      BY <1>1, <2>10 DEF Fail, TypeOK
    <3> QED BY <2>5, <3>1, <3>2, <3>3 DEF TypeOK
  <2> QED
    BY <1>3, <2>1, <2>2, <2>3, <2>4, <2>6, <2>7, <2>8, <2>9, <2>10 DEF Call, Upsets
<1>4. CASE Crash
  <2>1. /\ todo' = [c \in Callers |-> << >>] /\ state' = [c \in Callers |-> "idle"]
        /\ asked' = [c \in Callers |-> 0] /\ answer' = [c \in Callers |-> 0]
        /\ UNCHANGED <<kind, log, rows, vers, mark>>
    BY <1>4 DEF Crash, table
  <2>2. upset' \subseteq Upsets /\ faults' \in 0 .. MaxFaults
    BY <1>1, <1>4 DEF Crash, TypeOK, Upsets
  <2>3. todo' \in [Callers -> Todos]
    BY <2>1
  <2> HIDE DEF Todos
  <2> QED BY <1>1, <2>1, <2>2, <2>3 DEF TypeOK, Todos
<1>5. CASE UNCHANGED vars
  BY <1>5 DEF vars, client, table, TypeOK
<1> QED
  BY <1>2, <1>3, <1>4, <1>5 DEF Next

----------------------------------------------------------------------------
(* The transactions of a call.                                             *)

Five == {"groups", "staff", "settings", "medals", "replies"}

LEMMA KindIn == ASSUME TypeOK PROVE kind \in Five
BY KindAssumption DEF TypeOK, Five

LEMMA Tails ==
  /\ Head(<<"put", "delete", "mark">>) = "put" /\ Head(<<"put", "delete">>) = "put"
  /\ Head(<<"delete", "put">>) = "delete" /\ Head(<<"put", "mark">>) = "put"
  /\ Head(<<"delete", "mark">>) = "delete" /\ Head(<<"put">>) = "put"
  /\ Head(<<"delete">>) = "delete" /\ Head(<<"mark">>) = "mark" /\ Head(<<"all">>) = "all"
  /\ Tail(<<"put", "delete", "mark">>) = <<"delete", "mark">>
  /\ Tail(<<"put", "delete">>) = <<"delete">> /\ Tail(<<"delete", "put">>) = <<"put">>
  /\ Tail(<<"put", "mark">>) = <<"mark">> /\ Tail(<<"delete", "mark">>) = <<"mark">>
  /\ Tail(<<"put">>) = << >> /\ Tail(<<"delete">>) = << >>
  /\ Tail(<<"mark">>) = << >> /\ Tail(<<"all">>) = << >>
OBVIOUS

\* Which transaction comes first, and what is left after it.
LEMMA Turns ==
  ASSUME TypeOK, Staged, NEW c \in Callers, NEW t, Does(c, t)
  PROVE  \/ /\ kind = "groups" /\ t = "put" /\ todo[c] = <<"put", "delete", "mark">>
            /\ Tail(todo[c]) = <<"delete", "mark">>
         \/ /\ kind = "groups" /\ t = "delete" /\ todo[c] = <<"delete", "mark">>
            /\ Tail(todo[c]) = <<"mark">>
         \/ kind = "groups" /\ t = "mark" /\ todo[c] = <<"mark">> /\ Tail(todo[c]) = << >>
         \/ /\ kind = "staff" /\ t = "put" /\ todo[c] = <<"put", "delete">>
            /\ Tail(todo[c]) = <<"delete">>
         \/ kind = "staff" /\ t = "delete" /\ todo[c] = <<"delete">> /\ Tail(todo[c]) = << >>
         \/ /\ kind = "settings" /\ t = "delete" /\ todo[c] = <<"delete", "put">>
            /\ Tail(todo[c]) = <<"put">>
         \/ kind = "settings" /\ t = "put" /\ todo[c] = <<"put">> /\ Tail(todo[c]) = << >>
         \/ /\ kind = "medals" /\ t = "put" /\ todo[c] = <<"put", "mark">>
            /\ Tail(todo[c]) = <<"mark">>
         \/ kind = "medals" /\ t = "mark" /\ todo[c] = <<"mark">> /\ Tail(todo[c]) = << >>
         \/ kind = "replies" /\ t = "all" /\ todo[c] = <<"all">> /\ Tail(todo[c]) = << >>
<1>1. todo[c] # << >> /\ Head(todo[c]) = t /\ todo[c] \in Stages
  BY DEF Does, Staged
<1>2. CASE kind = "groups"
  BY <1>1, <1>2, Tails DEF Stages
<1>3. CASE kind = "staff"
  BY <1>1, <1>3, Tails DEF Stages
<1>4. CASE kind = "settings"
  BY <1>1, <1>4, Tails DEF Stages
<1>5. CASE kind = "medals"
  BY <1>1, <1>5, Tails DEF Stages
<1>6. CASE kind = "replies"
  BY <1>1, <1>6, Tails DEF Stages
<1> QED BY <1>2, <1>3, <1>4, <1>5, <1>6, KindIn DEF Five

\* Different sequences of transactions.
LEMMA Plans ==
  /\ <<"put", "delete", "mark">> \notin {<<"delete", "mark">>, <<"mark">>, <<"delete">>, <<"put">>, << >>}
  /\ <<"put", "delete">> \notin {<<"delete", "mark">>, <<"mark">>, <<"delete">>, <<"put">>, << >>}
  /\ <<"delete", "put">> \notin {<<"delete", "mark">>, <<"mark">>, <<"delete">>, <<"put">>, << >>}
  /\ <<"put", "mark">> \notin {<<"delete", "mark">>, <<"mark">>, <<"delete">>, <<"put">>, << >>}
  /\ <<"all">> \notin {<<"delete", "mark">>, <<"mark">>, <<"delete">>, <<"put">>, << >>}
  /\ <<"delete", "mark">> \notin {<<"mark">>, <<"delete">>, <<"put">>, << >>}
  /\ <<"mark">> \notin {<<"delete">>, <<"put">>, << >>}
  /\ <<"delete">> \notin {<<"put">>, << >>}
  /\ <<"put">> # << >>
OBVIOUS

LEMMA StagedStep == TypeOK /\ TypeOK' /\ Staged /\ [Next]_vars => Staged'
<1> SUFFICES ASSUME TypeOK, TypeOK', Staged, [Next]_vars PROVE Staged'
  OBVIOUS
<1>1. kind' = kind
  BY DEF Next, Change, Call, Ask, Answer, Refused, Return, Put, Delete, SetMark, All, Fail,
     Does, Crash, vars
<1>2. Stages' = Stages /\ << >> \in Stages /\ Plan \in Stages
  BY <1>1, KindIn DEF Stages, Plan, Five
<1>3. ASSUME NEW c \in Callers, Call(c) PROVE Staged'
  <2>1. CASE Ask(c) \/ Refused(c) \/ Return(c)
    BY <1>2, <2>1 DEF Ask, Refused, Return, Staged
  <2>2. CASE Answer(c)
    BY <1>2, <2>2 DEF Answer, Staged, TypeOK
  <2>3. ASSUME NEW t, Does(c, t), Passes(c) \/ todo' = [todo EXCEPT ![c] = << >>]
        PROVE  Staged'
    <3>1. Tail(todo[c]) \in Stages
      BY <2>3, Turns DEF Stages
    <3>2. \A d \in Callers : todo'[d] \in {todo[d], Tail(todo[c]), << >>}
      BY <2>3 DEF TypeOK, Passes
    <3> QED BY <1>2, <3>1, <3>2 DEF Staged
  <2>4. CASE Put(c) \/ Delete(c) \/ SetMark(c) \/ All(c)
    BY <2>3, <2>4 DEF Put, Delete, SetMark, All
  <2>5. ASSUME NEW t, NEW what, Fail(c, t, what) PROVE Staged'
    BY <2>3, <2>5 DEF Fail, Passes
  <2> QED BY <1>3, <2>1, <2>2, <2>4, <2>5 DEF Call
<1>4. CASE Crash
  BY <1>2, <1>4 DEF Crash, Staged
<1>5. CASE UNCHANGED vars \/ \E k \in Keys, here \in BOOLEAN : Change(k, here)
  BY <1>2, <1>5 DEF Change, vars, client, Staged
<1> QED BY <1>3, <1>4, <1>5 DEF Next

LEMMA StandingStep == TypeOK /\ TypeOK' /\ Standing /\ [Next]_vars => Standing'
<1> SUFFICES ASSUME TypeOK, TypeOK', Standing, [Next]_vars PROVE Standing'
  OBVIOUS
<1>1. CASE UNCHANGED <<kind, log>>
  BY <1>1 DEF Standing
<1>2. ASSUME NEW k \in Keys, NEW here \in BOOLEAN, Change(k, here) PROVE Standing'
  <2>1. kind' = kind /\ log' = Append(log, [key |-> k, here |-> here])
        /\ (kind = "medals" => here)
    BY <1>2 DEF Change
  <2>2. [key |-> k, here |-> here] \in [key : Keys, here : BOOLEAN]
    OBVIOUS
  <2>3. log \in Seq([key : Keys, here : BOOLEAN]) /\ Len(log) \in Nat
    BY DEF TypeOK
  <2>4. ASSUME NEW i \in DOMAIN log', kind = "medals" PROVE log'[i].here
    <3>1. CASE i \in DOMAIN log
      <4>1. log'[i] = log[i]
        BY <2>1, <2>2, <2>3, <3>1
      <4> QED BY <2>4, <3>1, <4>1 DEF Standing
    <3>2. CASE i \notin DOMAIN log
      <4>1. log'[i] = [key |-> k, here |-> here]
        BY <2>1, <2>2, <2>3, <3>2
      <4>2. log'[i].here = here
        BY <4>1
      <4> QED BY <2>1, <2>4, <4>2, Zenon
    <3> QED BY <3>1, <3>2
  <2> QED BY <2>1, <2>4 DEF Standing
<1> QED
  BY <1>1, <1>2 DEF Next, Call, Ask, Answer, Refused, Return, Put, Delete, SetMark, All, Fail,
     Does, Crash, vars

----------------------------------------------------------------------------
(* What a step does to the rows that are right.                            *)

LEMMA LatestNat == ASSUME TypeOK, NEW k PROVE Latest(k, Len(log)) \in Nat
<1>1. Len(log) \in Nat /\ Len(log) \in 0 .. Len(log)
  BY DEF TypeOK
<1> QED BY <1>1, LatestFacts

LEMMA LatestKept ==
  ASSUME log' = log, NEW k
  PROVE  Latest(k, Len(log))' = Latest(k, Len(log)) /\ \A n : Latest(k, n)' = Latest(k, n)
BY DEF Latest

\* A row is as good for an older version.
LEMMA GoodOlder ==
  ASSUME TypeOK, NEW k \in Keys, NEW n \in 0 .. Len(log), NEW m \in Nat, m <= n
  PROVE  (Good(k, n) => Good(k, m)) /\ (Fit(k, n) => Fit(k, m))
<1>1. Latest(k, Len(log)) \in Nat /\ n \in Nat
  BY LatestFacts DEF TypeOK
<1> QED BY <1>1 DEF Good, Fit

\* What an answer makes right is right until the key changes again.
LEMMA RightGood ==
  ASSUME TypeOK, NEW k \in Keys, NEW n \in 0 .. Len(log), Right(k, n)
  PROVE  Good(k, n)
BY LatestWithin DEF Good, Right, There

LEMMA RightNext ==
  ASSUME TypeOK, UNCHANGED <<kind, log>>, NEW k \in Keys, NEW n \in 0 .. Len(log), Right(k, n)'
  PROVE  Good(k, n)'
<1>1. Latest(k, n)' = Latest(k, n) /\ Latest(k, Len(log))' = Latest(k, Len(log))
  BY LatestKept
<1>2. Latest(k, Len(log)) <= n => Latest(k, n) = Latest(k, Len(log))
  BY LatestWithin
<1> QED BY <1>1, <1>2 DEF Good, Right, There

\* No medal goes.
LEMMA NoneDeleted ==
  ASSUME TypeOK, Standing, kind = "medals", NEW c \in Callers
  PROVE  Dels(c) = {}
<1> SUFFICES ASSUME NEW k \in Changed(c) PROVE There(k, answer[c])
  BY DEF Dels, Puts
<1>1. answer[c] \in 0 .. Len(log) /\ asked[c] \in Nat /\ Len(log) \in Nat /\ DOMAIN log = 1 .. Len(log)
  BY DEF TypeOK
<1>2. Latest(k, answer[c]) \in 0 .. answer[c] /\ Latest(k, answer[c]) > asked[c]
  BY <1>1, LatestFacts DEF Changed
<1>3. Latest(k, answer[c]) \in DOMAIN log /\ Latest(k, answer[c]) # 0
  BY <1>1, <1>2
<1> QED BY <1>3 DEF There, Standing

\* A row that an answer does not mention was right, or will be.
LEMMA Unmentioned ==
  ASSUME TypeOK, NEW c \in Callers, NEW k \in Keys \ Changed(c), Fit(k, asked[c])
  PROVE  Fit(k, answer[c])
<1>1. answer[c] \in 0 .. Len(log) /\ asked[c] \in Nat /\ answer[c] \in Nat
  BY DEF TypeOK
<1>2. Latest(k, answer[c]) \in Nat /\ Latest(k, answer[c]) <= asked[c]
  BY <1>1, LatestFacts DEF Changed
<1>3. Good(k, asked[c]) => Good(k, answer[c])
  BY <1>1, <1>2, LatestWithin DEF Good
<1> QED BY <1>3 DEF Fit

\* Rows that stay as they are.
LEMMA GoodKept ==
  ASSUME UNCHANGED <<kind, log>>, NEW k \in Keys, rows'[k] = rows[k], NEW m, Good(k, m)
  PROVE  Good(k, m)'
BY DEF Good, Right, There, Latest

\* Answers that stay as they are.
LEMMA AnswerKept ==
  ASSUME log' = log, NEW c, asked'[c] = asked[c], answer'[c] = answer[c]
  PROVE  Changed(c)' = Changed(c) /\ Puts(c)' = Puts(c) /\ Dels(c)' = Dels(c)
BY DEF Changed, Puts, Dels, There, Latest

\* What a transaction of call c does, if it only makes rows right.
LEMMA WriteRows ==
  ASSUME TypeOK, TypeOK', Latecomers, NEW c \in Callers, NEW t, Does(c, t),
         NEW q, todo' = [todo EXCEPT ![c] = q],
         \A k \in Keys : rows'[k] = rows[k] \/ Right(k, answer[c])',
         kind = "staff" /\ todo[c] = <<"delete">> => \A k \in Dels(c) : Good(k, answer[c])',
         NEW k \in Keys, NEW m \in Nat, m <= answer[c]
  PROVE  (Good(k, m) => Good(k, m)') /\ (Fit(k, m) => Fit(k, m)')
<1>1. /\ UNCHANGED <<kind, log, asked, answer>> /\ todo[c] # << >>
      /\ answer[c] \in 0 .. Len(log) /\ answer[c] \in Nat
  BY DEF Does, TypeOK
<1>2. ASSUME NEW j \in Keys, Right(j, answer[c])' PROVE Good(j, answer[c])'
  <2> DEFINE n == answer[c]
  <2>1. n' = n /\ n \in 0 .. Len(log)
    BY <1>1
  <2>2. Right(j, n)'
    BY <1>2
  <2>3. \A i \in 0 .. Len(log) : Right(j, i)' => Good(j, i)'
    BY <1>1, RightNext
  <2> QED BY <2>1, <2>2, <2>3 DEF Right, Good
<1>3. ASSUME NEW j \in Keys, Good(j, answer[c])' PROVE Good(j, m)'
  <2>1. Latest(j, Len(log)) \in Nat /\ Latest(j, Len(log))' = Latest(j, Len(log))
    BY <1>1, LatestNat, LatestKept
  <2> QED BY <1>1, <1>3, <2>1 DEF Good
<1>4. Good(k, m) => Good(k, m)'
  BY <1>1, <1>2, <1>3, GoodKept
<1>5. ASSUME Awaits(k) PROVE Fit(k, m)'
  <2>1. PICK d \in Callers : kind = "staff" /\ todo[d] = <<"delete">> /\ k \in Dels(d)
    BY <1>5 DEF Awaits
  <2>2. CASE d = c
    BY <1>3, <2>1, <2>2 DEF Fit
  <2>3. CASE d # c
    <3>1. todo'[d] = <<"delete">> /\ Dels(d)' = Dels(d)
      BY <1>1, <2>1, <2>3, AnswerKept DEF TypeOK
    <3> QED BY <1>1, <2>1, <3>1 DEF Fit, Awaits
  <2> QED BY <2>2, <2>3
<1> QED BY <1>4, <1>5 DEF Fit

\* So they do for the version of the answer.
LEMMA WriteAnswer ==
  ASSUME TypeOK, TypeOK', Latecomers, NEW c \in Callers, NEW t, Does(c, t),
         NEW q, todo' = [todo EXCEPT ![c] = q],
         \A k \in Keys : rows'[k] = rows[k] \/ Right(k, answer[c])',
         kind = "staff" /\ todo[c] = <<"delete">> => \A k \in Dels(c) : Good(k, answer[c])',
         NEW k \in Keys
  PROVE  (Good(k, answer[c]) => Good(k, answer[c])') /\ (Fit(k, answer[c]) => Fit(k, answer[c])')
<1>1. answer' = answer /\ answer[c] \in Nat /\ answer[c] <= answer[c]
  BY DEF Does, TypeOK
<1>2. \A m \in Nat : m <= answer[c] => (Good(k, m) => Good(k, m)') /\ (Fit(k, m) => Fit(k, m)')
  BY WriteRows
<1> QED BY <1>1, <1>2 DEF Good, Fit

\* So, while the version and the call's other transactions follow.
LEMMA WriteStep ==
  ASSUME TypeOK, TypeOK', Latecomers, Fits, Prepared, NEW c \in Callers, NEW t, Does(c, t),
         NEW q, todo' = [todo EXCEPT ![c] = q],
         \A k \in Keys : rows'[k] = rows[k] \/ Right(k, answer[c])',
         kind = "staff" /\ todo[c] = <<"delete">> => \A k \in Dels(c) : Good(k, answer[c])',
         Version' <= answer[c],
         Version' <= Version \/ \A k \in Keys : Fit(k, answer[c])',
         kind \in {"groups", "medals"} /\ q \in {<<"mark">>, <<"delete", "mark">>} =>
             \A k \in Puts(c) : Good(k, answer[c])',
         kind = "groups" /\ q = <<"mark">> => \A k \in Dels(c) : Good(k, answer[c])',
         kind = "settings" /\ q = <<"put">> => \A k \in Dels(c) : Good(k, answer[c])'
  PROVE  Latecomers' /\ Fits' /\ Prepared'
<1> DEFINE n == answer[c]
<1>1. /\ UNCHANGED <<kind, log, asked, answer>> /\ todo[c] # << >>
      /\ n \in 0 .. Len(log) /\ n \in Nat
      /\ \A d \in Callers : asked[d] \in Nat /\ answer[d] \in Nat
  BY DEF Does, TypeOK
<1>2. Version \in Nat /\ Version' \in Nat /\ Version <= n
  <2>1. Version \in 0 .. Len(log) /\ Version' \in 0 .. Len(log')
    BY VersionFacts, VersionNext
  <2>2. Len(log) \in Nat
    BY DEF TypeOK
  <2> QED BY <1>1, <2>1, <2>2 DEF Latecomers
<1>3. \A d \in Callers : asked[d] <= n /\ answer[d] <= n
  BY <1>1 DEF Latecomers
<1>4. ASSUME NEW k \in Keys, NEW m \in Nat, m <= n
      PROVE  (Good(k, m) => Good(k, m)') /\ (Fit(k, m) => Fit(k, m)')
  BY <1>4, WriteRows
<1>5. ASSUME NEW k \in Keys, NEW m \in Nat, m <= n, Fit(k, n)' PROVE Fit(k, m)'
  <2>1. Latest(k, Len(log)) \in Nat /\ Latest(k, Len(log))' = Latest(k, Len(log))
    BY <1>1, LatestNat, LatestKept
  <2> QED BY <1>1, <1>5, <2>1 DEF Fit, Good
<1>6. ASSUME NEW k \in Keys PROVE Fit(k, Version)'
  <2>1. CASE Version' <= Version
    <3>1. Fit(k, Version')
      <4>1. Version \in 0 .. Len(log)
        BY VersionFacts
      <4> QED BY <1>2, <2>1, <4>1, GoodOlder DEF Fits
    <3>2. \A m \in Nat : m <= n /\ Fit(k, m) => Fit(k, m)'
      BY <1>4
    <3> QED BY <1>2, <3>1, <3>2 DEF Fit, Good, Awaits, Right, There, Latest
  <2>2. CASE \A j \in Keys : Fit(j, n)'
    BY <1>2, <1>5, <2>2 DEF Fit, Good
  <2> QED BY <2>1, <2>2
<1>7. Fits'
  BY <1>1, <1>3, <1>4, <1>6 DEF Fits
<1>8. Latecomers'
  <2> SUFFICES ASSUME NEW d \in Callers, todo'[d] # << >>
               PROVE  /\ Version' <= answer[d]
                      /\ \A e \in Callers : asked[e] <= answer[d] /\ answer[e] <= answer[d]
    BY <1>1 DEF Latecomers
  <2>1. todo[d] # << >>
    BY <1>1 DEF TypeOK
  <2>2. answer[d] = n
    BY <1>1, <1>3, <2>1 DEF Latecomers
  <2> QED BY <1>3, <2>2
<1>9. Prepared'
  <2>1. ASSUME NEW d \in Callers PROVE Puts(d) \subseteq Keys /\ Dels(d) \subseteq Keys
    BY DEF Puts, Dels, Changed
  <2>2. ASSUME NEW d \in Callers, NEW k \in Keys, Good(k, answer[d]) PROVE Good(k, answer[d])'
    <3>1. answer[d] \in Nat /\ answer[d] <= n /\ answer'[d] = answer[d]
      BY <1>1, <1>3
    <3> QED BY <1>4, <2>2, <3>1 DEF Good
  <2>3. ASSUME NEW d \in Callers
        PROVE  Puts(d)' = Puts(d) /\ Dels(d)' = Dels(d) /\ todo'[d] = IF d = c THEN q ELSE todo[d]
    BY <1>1, AnswerKept DEF TypeOK
  <2>4. ASSUME NEW d \in Callers, d # c
        PROVE  /\ kind \in {"groups", "medals"} /\ todo[d] \in {<<"mark">>, <<"delete", "mark">>} =>
                      \A k \in Puts(d) : Good(k, answer[d])'
               /\ kind = "groups" /\ todo[d] = <<"mark">> => \A k \in Dels(d) : Good(k, answer[d])'
               /\ kind = "settings" /\ todo[d] = <<"put">> => \A k \in Dels(d) : Good(k, answer[d])'
    BY <2>1, <2>2 DEF Prepared
  <2> QED BY <1>1, <2>3, <2>4 DEF Prepared
<1> QED BY <1>7, <1>8, <1>9

----------------------------------------------------------------------------
(* The transactions.                                                       *)

\* Insertions make the rows right that the answer has.
LEMMA WrittenRows ==
  ASSUME TypeOK, TypeOK', Latecomers, NEW c \in Callers, NEW t, Does(c, t), Written(c), mark' = mark
  PROVE  /\ \A k \in Keys : rows'[k] = rows[k] \/ Right(k, answer[c])'
         /\ \A k \in Puts(c) : Good(k, answer[c])'
         /\ Version' <= answer[c]
         /\ Marked => Version' <= Version
<1> DEFINE n == answer[c]
<1>1. /\ UNCHANGED <<kind, log, asked, answer>> /\ todo[c] # << >>
      /\ n \in 0 .. Len(log) /\ n \in Nat /\ n' = n /\ Len(log) \in Nat
  BY DEF Does, TypeOK
<1>2. Version <= n /\ Version \in Nat /\ Version' \in Nat /\ Marked' = Marked
  <2>1. Version \in 0 .. Len(log) /\ Version' \in 0 .. Len(log')
    BY VersionFacts, VersionNext
  <2> QED BY <1>1, <2>1 DEF Latecomers, Marked
<1>3. ASSUME NEW k \in Puts(c) PROVE k \in Keys /\ There(k, n) /\ Latest(k, n) # 0 /\ There(k, n)'
  BY <1>1 DEF Puts, Changed, There, Latest
<1>4. ASSUME NEW k \in Puts(c) PROVE Right(k, n)'
  <2>1. rows'[k] = IF ~(kind = "groups" /\ rows[k] # 0) THEN Latest(k, n) ELSE rows[k]
    BY <1>3 DEF Written
  <2>2. Latest(k, n)' = Latest(k, n)
    BY <1>1 DEF Latest
  <2> QED BY <1>1, <1>3, <2>1, <2>2 DEF Right
<1>5. \A k \in Keys : rows'[k] = rows[k] \/ Right(k, n)'
  BY <1>4 DEF Written
<1>6. \A k \in Puts(c) : Good(k, n)'
  <2> SUFFICES ASSUME NEW k \in Puts(c) PROVE Good(k, n)'
    OBVIOUS
  <2>1. \A i \in 0 .. Len(log) : Right(k, i)' => Good(k, i)'
    BY <1>1, <1>3, RightNext
  <2> QED BY <1>1, <1>4, <2>1 DEF Right, Good
<1>7. Marked => Version' = Version
  BY <1>2, VersionFacts, VersionNext
<1>8. ~Marked => Version' <= n
  <2> SUFFICES ASSUME ~Marked PROVE Version' <= n
    OBVIOUS
  <2>1. \A k \in Keys : vers'[k] <= n \/ vers'[k] = vers[k]
    BY WrittenType
  <2>2. \A k \in Keys : vers[k] <= Version /\ vers[k] \in Nat
    <3>1. \A k \in Keys : vers[k] \in Nat
      BY DEF TypeOK
    <3> QED BY <3>1, VersionFacts
  <2>3. \A k \in Keys : vers'[k] <= n
    BY <1>1, <1>2, <2>1, <2>2
  <2> QED BY <1>1, <1>2, <2>3, VersionNext
<1> QED BY <1>2, <1>5, <1>6, <1>7, <1>8

\* bulkInsertGroupInfo and the others.
LEMMA PutStep ==
  ASSUME TypeOK, TypeOK', Staged, Latecomers, Fits, Prepared, NEW c \in Callers, Put(c)
  PROVE  Latecomers' /\ Fits' /\ Prepared'
<1> DEFINE n == answer[c]  q == Tail(todo[c])
<1>1. /\ Does(c, "put") /\ Written(c) /\ todo' = [todo EXCEPT ![c] = q] /\ mark' = mark
      /\ UNCHANGED <<kind, log, asked, answer>> /\ c \in DOMAIN todo /\ n \in Nat
  BY DEF Put, Passes, Does, TypeOK
<1>2. /\ \A k \in Keys : rows'[k] = rows[k] \/ Right(k, n)'
      /\ \A k \in Puts(c) : Good(k, n)'
      /\ Version' <= n /\ (Marked => Version' <= Version)
  BY <1>1, WrittenRows
<1>3. \/ kind = "groups" /\ todo[c] = <<"put", "delete", "mark">> /\ q = <<"delete", "mark">>
      \/ kind = "staff" /\ todo[c] = <<"put", "delete">> /\ q = <<"delete">>
      \/ kind = "settings" /\ todo[c] = <<"put">> /\ q = << >>
      \/ kind = "medals" /\ todo[c] = <<"put", "mark">> /\ q = <<"mark">>
  BY <1>1, Turns
<1>4. kind = "staff" => todo[c] # <<"delete">>
  BY <1>3, Plans
<1>5. ASSUME NEW k \in Keys PROVE (Good(k, n) => Good(k, n)') /\ (Fit(k, n) => Fit(k, n)')
  BY <1>1, <1>2, <1>4, WriteAnswer
<1>6. ASSUME ~Marked, NEW k \in Keys PROVE Fit(k, n)'
  <2>1. CASE k \in Puts(c)
    BY <1>2, <2>1 DEF Fit
  <2>2. CASE k \notin Changed(c)
    BY <1>5, <2>2, Unmentioned DEF Fits
  <2>3. CASE k \in Dels(c)
    <3>1. CASE kind = "settings"
      BY <1>3, <1>5, <2>3, <3>1 DEF Prepared, Fit
    <3>2. CASE kind = "staff"
      <4>1. todo'[c] = <<"delete">> /\ Dels(c)' = Dels(c) /\ kind' = kind
        BY <1>1, <1>3, <3>2, AnswerKept
      <4> QED BY <2>3, <3>2, <4>1 DEF Fit, Awaits
    <3> QED BY <1>3, <1>6, <3>1, <3>2 DEF Marked
  <2> QED BY <2>1, <2>2, <2>3 DEF Dels
<1>7. /\ kind = "groups" => q # <<"mark">>
      /\ kind = "settings" => q # <<"put">>
  BY <1>3, Plans
<1>8. Version' <= Version \/ \A k \in Keys : Fit(k, n)'
  BY <1>2, <1>6
<1> QED BY <1>1, <1>2, <1>4, <1>7, <1>8, WriteStep

\* bulkDeleteGroup and the others, if they delete what they were told to.
LEMMA DeleteStep ==
  ASSUME TypeOK, TypeOK', Staged, Latecomers, Fits, Prepared, NEW c \in Callers, Delete(c),
         rows' = [k \in Keys |-> IF k \in Dels(c) THEN 0 ELSE rows[k]],
         vers' = [k \in Keys |-> IF k \in Dels(c) THEN 0 ELSE vers[k]]
  PROVE  /\ Latecomers' /\ Fits' /\ Prepared'
         /\ \A k \in Keys : rows'[k] = rows[k] \/ Right(k, answer[c])'
         /\ \A k \in Dels(c) : Good(k, answer[c])'
<1> DEFINE n == answer[c]  q == Tail(todo[c])
<1>1. /\ Does(c, "delete") /\ todo' = [todo EXCEPT ![c] = q] /\ mark' = mark
      /\ UNCHANGED <<kind, log, asked, answer>> /\ todo[c] # << >>
      /\ n \in Nat /\ n \in 0 .. Len(log) /\ n' = n /\ Len(log) \in Nat
  BY DEF Delete, Passes, Does, TypeOK
<1>2. \A k \in Dels(c) : k \in Keys /\ ~There(k, n) /\ ~There(k, n)'
  BY <1>1 DEF Dels, Puts, Changed, There, Latest
<1>3. \A k \in Dels(c) : Right(k, n)'
  BY <1>1, <1>2 DEF Right
<1>4. \A k \in Dels(c) : Good(k, n)'
  <2> SUFFICES ASSUME NEW k \in Dels(c) PROVE Good(k, n)'
    OBVIOUS
  <2>1. \A i \in 0 .. Len(log) : Right(k, i)' => Good(k, i)'
    BY <1>1, <1>2, RightNext
  <2> QED BY <1>1, <1>3, <2>1 DEF Right, Good
<1>5. \A k \in Keys : rows'[k] = rows[k] \/ Right(k, n)'
  BY <1>3
<1>6. Version' <= Version /\ Version' <= n
  <2>1. Version \in 0 .. Len(log) /\ Version' \in 0 .. Len(log') /\ Marked' = Marked
    BY <1>1, VersionFacts, VersionNext DEF Marked
  <2>2. Version <= n /\ Version \in Nat /\ Version' \in Nat
    BY <1>1, <2>1 DEF Latecomers
  <2>3. CASE Marked
    BY <1>1, <2>1, <2>2, <2>3, VersionFacts, VersionNext
  <2>4. CASE ~Marked
    <3>1. \A k \in Keys : vers[k] <= Version /\ vers[k] \in Nat
      <4>1. \A k \in Keys : vers[k] \in Nat
        BY DEF TypeOK
      <4> QED BY <2>4, <4>1, VersionFacts
    <3>2. \A k \in Keys : vers'[k] <= Version
      BY <2>2, <3>1
    <3>3. \A m \in Nat : (\A k \in Keys : vers'[k] <= m) => Version' <= m
      BY <2>1, <2>4, VersionNext
    <3>4. Version' <= Version
      BY <2>2, <3>2, <3>3
    <3> QED BY <1>1, <2>2, <3>4
  <2> QED BY <2>3, <2>4
<1>7. \/ kind = "groups" /\ todo[c] = <<"delete", "mark">> /\ q = <<"mark">>
      \/ kind = "staff" /\ todo[c] = <<"delete">> /\ q = << >>
      \/ kind = "settings" /\ todo[c] = <<"delete", "put">> /\ q = <<"put">>
  BY <1>1, Turns
<1>8. kind \in {"groups", "medals"} /\ q \in {<<"mark">>, <<"delete", "mark">>} =>
         \A k \in Puts(c) : Good(k, n)'
  <2>1. kind = "groups" => \A k \in Puts(c) : Good(k, n) /\ k \in Keys
    BY <1>7 DEF Prepared, Puts, Changed
  <2>2. \A k \in Keys : Good(k, n) => Good(k, n)'
    BY <1>1, <1>4, <1>5, WriteAnswer
  <2>3. kind # "medals"
    BY <1>7
  <2> QED BY <2>1, <2>2, <2>3
<1> QED BY <1>1, <1>4, <1>5, <1>6, <1>8, WriteStep

\* setGroupMainVersion, insertConfig.
LEMMA SetMarkStep ==
  ASSUME TypeOK, TypeOK', Staged, Standing, Latecomers, Fits, Prepared, NEW c \in Callers, SetMark(c)
  PROVE  Latecomers' /\ Fits' /\ Prepared'
<1> DEFINE n == answer[c]  q == Tail(todo[c])
<1>1. /\ Does(c, "mark") /\ todo' = [todo EXCEPT ![c] = q] /\ mark' = n
      /\ UNCHANGED <<kind, log, asked, answer, rows, vers>> /\ n \in Nat /\ n \in 0 .. Len(log)
      /\ Len(log) \in Nat
  BY DEF SetMark, Passes, Does, TypeOK
<1>2. kind \in {"groups", "medals"} /\ todo[c] = <<"mark">> /\ q = << >>
  BY <1>1, Turns
<1>3. Version' = n
  <2>1. Marked'
    BY <1>1, <1>2 DEF Marked
  <2> QED BY <1>1, <2>1, VersionNext
<1>4. ASSUME NEW k \in Keys PROVE Fit(k, n)'
  <2>1. ASSUME k \in Puts(c) PROVE Fit(k, n)
    BY <1>2, <2>1 DEF Prepared, Fit
  <2>2. ASSUME k \notin Changed(c) PROVE Fit(k, n)
    BY <2>2, Unmentioned DEF Fits
  <2>3. ASSUME k \in Dels(c) PROVE Fit(k, n)
    <3>1. CASE kind = "groups"
      BY <1>2, <2>3, <3>1 DEF Prepared, Fit
    <3>2. CASE kind = "medals"
      BY <2>3, <3>2, NoneDeleted
    <3> QED BY <1>2, <3>1, <3>2
  <2>4. Fit(k, n)
    BY <2>1, <2>2, <2>3 DEF Dels
  <2>5. kind # "staff"
    BY <1>2
  <2>6. Fit(k, n) => Fit(k, n)'
    BY <1>1, <2>5, WriteAnswer
  <2> QED BY <2>4, <2>6
<1>5. q \notin {<<"mark">>, <<"delete", "mark">>, <<"put">>} /\ kind # "staff" /\ Version' <= n
  BY <1>1, <1>2, <1>3, Plans
<1> QED BY <1>1, <1>2, <1>3, <1>4, <1>5, WriteStep

\* batchInsertQuickReply, if it does not throw.
LEMMA AllStep ==
  ASSUME TypeOK, TypeOK', Staged, Latecomers, Fits, Prepared, NEW c \in Callers, All(c), Dels(c) = {}
  PROVE  /\ Latecomers' /\ Fits' /\ Prepared'
         /\ \A k \in Keys : Fit(k, answer[c])'
<1> DEFINE n == answer[c]  q == Tail(todo[c])
<1>1. /\ Does(c, "all") /\ Written(c) /\ todo' = [todo EXCEPT ![c] = q] /\ mark' = mark
      /\ UNCHANGED <<kind, log, asked, answer>> /\ n \in Nat
  BY DEF All, Passes, Does, TypeOK
<1>2. /\ \A k \in Keys : rows'[k] = rows[k] \/ Right(k, n)'
      /\ \A k \in Puts(c) : Good(k, n)'
      /\ Version' <= n
  BY <1>1, WrittenRows
<1>3. kind = "replies" /\ q = << >>
  BY <1>1, Turns
<1>4. ASSUME NEW k \in Keys PROVE Fit(k, n)'
  <2>1. CASE k \in Puts(c)
    BY <1>2, <2>1 DEF Fit
  <2>2. CASE k \notin Changed(c)
    <3>1. Fit(k, n)
      BY <2>2, Unmentioned DEF Fits
    <3>2. kind # "staff"
      BY <1>3
    <3>3. Fit(k, n) => Fit(k, n)'
      BY <1>1, <1>2, <3>2, WriteAnswer
    <3> QED BY <3>1, <3>3
  <2> QED BY <2>1, <2>2 DEF Dels
<1> QED BY <1>1, <1>2, <1>3, <1>4, WriteStep

\* A transaction that changes nothing.
LEMMA IdleStep ==
  ASSUME TypeOK, TypeOK', Staged, Latecomers, Fits, Prepared, NEW c \in Callers, NEW t, Does(c, t),
         todo' = [todo EXCEPT ![c] = << >>] \/ Passes(c), UNCHANGED table,
         t = "delete" => FALSE, kind \in {"groups", "medals"} => t # "put" \/ todo' = [todo EXCEPT ![c] = << >>]
  PROVE  Latecomers' /\ Fits' /\ Prepared'
<1>1. /\ UNCHANGED <<kind, log, asked, answer, rows, vers, mark>> /\ todo[c] # << >>
      /\ answer[c] \in Nat
  BY DEF Does, table, TypeOK
<1>2. PICK q \in {<< >>, Tail(todo[c])} : todo' = [todo EXCEPT ![c] = q]
  BY DEF Passes
<1>3. Version' = Version /\ Version <= answer[c] /\ Version \in Nat
  <2>1. Version' = Version
    BY <1>1 DEF Version, Marked
  <2>2. Version \in 0 .. Len(log)
    BY VersionFacts
  <2> QED BY <1>1, <2>1, <2>2 DEF Latecomers
<1>4. kind = "staff" => todo[c] # <<"delete">>
  BY Turns, Plans
<1>5. /\ kind \in {"groups", "medals"} => q \notin {<<"mark">>, <<"delete", "mark">>}
      /\ kind = "settings" => q # <<"put">>
  <2>1. CASE q = << >>
    BY <2>1, Plans
  <2>2. CASE q # << >>
    <3>1. todo'[c] = q /\ q = Tail(todo[c])
      BY <1>2, <2>2 DEF TypeOK
    <3>2. kind \in {"groups", "medals"} => t # "put"
      BY <2>2, <3>1 DEF TypeOK
    <3>3. CASE kind \in {"groups", "medals"}
      BY <2>2, <3>1, <3>2, <3>3, Turns
    <3>4. CASE kind = "settings"
      BY <2>2, <3>1, <3>4, Turns
    <3> QED BY <3>3, <3>4
  <2> QED BY <2>1, <2>2
<1>6. /\ kind \in {"groups", "medals"} /\ q \in {<<"mark">>, <<"delete", "mark">>} => FALSE
      /\ kind = "groups" /\ q = <<"mark">> => FALSE
      /\ kind = "settings" /\ q = <<"put">> => FALSE
      /\ kind = "staff" /\ todo[c] = <<"delete">> => FALSE
  BY <1>4, <1>5
<1>7. Version' <= answer[c] /\ Version' <= Version /\ \A k \in Keys : rows'[k] = rows[k]
  BY <1>1, <1>3
<1> QED BY <1>2, <1>6, <1>7, WriteStep

----------------------------------------------------------------------------
(* The other steps.                                                        *)

LEMMA AwaitsKept ==
  ASSUME UNCHANGED <<kind, log>>,
         \A d \in Callers : kind = "staff" /\ todo[d] = <<"delete">> =>
             todo'[d] = todo[d] /\ asked'[d] = asked[d] /\ answer'[d] = answer[d],
         NEW k, Awaits(k)
  PROVE  Awaits(k)'
<1>1. PICK d \in Callers : kind = "staff" /\ todo[d] = <<"delete">> /\ k \in Dels(d)
  BY DEF Awaits
<1>2. todo'[d] = todo[d] /\ Dels(d)' = Dels(d)
  BY <1>1, AnswerKept
<1> QED BY <1>1, <1>2 DEF Awaits

\* A call begins or ends, or the process does.
LEMMA QuietStep ==
  ASSUME TypeOK, TypeOK', Latecomers, Fits, Prepared, UNCHANGED <<kind, log, rows, vers, mark>>,
         \A d \in Callers : \/ todo'[d] = << >>
                            \/ todo'[d] = todo[d] /\ asked'[d] = asked[d] /\ answer'[d] = answer[d]
                            \/ todo'[d] = todo[d] /\ todo[d] = << >>,
         \A d \in Callers : asked'[d] \in {0, Version, asked[d]} /\ answer'[d] \in {0, answer[d]},
         \A d \in Callers : kind = "staff" /\ todo[d] = <<"delete">> =>
             todo'[d] = todo[d] /\ asked'[d] = asked[d] /\ answer'[d] = answer[d]
  PROVE  Latecomers' /\ Fits' /\ Prepared'
<1>1. /\ Version' = Version /\ Version \in 0 .. Len(log) /\ Len(log) \in Nat
      /\ \A d \in Callers : asked[d] \in Nat /\ answer[d] \in Nat
  <2>1. Version' = Version
    BY DEF Version, Marked
  <2>2. Len(log) \in Nat /\ \A d \in Callers : asked[d] \in Nat /\ answer[d] \in Nat
    BY DEF TypeOK
  <2> QED BY <2>1, <2>2, VersionFacts
<1>2. ASSUME NEW k \in Keys, NEW m, Good(k, m) PROVE Good(k, m)'
  BY <1>2, GoodKept
<1>3. ASSUME NEW k \in Keys, NEW m, Fit(k, m) PROVE Fit(k, m)'
  BY <1>2, <1>3, AwaitsKept DEF Fit
<1>4. \A d \in Callers : todo'[d] # << >> =>
          todo'[d] = todo[d] /\ asked'[d] = asked[d] /\ answer'[d] = answer[d]
  OBVIOUS
<1>5. Latecomers'
  <2> SUFFICES ASSUME NEW d \in Callers, todo'[d] # << >>, NEW e \in Callers
               PROVE  Version <= answer[d] /\ asked'[e] <= answer[d] /\ answer'[e] <= answer[d]
    BY <1>1, <1>4 DEF Latecomers
  <2>1. Version <= answer[d] /\ asked[e] <= answer[d] /\ answer[e] <= answer[d]
    BY <1>4 DEF Latecomers
  <2>2. asked'[e] \in {0, Version, asked[e]} /\ answer'[e] \in {0, answer[e]}
    OBVIOUS
  <2> QED BY <1>1, <2>1, <2>2
<1>6. Fits'
  <2>1. ASSUME NEW k \in Keys PROVE Fit(k, Version) /\ Fit(k, 0)
    <3>1. Fit(k, Version)
      BY DEF Fits
    <3>2. 0 <= Version
      BY <1>1
    <3> QED BY <1>1, <3>1, <3>2, GoodOlder
  <2>2. ASSUME NEW k \in Keys, NEW d \in Callers PROVE Fit(k, asked[d])'
    <3>1. Fit(k, asked'[d])
      <4>1. asked'[d] = 0 \/ asked'[d] = Version \/ asked'[d] = asked[d]
        OBVIOUS
      <4> QED BY <2>1, <4>1 DEF Fits
    <3>2. \A m : Fit(k, m) => Fit(k, m)'
      BY <1>3
    <3> QED BY <3>1, <3>2 DEF Fit, Good
  <2>3. ASSUME NEW k \in Keys PROVE Fit(k, Version)'
    <3>1. \A m : Fit(k, m) => Fit(k, m)'
      BY <1>3
    <3>2. \A m : m = Version' => (Fit(k, m)' => Fit(k, Version)')
      BY DEF Fit, Good
    <3> QED BY <1>1, <2>1, <3>1, <3>2
  <2> QED BY <2>2, <2>3 DEF Fits
<1>7. Prepared'
  <2>1. ASSUME NEW d \in Callers, todo'[d] # << >>
        PROVE  /\ Puts(d)' = Puts(d) /\ Dels(d)' = Dels(d) /\ todo'[d] = todo[d]
               /\ Puts(d) \subseteq Keys /\ Dels(d) \subseteq Keys
               /\ \A k \in Keys : Good(k, answer[d]) => Good(k, answer[d])'
    <3>1. Puts(d) \subseteq Keys /\ Dels(d) \subseteq Keys
      BY DEF Puts, Dels, Changed
    <3>2. \A k \in Keys : \A m : Good(k, m) => Good(k, m)'
      BY <1>2
    <3> QED BY <1>4, <2>1, <3>1, <3>2, AnswerKept DEF Good
  <2>2. <<"mark">> # << >> /\ <<"delete", "mark">> # << >> /\ <<"put">> # << >>
    OBVIOUS
  <2>3. ASSUME NEW d \in Callers, todo'[d] # << >>
        PROVE  /\ kind' \in {"groups", "medals"} /\ todo'[d] \in {<<"mark">>, <<"delete", "mark">>} =>
                      \A k \in Puts(d)' : Good(k, answer[d])'
               /\ kind' = "groups" /\ todo'[d] = <<"mark">> => \A k \in Dels(d)' : Good(k, answer[d])'
               /\ kind' = "settings" /\ todo'[d] = <<"put">> => \A k \in Dels(d)' : Good(k, answer[d])'
    BY <2>1, <2>3 DEF Prepared
  <2> QED BY <2>2, <2>3 DEF Prepared
<1> QED BY <1>5, <1>6, <1>7

\* An answer comes, while no older one is written.
LEMMA AnswerStep ==
  ASSUME TypeOK, TypeOK', Latecomers, Fits, Prepared, NEW c \in Callers, Answer(c), ~Crosses(c)
  PROVE  Latecomers' /\ Fits' /\ Prepared'
<1>1. /\ UNCHANGED <<kind, log, rows, vers, mark, asked>> /\ todo[c] = << >>
      /\ \A d \in Callers \ {c} : todo'[d] = todo[d] /\ answer'[d] = answer[d]
      /\ answer'[c] = Len(log) /\ todo'[c] \in {<< >>, Plan} /\ Len(log) \in Nat
      /\ \A d \in Callers : asked[d] \in 0 .. Len(log) /\ answer'[d] \in 0 .. Len(log)
      /\ \A d \in Callers \ {c} : todo[d] # << >> => answer[d] = Len(log)
  BY DEF Answer, Crosses, table, TypeOK
<1>2. Version' = Version /\ Version \in 0 .. Len(log)
  BY <1>1, VersionFacts DEF Version, Marked
<1>3. ASSUME NEW k \in Keys, NEW m, Good(k, m) PROVE Good(k, m)'
  BY <1>1, <1>3, GoodKept
<1>4. ASSUME NEW k \in Keys, NEW m, Fit(k, m) PROVE Fit(k, m)'
  <2>1. \A d \in Callers : todo[d] = <<"delete">> =>
            todo'[d] = todo[d] /\ asked'[d] = asked[d] /\ answer'[d] = answer[d]
    BY <1>1, Plans
  <2> QED BY <1>1, <1>3, <1>4, <2>1, AwaitsKept DEF Fit
<1>5. Latecomers'
  BY <1>1, <1>2 DEF Latecomers
<1>6. Fits'
  <2> SUFFICES ASSUME NEW k \in Keys PROVE Fit(k, Version)' /\ \A d \in Callers : Fit(k, asked[d])'
    BY DEF Fits
  <2>1. \A m : Fit(k, m) => Fit(k, m)'
    BY <1>4
  <2>2. \A m : m = Version' => (Fit(k, m)' => Fit(k, Version)')
    BY DEF Fit, Good
  <2>3. \A m : \A d \in Callers : m = asked'[d] => (Fit(k, m)' => Fit(k, asked[d])')
    BY DEF Fit, Good
  <2> QED BY <1>1, <1>2, <2>1, <2>2, <2>3 DEF Fits
<1>7. Prepared'
  <2>1. Plan \notin {<<"mark">>, <<"delete", "mark">>, <<"put">>}
        /\ << >> \notin {<<"mark">>, <<"delete", "mark">>, <<"put">>}
    BY KindIn, Plans DEF Plan, Five
  <2>2. ASSUME NEW d \in Callers, d # c
        PROVE  /\ Puts(d)' = Puts(d) /\ Dels(d)' = Dels(d) /\ todo'[d] = todo[d]
               /\ Puts(d) \subseteq Keys /\ Dels(d) \subseteq Keys
               /\ \A k \in Keys : Good(k, answer[d]) => Good(k, answer[d])'
    <3>1. Puts(d) \subseteq Keys /\ Dels(d) \subseteq Keys
      BY DEF Puts, Dels, Changed
    <3>2. \A k \in Keys : \A m : Good(k, m) => Good(k, m)'
      BY <1>3
    <3> QED BY <1>1, <2>2, <3>1, <3>2, AnswerKept DEF Good
  <2> QED BY <1>1, <2>1, <2>2 DEF Prepared
<1> QED BY <1>5, <1>6, <1>7

\* A change of the server's is newer than every answer.
LEMMA LatestGrows ==
  ASSUME TypeOK, TypeOK', NEW k \in Keys, NEW here \in BOOLEAN, Change(k, here), NEW j
  PROVE  /\ \A n \in 0 .. Len(log) : Latest(j, n)' = Latest(j, n) /\ There(j, n)' = There(j, n)
         /\ j = k => Latest(j, Len(log))' = Len(log) + 1
         /\ j # k => /\ Latest(j, Len(log))' = Latest(j, Len(log))
                     /\ There(j, Len(log))' = There(j, Len(log))
<1> DEFINE L == Len(log)
<1>1. /\ log' = Append(log, [key |-> k, here |-> here])
      /\ log \in Seq([key : Keys, here : BOOLEAN]) /\ L \in Nat
  BY DEF Change, TypeOK
<1>2. Len(log') = L + 1 /\ (\A i \in 1 .. L : log'[i] = log[i]) /\ log'[L + 1].key = k
  <2>1. [key |-> k, here |-> here].key = k /\ [key |-> k, here |-> here] \in [key : Keys, here : BOOLEAN]
    OBVIOUS
  <2>2. log'[L + 1] = [key |-> k, here |-> here]
    BY <1>1, <2>1
  <2> QED BY <1>1, <2>1, <2>2
<1>3. ASSUME NEW n \in 0 .. L PROVE Latest(j, n)' = Latest(j, n) /\ There(j, n)' = There(j, n)
  <2>1. \A i \in 1 .. n : log'[i] = log[i]
    BY <1>1, <1>2
  <2>2. {i \in 1 .. n : log'[i].key = j} = {i \in 1 .. n : log[i].key = j}
    BY <2>1
  <2>3. Latest(j, n)' = Latest(j, n)
    BY <2>2 DEF Latest
  <2>4. Latest(j, n) # 0 => Latest(j, n) \in 1 .. n
    BY LatestFacts
  <2> QED BY <2>1, <2>3, <2>4 DEF There
<1> DEFINE S == {0} \union {i \in 1 .. L + 1 : log'[i].key = j}
<1>4. Latest(j, Len(log))' = Max(S)
  BY <1>2 DEF Latest
<1>5. Max(S) \in S /\ \A y \in S : y <= Max(S)
  <2>1. S \subseteq 0 .. L + 1 /\ S # {} /\ L + 1 \in Nat
    BY <1>1
  <2> HIDE DEF S
  <2> QED BY <2>1, MaxFound
<1>6. ASSUME j = k PROVE Max(S) = L + 1
  <2>1. L + 1 \in S /\ S \subseteq 0 .. L + 1
    BY <1>1, <1>2, <1>6
  <2>2. L + 1 <= Max(S) /\ Max(S) \in 0 .. L + 1
    <3> HIDE DEF S
    <3> QED BY <1>5, <2>1
  <2> HIDE DEF S
  <2> QED BY <1>1, <2>2
<1>7. ASSUME j # k PROVE Max(S) = Latest(j, L)
  <2>1. S = {0} \union {i \in 1 .. L : log[i].key = j}
    BY <1>1, <1>2, <1>7
  <2> QED BY <2>1 DEF Latest
<1>8. ASSUME j # k PROVE There(j, Len(log))' = There(j, Len(log))
  <2>1. Latest(j, Len(log))' = Latest(j, L)
    BY <1>4, <1>7, <1>8
  <2>2. Latest(j, L) # 0 => Latest(j, L) \in 1 .. L
    BY <1>1, LatestFacts
  <2> QED BY <1>2, <2>1, <2>2 DEF There
<1> QED BY <1>3, <1>4, <1>6, <1>7, <1>8

\* So it takes nothing from what is right for them.
LEMMA ChangeKeeps ==
  ASSUME TypeOK, TypeOK', NEW k \in Keys, NEW here \in BOOLEAN, Change(k, here)
  PROVE  /\ \A c \in Callers : Puts(c)' = Puts(c) /\ Dels(c)' = Dels(c)
         /\ \A j \in Keys : \A m \in 0 .. Len(log) :
                (Good(j, m) => Good(j, m)') /\ (Fit(j, m) => Fit(j, m)')
<1>1. /\ UNCHANGED <<kind, rows, todo, asked, answer>> /\ Len(log) \in Nat
      /\ \A c \in Callers : answer[c] \in 0 .. Len(log)
  BY DEF Change, client, table, TypeOK
<1>2. ASSUME NEW c \in Callers PROVE Puts(c)' = Puts(c) /\ Dels(c)' = Dels(c)
  <2> DEFINE n == answer[c]
  <2>1. n' = n /\ n \in 0 .. Len(log)
    BY <1>1
  <2>2. \A j : \A i \in 0 .. Len(log) : Latest(j, i)' = Latest(j, i) /\ There(j, i)' = There(j, i)
    BY LatestGrows
  <2>3. \A j : Latest(j, n)' = Latest(j, n) /\ There(j, n)' = There(j, n)
    BY <2>1, <2>2 DEF There, Latest
  <2> HIDE DEF n
  <2> QED BY <1>1, <2>3 DEF Puts, Dels, Changed, n
<1>3. ASSUME NEW j \in Keys, NEW m \in 0 .. Len(log), Good(j, m) PROVE Good(j, m)'
  <2>1. CASE j = k
    <3>1. Latest(j, Len(log))' = Len(log) + 1
      BY <2>1, LatestGrows
    <3> QED BY <1>1, <3>1 DEF Good
  <2>2. CASE j # k
    <3>1. /\ Latest(j, Len(log))' = Latest(j, Len(log))
          /\ There(j, Len(log))' = There(j, Len(log))
      BY <2>2, LatestGrows
    <3> QED BY <1>1, <1>3, <3>1 DEF Good, Right
  <2> QED BY <2>1, <2>2
<1>4. ASSUME NEW j \in Keys, Awaits(j) PROVE Awaits(j)'
  BY <1>1, <1>2, <1>4 DEF Awaits
<1> QED BY <1>2, <1>3, <1>4 DEF Fit

LEMMA ChangeStep ==
  ASSUME TypeOK, TypeOK', Latecomers, Fits, Prepared,
         NEW k \in Keys, NEW here \in BOOLEAN, Change(k, here)
  PROVE  Latecomers' /\ Fits' /\ Prepared'
<1>1. /\ UNCHANGED <<kind, rows, vers, mark, todo, asked, answer>> /\ Len(log) \in Nat
      /\ \A c \in Callers : asked[c] \in 0 .. Len(log) /\ answer[c] \in 0 .. Len(log)
  BY DEF Change, client, table, TypeOK
<1>2. Version' = Version /\ Version \in 0 .. Len(log)
  BY <1>1, VersionFacts DEF Version, Marked
<1>3. /\ \A c \in Callers : Puts(c)' = Puts(c) /\ Dels(c)' = Dels(c)
      /\ \A j \in Keys : \A m \in 0 .. Len(log) :
             (Good(j, m) => Good(j, m)') /\ (Fit(j, m) => Fit(j, m)')
  BY ChangeKeeps
<1>4. Latecomers'
  BY <1>1, <1>2 DEF Latecomers
<1>5. Fits'
  <2> SUFFICES ASSUME NEW j \in Keys PROVE Fit(j, Version)' /\ \A d \in Callers : Fit(j, asked[d])'
    BY DEF Fits
  <2>1. \A m : m = Version' => (Fit(j, m)' => Fit(j, Version)')
    BY DEF Fit, Good
  <2>2. \A m : \A d \in Callers : m = asked'[d] => (Fit(j, m)' => Fit(j, asked[d])')
    BY DEF Fit, Good
  <2> QED BY <1>1, <1>2, <1>3, <2>1, <2>2 DEF Fits
<1>6. Prepared'
  <2>1. ASSUME NEW d \in Callers
        PROVE  /\ Puts(d) \subseteq Keys /\ Dels(d) \subseteq Keys
               /\ \A j \in Keys : Good(j, answer[d]) => Good(j, answer[d])'
    <3>1. Puts(d) \subseteq Keys /\ Dels(d) \subseteq Keys
      BY DEF Puts, Dels, Changed
    <3> QED BY <1>1, <1>3, <3>1 DEF Good
  <2> QED BY <1>1, <1>3, <2>1 DEF Prepared
<1> QED BY <1>4, <1>5, <1>6

----------------------------------------------------------------------------
(* The inductive invariant.                                                *)

LEMMA SpoiltStays ==
  [Next]_vars => kind' = kind /\ upset \subseteq upset' /\ (Unspoilt' => Unspoilt)
<1> SUFFICES ASSUME [Next]_vars PROVE kind' = kind /\ upset \subseteq upset'
  BY DEF Unspoilt, Spoils
<1> QED
  BY DEF Next, Change, Call, Ask, Answer, Refused, Return, Put, Delete, SetMark, All, Fail,
     Does, Crash, vars, client

\* Unless two deletions were taken for one, what was to go went.
LEMMA Deleted ==
  ASSUME NEW c \in Callers, Delete(c), kind = "settings" => "merged" \notin upset'
  PROVE  /\ rows' = [k \in Keys |-> IF k \in Dels(c) THEN 0 ELSE rows[k]]
         /\ vers' = [k \in Keys |-> IF k \in Dels(c) THEN 0 ELSE vers[k]]
<1>1. PICK E \in Removed(Dels(c)) :
         /\ rows' = [k \in Keys |-> IF k \in E THEN 0 ELSE rows[k]]
         /\ vers' = [k \in Keys |-> IF k \in E THEN 0 ELSE vers[k]]
         /\ upset' = upset \union (IF E # Dels(c) THEN {"merged"} ELSE {})
  BY DEF Delete
<1>2. E = Dels(c)
  BY <1>1 DEF Removed
<1> QED BY <1>1, <1>2

LEMMA InitIInv == Init => IInv
<1> SUFFICES ASSUME Init PROVE IInv
  OBVIOUS
<1>1. TypeOK
  BY InitType
<1>2. Staged
  BY <1>1, KindIn DEF Init, Staged, Stages, Five
<1>3. Standing
  <2>1. ASSUME NEW i \in DOMAIN Before PROVE Before[i].here
    <3>1. Before[i] \in [key : Keys, here : {TRUE}]
      <4> DEFINE R == [key : Keys, here : {TRUE}]
      <4>1. Before \in Seq(R)
        BY BeforeAssumption
      <4> HIDE DEF R
      <4>2. i \in 1 .. Len(Before)
        BY <4>1
      <4> QED BY <4>1, <4>2, ElementOfSeq DEF R
    <3>2. \A r \in [key : Keys, here : {TRUE}] : r.here = TRUE
      OBVIOUS
    <3>3. Before[i].here = TRUE
      BY <3>1, <3>2
    <3> QED BY <3>3
  <2>2. log = Before
    BY DEF Init
  <2> QED BY <2>1, <2>2 DEF Standing
<1>4. /\ todo = [c \in Callers |-> << >>] /\ asked = [c \in Callers |-> 0]
      /\ rows = [k \in Keys |-> 0] /\ vers = [k \in Keys |-> 0] /\ mark = 0
  BY DEF Init
<1>5. Version = 0
  <2>1. Version \in Nat
    <3>1. Len(log) \in Nat
      BY <1>1 DEF TypeOK
    <3> QED BY <1>1, <3>1, VersionFacts
  <2>2. ~Marked => Version <= 0
    BY <1>1, <1>4, VersionFacts
  <2> QED BY <1>1, <1>4, <2>1, <2>2, VersionFacts
<1>6. ASSUME NEW k \in Keys PROVE Fit(k, 0)
  <2>1. Latest(k, Len(log)) \in Nat
    BY <1>1, LatestNat
  <2> QED BY <1>4, <2>1 DEF Fit, Good, Right, There
<1>7. Latecomers /\ Prepared
  BY <1>4, Plans DEF Latecomers, Prepared
<1>8. Fits
  BY <1>4, <1>5, <1>6 DEF Fits
<1> QED BY <1>1, <1>2, <1>3, <1>7, <1>8 DEF IInv

LEMMA NextIInv == IInv /\ [Next]_vars => IInv'
<1> SUFFICES ASSUME IInv, [Next]_vars PROVE IInv'
  OBVIOUS
<1>1. TypeOK /\ Staged /\ Standing
  BY DEF IInv
<1>2. TypeOK'
  BY <1>1, NextType
<1>3. Staged' /\ Standing'
  BY <1>1, <1>2, StagedStep, StandingStep
<1>4. SUFFICES ASSUME Unspoilt' PROVE Latecomers' /\ Fits' /\ Prepared'
  BY <1>2, <1>3 DEF IInv
<1>5. Unspoilt /\ kind' = kind /\ kind \in Five /\ upset' \intersect Spoils = {}
  <2>1. kind' = kind /\ Unspoilt
    BY <1>4, SpoiltStays
  <2>2. kind \in Five
    BY <1>1, KindIn
  <2> QED BY <1>4, <2>1, <2>2 DEF Unspoilt, Spoils
<1>6. Latecomers /\ Fits /\ Prepared
  BY <1>5 DEF IInv
<1>7. ASSUME NEW c \in Callers, Call(c) PROVE Latecomers' /\ Fits' /\ Prepared'
  <2>1. CASE Ask(c)
    <3>1. /\ UNCHANGED <<kind, log, rows, vers, mark, todo, answer>> /\ todo[c] = << >>
          /\ asked' = [asked EXCEPT ![c] = Version]
      BY <1>1, <2>1 DEF Ask, table, TypeOK
    <3>2. /\ \A d \in Callers : asked'[d] \in {0, Version, asked[d]}
          /\ \A d \in Callers : d # c => asked'[d] = asked[d]
      BY <1>1, <3>1 DEF TypeOK
    <3> QED BY <1>1, <1>2, <1>6, <3>1, <3>2, Plans, QuietStep
  <2>2. CASE Answer(c)
    <3>1. ~Crosses(c)
      BY <1>5, <2>2 DEF Answer, Spoils, Five
    <3> QED BY <1>1, <1>2, <1>6, <2>2, <3>1, AnswerStep
  <2>3. CASE Refused(c) \/ Return(c)
    <3>1. /\ UNCHANGED <<kind, log, rows, vers, mark, todo>> /\ todo[c] = << >>
          /\ \A d \in Callers : asked'[d] \in {0, asked[d]} /\ answer'[d] \in {0, answer[d]}
          /\ \A d \in Callers : d # c => asked'[d] = asked[d] /\ answer'[d] = answer[d]
      BY <1>1, <2>3 DEF Refused, Return, table, TypeOK
    <3> QED BY <1>1, <1>2, <1>6, <3>1, Plans, QuietStep
  <2>4. CASE Put(c)
    BY <1>1, <1>2, <1>6, <2>4, PutStep
  <2>5. CASE Delete(c)
    <3>1. kind = "settings" => "merged" \notin upset'
      BY <1>5 DEF Spoils
    <3>2. /\ rows' = [k \in Keys |-> IF k \in Dels(c) THEN 0 ELSE rows[k]]
          /\ vers' = [k \in Keys |-> IF k \in Dels(c) THEN 0 ELSE vers[k]]
      BY <2>5, <3>1, Deleted
    <3> QED BY <1>1, <1>2, <1>6, <2>5, <3>2, DeleteStep
  <2>6. CASE SetMark(c)
    BY <1>1, <1>2, <1>6, <2>6, SetMarkStep
  <2>7. CASE All(c)
    <3>1. CASE Dels(c) = {}
      BY <1>1, <1>2, <1>6, <2>7, <3>1, AllStep
    <3>2. CASE Dels(c) # {}
      <4>1. Does(c, "all") /\ Passes(c) /\ UNCHANGED table
        BY <2>7, <3>2 DEF All, table
      <4> QED BY <1>1, <1>2, <1>6, <4>1, IdleStep
    <3> QED BY <3>1, <3>2
  <2>8. CASE Fail(c, "put", "unput")
    <3>1. /\ Does(c, "put") /\ UNCHANGED table /\ "unput" \in upset'
          /\ todo' = [todo EXCEPT ![c] = << >>] \/ Passes(c)
          /\ kind = "groups" => todo' = [todo EXCEPT ![c] = << >>]
      BY <2>8 DEF Fail, Passes, Stops
    <3>2. kind # "medals"
      BY <1>5, <3>1 DEF Spoils
    <3> QED BY <1>1, <1>2, <1>6, <3>1, <3>2, IdleStep
  <2>9. CASE Fail(c, "delete", "undeleted")
    <3>1. Does(c, "delete") /\ "undeleted" \in upset'
      BY <2>9 DEF Fail
    <3>2. kind \in {"groups", "staff", "settings"}
      BY <1>1, <3>1, Turns
    <3> QED BY <1>5, <3>1, <3>2 DEF Spoils
  <2>10. CASE Fail(c, "mark", "unmarked")
    <3>1. /\ Does(c, "mark") /\ UNCHANGED table
          /\ todo' = [todo EXCEPT ![c] = << >>] \/ Passes(c)
      BY <2>10 DEF Fail, Passes
    <3> QED BY <1>1, <1>2, <1>6, <3>1, IdleStep
  <2> QED
    BY <1>7, <2>1, <2>2, <2>3, <2>4, <2>5, <2>6, <2>7, <2>8, <2>9, <2>10 DEF Call
<1>8. CASE Crash
  <2>1. /\ todo' = [c \in Callers |-> << >>]
        /\ asked' = [c \in Callers |-> 0] /\ answer' = [c \in Callers |-> 0]
        /\ UNCHANGED <<kind, log, rows, vers, mark>>
        /\ upset' = upset \union (IF Halfway THEN {"torn"} ELSE {})
    BY <1>8 DEF Crash, table
  <2>2. kind = "staff" => ~Halfway
    BY <1>5, <2>1 DEF Spoils
  <2>3. ASSUME NEW d \in Callers, kind = "staff" PROVE todo[d] # <<"delete">>
    <3>1. <<"delete">> \notin {<< >>, Plan}
      BY <2>3, Plans DEF Plan
    <3> QED BY <2>2, <2>3, <3>1 DEF Halfway
  <2> QED BY <1>1, <1>2, <1>6, <2>1, <2>3, QuietStep
<1>9. CASE \E k \in Keys, here \in BOOLEAN : Change(k, here)
  BY <1>1, <1>2, <1>6, <1>9, ChangeStep
<1>10. CASE UNCHANGED vars
  <2>1. UNCHANGED <<kind, log, rows, vers, mark, todo, asked, answer>>
    BY <1>10 DEF vars, client, table
  <2> QED BY <1>1, <1>2, <1>6, <2>1, QuietStep
<1> QED BY <1>7, <1>8, <1>9, <1>10 DEF Next

----------------------------------------------------------------------------
(* The theorems.                                                           *)

LEMMA Invariant == Spec => []IInv
<1>1. IInv /\ [Next]_vars => IInv'
  BY NextIInv
<1> QED BY InitIInv, <1>1, PTL DEF Spec

\* The variables are of their sorts, and no row has a version and no content.
THEOREM TypeCorrect == Spec => []TypeOK
<1>1. IInv => TypeOK
  BY DEF IInv
<1> QED BY <1>1, Invariant, PTL

\* Only the staff's table, and only while it is written, awaits anything.
LEMMA AwaitsBetween == ASSUME NEW k, Awaits(k) PROVE Between
<1>1. <<"delete">> \notin {<< >>, <<"put", "delete">>}
  BY Plans
<1> QED BY <1>1 DEF Awaits, Between, Halfway, Plan

\* Unless what spoils a table of its kind happened, it can be caught up: what
\* changed last before the version held is in it, so that the changes after
\* that version are all it lacks.
THEOREM AlwaysCatchable == Spec => []Catchable
<1>1. IInv => Catchable
  <2> SUFFICES ASSUME IInv, Unspoilt, ~Between,
                      NEW k \in Keys, Latest(k, Len(log)) <= Version
               PROVE  Right(k, Len(log))
    BY DEF Catchable, Unspoilt
  <2>1. Fit(k, Version)
    BY DEF IInv, Fits
  <2> QED BY <2>1, AwaitsBetween DEF Fit, Good
<1> QED BY <1>1, Invariant, PTL

----------------------------------------------------------------------------
(* A call that is through has done all it was told.                        *)

\* What harms no call spoils no table.
LEMMA HarmlessUnspoilt == TypeOK /\ upset \subseteq Harmless => Unspoilt
<1> SUFFICES ASSUME TypeOK, upset \subseteq Harmless PROVE Unspoilt
  OBVIOUS
<1>1. Harmless \intersect Spoils = {}
  BY KindIn DEF Harmless, Spoils, Five
<1> QED BY <1>1 DEF Unspoilt

\* A call that does nothing, while others do not write.
LEMMA DoneKept ==
  ASSUME UNCHANGED <<kind, log, rows>>,
         \A d \in Callers : kind = "staff" /\ todo[d] = <<"delete">> =>
             todo'[d] = todo[d] /\ asked'[d] = asked[d] /\ answer'[d] = answer[d],
         NEW c \in Callers,
         todo'[c] = todo[c], asked'[c] = asked[c], answer'[c] = answer[c],
         NEW k \in Keys, Done(c, k)
  PROVE  Done(c, k)'
<1>1. \A m : Good(k, m) => Good(k, m)'
  BY GoodKept
<1>2. Fit(k, answer[c]) => Fit(k, answer[c])'
  BY <1>1, AwaitsKept DEF Fit, Good
<1>3. Puts(c)' = Puts(c) /\ Dels(c)' = Dels(c)
  BY AnswerKept
<1>4. (Puttable(c) => Puttable(c)') /\ (Deletable(c) => Deletable(c)')
  BY DEF Puttable, Deletable
<1> QED BY <1>2, <1>3, <1>4 DEF Done

\* Call d writes, and does what it leaves no transaction for.
LEMMA DoneWrite ==
  ASSUME TypeOK, TypeOK', Latecomers, NEW d \in Callers, NEW t, Does(d, t),
         NEW q, todo' = [todo EXCEPT ![d] = q],
         \A k \in Keys : rows'[k] = rows[k] \/ Right(k, answer[d])',
         kind = "staff" /\ todo[d] = <<"delete">> => \A k \in Dels(d) : Good(k, answer[d])',
         \A k \in Keys : k \in Puts(d) /\ Puttable(d) => Fit(k, answer[d])' \/ Puttable(d)',
         \A k \in Keys : k \in Dels(d) /\ Deletable(d) => Fit(k, answer[d])' \/ Deletable(d)',
         Through
  PROVE  Through'
<1>1. /\ UNCHANGED <<kind, log, asked, answer, state>> /\ todo[d] # << >> /\ todo'[d] = q
      /\ \A c \in Callers : answer[c] \in Nat /\ answer[c] <= answer[d]
      /\ \A c \in Callers : c # d => todo'[c] = todo[c]
  <2>1. \A c \in Callers : answer[c] \in Nat
    BY DEF TypeOK
  <2>2. UNCHANGED <<kind, log, asked, answer, state>> /\ todo[d] # << >>
    BY DEF Does
  <2>3. todo'[d] = q /\ \A c \in Callers : c # d => todo'[c] = todo[c]
    BY DEF TypeOK
  <2> QED BY <2>1, <2>2, <2>3 DEF Latecomers
<1> SUFFICES ASSUME NEW c \in Callers, state[c] = "writing", NEW k \in Keys, Done(c, k)
             PROVE  Done(c, k)'
  BY <1>1 DEF Through
<1>2. Fit(k, answer[c]) => Fit(k, answer[c])'
  <2>1. \A m \in Nat : m <= answer[d] => (Fit(k, m) => Fit(k, m)')
    BY WriteRows
  <2> QED BY <1>1, <2>1 DEF Fit, Good
<1>3. Puts(c)' = Puts(c) /\ Dels(c)' = Dels(c)
  BY <1>1, AnswerKept
<1>4. CASE c = d
  BY <1>2, <1>3, <1>4 DEF Done
<1>5. CASE c # d
  <2>1. (Puttable(c) => Puttable(c)') /\ (Deletable(c) => Deletable(c)')
    BY <1>1, <1>5 DEF Puttable, Deletable
  <2> QED BY <1>2, <1>3, <2>1 DEF Done
<1> QED BY <1>4, <1>5

\* Nothing is left of one transaction.
LEMMA NothingLeft ==
  ASSUME NEW c \in Callers, todo[c] \in {<<"mark">>, << >>}
  PROVE  ~Puttable(c) /\ ~Deletable(c)
BY Plans DEF Puttable, Deletable

LEMMA PutThrough ==
  ASSUME TypeOK, TypeOK', Staged, Standing, Latecomers, Prepared, Through, NEW c \in Callers, Put(c)
  PROVE  Through'
<1> DEFINE n == answer[c]  q == Tail(todo[c])
<1>1. /\ Does(c, "put") /\ Written(c) /\ todo' = [todo EXCEPT ![c] = q] /\ mark' = mark
      /\ UNCHANGED <<kind, log, asked, answer>> /\ todo'[c] = q
  BY DEF Put, Passes, Does, TypeOK
<1>2. /\ \A k \in Keys : rows'[k] = rows[k] \/ Right(k, n)'
      /\ \A k \in Puts(c) : Good(k, n)'
  BY <1>1, WrittenRows
<1>3. \/ kind = "groups" /\ todo[c] = <<"put", "delete", "mark">> /\ q = <<"delete", "mark">>
      \/ kind = "staff" /\ todo[c] = <<"put", "delete">> /\ q = <<"delete">>
      \/ kind = "settings" /\ todo[c] = <<"put">> /\ q = << >>
      \/ kind = "medals" /\ todo[c] = <<"put", "mark">> /\ q = <<"mark">>
  BY <1>1, Turns
<1>4. ~(kind = "staff" /\ todo[c] = <<"delete">>)
  BY <1>3, Plans
<1>5. \A k \in Puts(c) : Fit(k, n)'
  BY <1>2 DEF Fit
<1>6. \A k \in Dels(c) : ~Deletable(c) \/ Deletable(c)'
  <2>1. CASE kind \in {"groups", "staff"}
    BY <1>1, <1>3, <2>1 DEF Deletable
  <2>2. CASE kind = "settings"
    <3>1. todo[c] = <<"put">>
      BY <1>3, <2>2
    <3> QED BY <3>1, Plans DEF Deletable
  <2>3. CASE kind = "medals"
    BY <2>3, NoneDeleted
  <2> QED BY <1>3, <2>1, <2>2, <2>3
<1> QED BY <1>1, <1>2, <1>4, <1>5, <1>6, DoneWrite

LEMMA DeleteThrough ==
  ASSUME TypeOK, TypeOK', Staged, Latecomers, Fits, Prepared, Through, NEW c \in Callers, Delete(c),
         rows' = [k \in Keys |-> IF k \in Dels(c) THEN 0 ELSE rows[k]],
         vers' = [k \in Keys |-> IF k \in Dels(c) THEN 0 ELSE vers[k]]
  PROVE  Through'
<1> DEFINE n == answer[c]  q == Tail(todo[c])
<1>1. /\ Does(c, "delete") /\ todo' = [todo EXCEPT ![c] = q] /\ todo'[c] = q
  BY DEF Delete, Passes, TypeOK
<1>2. /\ \A k \in Keys : rows'[k] = rows[k] \/ Right(k, n)'
      /\ \A k \in Dels(c) : Good(k, n)'
  BY DeleteStep
<1>3. \/ kind = "groups" /\ todo[c] = <<"delete", "mark">>
      \/ kind = "staff" /\ todo[c] = <<"delete">>
      \/ kind = "settings" /\ q = <<"put">>
  BY <1>1, Turns
<1>4. \A k \in Dels(c) : Fit(k, n)'
  BY <1>2 DEF Fit
<1>5. ~Puttable(c) \/ Puttable(c)'
  <2>1. CASE todo[c] = <<"delete", "mark">> \/ todo[c] = <<"delete">>
    <3>1. /\ <<"delete", "mark">> # <<"all">> /\ <<"delete">> # <<"all">>
          /\ <<"delete", "mark">> # <<"put", "mark">> /\ <<"delete", "mark">> # <<"delete", "put">>
          /\ <<"delete", "mark">> # <<"put", "delete">>
      OBVIOUS
    <3> QED BY <2>1, <3>1, Plans DEF Puttable
  <2>2. CASE q = <<"put">>
    BY <1>1, <2>2 DEF Puttable
  <2> QED BY <1>3, <2>1, <2>2
<1> QED BY <1>1, <1>2, <1>4, <1>5, DoneWrite

\* The mark alone changes, or nothing.
LEMMA MarkThrough ==
  ASSUME TypeOK, TypeOK', Staged, Latecomers, Through, NEW c \in Callers, Does(c, "mark"),
         todo' = [todo EXCEPT ![c] = << >>] \/ Passes(c), UNCHANGED <<rows, vers>>
  PROVE  Through'
<1>1. kind # "staff" /\ todo[c] = <<"mark">> /\ todo' = [todo EXCEPT ![c] = << >>]
  <2>1. kind # "staff" /\ todo[c] = <<"mark">> /\ Tail(todo[c]) = << >>
    BY Turns
  <2> QED BY <2>1 DEF Passes
<1>2. ~Puttable(c) /\ ~Deletable(c)
  BY <1>1, NothingLeft
<1> QED BY <1>1, <1>2, DoneWrite

LEMMA AllThrough ==
  ASSUME TypeOK, TypeOK', Staged, Latecomers, Fits, Prepared, Through, NEW c \in Callers, All(c),
         Dels(c) = {}
  PROVE  Through'
<1> DEFINE q == Tail(todo[c])
<1>1. /\ Does(c, "all") /\ Written(c) /\ todo' = [todo EXCEPT ![c] = q] /\ mark' = mark
  BY DEF All, Passes
<1>2. \A k \in Keys : rows'[k] = rows[k] \/ Right(k, answer[c])'
  BY <1>1, WrittenRows
<1>3. kind # "staff"
  BY <1>1, Turns
<1>4. \A k \in Keys : Fit(k, answer[c])'
  BY AllStep
<1> QED BY <1>1, <1>2, <1>3, <1>4, DoneWrite

\* A new answer's changes are all to be written.
LEMMA AnswerThrough ==
  ASSUME TypeOK, TypeOK', Standing', Fits', Through, NEW c \in Callers, Answer(c)
  PROVE  Through'
<1>1. /\ UNCHANGED <<kind, log, rows, asked>> /\ todo[c] = << >> /\ Len(log) \in Nat
      /\ \A d \in Callers \ {c} : /\ todo'[d] = todo[d] /\ answer'[d] = answer[d]
                                  /\ state'[d] = state[d]
      /\ answer'[c] = Len(log)
      /\ todo'[c] = IF kind = "medals" /\ asked[c] = Len(log) THEN << >> ELSE Plan
  BY DEF Answer, table, TypeOK
<1>2. ASSUME NEW d \in Callers \ {c}, state'[d] = "writing", NEW k \in Keys PROVE Done(d, k)'
  <2>1. \A e \in Callers : kind = "staff" /\ todo[e] = <<"delete">> =>
            todo'[e] = todo[e] /\ asked'[e] = asked[e] /\ answer'[e] = answer[e]
    BY <1>1, Plans
  <2>2. Done(d, k)
    BY <1>1, <1>2 DEF Through
  <2> QED BY <1>1, <2>1, <2>2, DoneKept
<1>3. ASSUME NEW k \in Keys PROVE Done(c, k)'
  <2>1. CASE k \notin Changed(c)'
    <3>1. Latest(k, Len(log)) \in Nat /\ asked[c] \in Nat
      <4>1. asked[c] \in Nat
        BY DEF TypeOK
      <4> QED BY <4>1, LatestNat
    <3>2. Latest(k, Len(log))' = Latest(k, Len(log)) /\ Latest(k, answer[c])' = Latest(k, Len(log))
      BY <1>1 DEF Latest
    <3>3. Latest(k, Len(log)) <= asked[c]
      BY <1>1, <2>1, <3>1, <3>2 DEF Changed
    <3>4. Fit(k, asked[c])'
      BY DEF Fits
    <3>5. Good(k, asked[c])' => Good(k, answer[c])'
      BY <1>1, <3>1, <3>2, <3>3 DEF Good
    <3>6. Fit(k, answer[c])'
      BY <3>4, <3>5 DEF Fit
    <3> QED BY <3>6 DEF Done
  <2>2. CASE k \in Changed(c)'
    <3>1. ~(kind = "medals" /\ asked[c] = Len(log))
      <4> SUFFICES ASSUME asked[c] = Len(log) PROVE FALSE
        OBVIOUS
      <4>1. Latest(k, answer[c])' = Latest(k, Len(log))
        BY <1>1 DEF Latest
      <4>2. Latest(k, Len(log)) > Len(log)
        BY <1>1, <2>2, <4>1 DEF Changed
      <4>3. Len(log) \in 0 .. Len(log)
        BY <1>1
      <4>4. Latest(k, Len(log)) \in 0 .. Len(log)
        BY <4>3, LatestFacts
      <4> QED BY <1>1, <4>2, <4>4
    <3>2. todo'[c] = Plan
      BY <1>1, <3>1
    <3>3. Puttable(c)'
      BY <3>2, KindIn DEF Puttable, Plan, Five
    <3>4. kind # "medals" => Deletable(c)'
      BY <3>2, KindIn DEF Deletable, Plan, Five
    <3>5. kind = "medals" => k \in Puts(c)'
      <4>1. ASSUME kind = "medals" PROVE There(k, answer[c])'
        <5>1. Latest(k, answer[c])' \in 1 .. Len(log)
          <6>1. Latest(k, answer[c])' = Latest(k, Len(log))
            BY <1>1 DEF Latest
          <6>2. Len(log) \in 0 .. Len(log) /\ asked[c] \in Nat
            BY <1>1 DEF TypeOK
          <6>3. Latest(k, Len(log)) \in 0 .. Len(log)
            BY <6>2, LatestFacts
          <6>4. Latest(k, Len(log)) > asked[c]
            BY <1>1, <2>2, <6>1 DEF Changed
          <6> QED BY <1>1, <6>1, <6>2, <6>3, <6>4
        <5>2. DOMAIN log = 1 .. Len(log)
          BY DEF TypeOK
        <5> QED BY <1>1, <4>1, <5>1, <5>2 DEF There, Standing
      <4> QED BY <2>2, <4>1 DEF Puts
    <3> QED BY <2>2, <3>3, <3>4, <3>5 DEF Done, Dels
  <2> QED BY <2>1, <2>2
<1> QED BY <1>2, <1>3 DEF Through

LEMMA ThoroughInit == Init => Thorough
BY DEF Init, Thorough, Through

LEMMA ThoroughNext == IInv /\ IInv' /\ Thorough /\ [Next]_vars => Thorough'
<1> SUFFICES ASSUME IInv, IInv', Thorough, [Next]_vars, upset' \subseteq Harmless' PROVE Through'
  BY DEF Thorough
<1>1. TypeOK /\ TypeOK' /\ Staged /\ Standing /\ Standing'
  BY DEF IInv
<1>2. kind' = kind /\ upset \subseteq upset' /\ Harmless' = Harmless
  BY SpoiltStays DEF Harmless
<1>3. Unspoilt /\ Through /\ {"unput", "undeleted", "merged", "refused", "crossed"} \intersect upset' = {}
  <2>1. upset \subseteq Harmless
    BY <1>2
  <2>2. {"unput", "undeleted", "merged", "refused", "crossed"} \intersect upset' = {}
    BY <1>2 DEF Harmless
  <2> QED BY <1>1, <2>1, <2>2, HarmlessUnspoilt DEF Thorough
<1>4. Latecomers /\ Fits /\ Prepared
  BY <1>3 DEF IInv
<1>5. Fits'
  <2>1. Unspoilt'
    <3>1. Harmless \intersect Spoils = {}
      BY <1>1, KindIn DEF Harmless, Spoils, Five
    <3>2. Spoils' = Spoils
      BY <1>2 DEF Spoils
    <3> QED BY <1>2, <3>1, <3>2 DEF Unspoilt
  <2> QED BY <2>1 DEF IInv
<1>6. ASSUME UNCHANGED <<kind, log, rows>>, NEW W, W \subseteq Callers,
             \A c \in Callers : state'[c] = "writing" => c \in W,
             \A c \in W : /\ state[c] = "writing"
                          /\ todo'[c] = todo[c] /\ asked'[c] = asked[c] /\ answer'[c] = answer[c],
             \A d \in Callers : kind = "staff" /\ todo[d] = <<"delete">> =>
                 todo'[d] = todo[d] /\ asked'[d] = asked[d] /\ answer'[d] = answer[d]
      PROVE  Through'
  <2> SUFFICES ASSUME NEW c \in W, NEW k \in Keys PROVE Done(c, k)'
    BY <1>6 DEF Through
  <2>1. c \in Callers /\ Done(c, k)
    BY <1>3, <1>6 DEF Through
  <2> QED BY <1>6, <2>1, DoneKept
<1>7. ASSUME NEW c \in Callers, Call(c) PROVE Through'
  <2>1. CASE Ask(c) \/ Refused(c) \/ Return(c)
    <3> DEFINE W == {d \in Callers : state'[d] = "writing"}
    <3>1. /\ UNCHANGED <<kind, log, rows, todo>> /\ todo[c] = << >> /\ c \notin W
          /\ \A d \in Callers : d # c =>
                 asked'[d] = asked[d] /\ answer'[d] = answer[d] /\ state'[d] = state[d]
      BY <1>1, <2>1 DEF Ask, Refused, Return, table, TypeOK
    <3>2. \A d \in Callers : kind = "staff" /\ todo[d] = <<"delete">> => d # c
      BY <3>1, Plans
    <3> QED BY <1>6, <3>1, <3>2
  <2>2. CASE Answer(c)
    BY <1>1, <1>3, <1>5, <2>2, AnswerThrough
  <2>3. CASE Put(c)
    BY <1>1, <1>3, <1>4, <2>3, PutThrough
  <2>4. CASE Delete(c)
    <3>1. /\ rows' = [k \in Keys |-> IF k \in Dels(c) THEN 0 ELSE rows[k]]
          /\ vers' = [k \in Keys |-> IF k \in Dels(c) THEN 0 ELSE vers[k]]
      BY <1>3, <2>4, Deleted
    <3> QED BY <1>1, <1>3, <1>4, <2>4, <3>1, DeleteThrough
  <2>5. CASE SetMark(c)
    <3>1. Does(c, "mark") /\ Passes(c) /\ UNCHANGED <<rows, vers>>
      BY <2>5 DEF SetMark
    <3> QED BY <1>1, <1>3, <1>4, <3>1, MarkThrough
  <2>6. CASE All(c)
    <3>1. Dels(c) = {}
      BY <1>3, <2>6 DEF All
    <3> QED BY <1>1, <1>3, <1>4, <2>6, <3>1, AllThrough
  <2>7. CASE Fail(c, "put", "unput") \/ Fail(c, "delete", "undeleted")
    BY <1>3, <2>7 DEF Fail
  <2>8. CASE Fail(c, "mark", "unmarked")
    <3>1. /\ Does(c, "mark") /\ UNCHANGED <<rows, vers>>
          /\ todo' = [todo EXCEPT ![c] = << >>] \/ Passes(c)
      BY <2>8 DEF Fail, Passes, table
    <3> QED BY <1>1, <1>3, <1>4, <3>1, MarkThrough
  <2> QED
    BY <1>7, <2>1, <2>2, <2>3, <2>4, <2>5, <2>6, <2>7, <2>8 DEF Call
<1>8. CASE Crash
  BY <1>8 DEF Crash, Through
<1>9. ASSUME NEW k \in Keys, NEW here \in BOOLEAN, Change(k, here) PROVE Through'
  <2>1. UNCHANGED <<todo, answer, state>> /\ \A c \in Callers : answer[c] \in 0 .. Len(log)
    BY <1>1, <1>9 DEF Change, client, TypeOK
  <2>2. /\ \A c \in Callers : Puts(c)' = Puts(c) /\ Dels(c)' = Dels(c)
        /\ \A j \in Keys : \A m \in 0 .. Len(log) : Fit(j, m) => Fit(j, m)'
    BY <1>1, <1>9, ChangeKeeps
  <2> SUFFICES ASSUME NEW c \in Callers, state[c] = "writing", NEW j \in Keys, Done(c, j)
               PROVE  Done(c, j)'
    BY <1>3, <2>1 DEF Through
  <2>3. Fit(j, answer[c]) => Fit(j, answer[c])'
    BY <2>1, <2>2 DEF Fit, Good
  <2>4. (Puttable(c) => Puttable(c)') /\ (Deletable(c) => Deletable(c)')
    BY <2>1 DEF Puttable, Deletable
  <2> QED BY <2>2, <2>3, <2>4 DEF Done
<1>10. CASE UNCHANGED vars
  <2>1. UNCHANGED <<kind, log, rows, todo, asked, answer, state>>
    BY <1>10 DEF vars, client, table
  <2> DEFINE W == {d \in Callers : state'[d] = "writing"}
  <2>2. /\ W \subseteq Callers /\ \A c \in Callers : state'[c] = "writing" => c \in W
        /\ \A c \in W : state[c] = "writing"
    BY <2>1
  <2> HIDE DEF W
  <2> QED BY <1>6, <2>1, <2>2
<1> QED BY <1>7, <1>8, <1>9, <1>10 DEF Next

\* A call that is through has done all it was told, but for what changed
\* since, whatever a crash or a failed mark had left of the calls before it.
THEOREM AlwaysDone == Spec => []ThroughMeansDone
<1>1. IInv /\ Thorough => ThroughMeansDone
  <2> SUFFICES ASSUME IInv, Thorough, upset \subseteq Harmless, ~Between,
                      NEW c \in Callers, state[c] = "writing", todo[c] = << >>,
                      NEW k \in Keys, Latest(k, Len(log)) <= answer[c]
               PROVE  Right(k, Len(log))
    BY DEF ThroughMeansDone, Harmless
  <2>1. Done(c, k)
    BY DEF Thorough, Through
  <2>2. ~Puttable(c) /\ ~Deletable(c)
    BY NothingLeft
  <2> QED BY <2>1, <2>2, AwaitsBetween DEF Done, Fit, Good
<1>2. IInv /\ IInv' /\ Thorough /\ [Next]_vars => Thorough'
  BY ThoroughNext
<1>3. Spec => []Thorough
  BY ThoroughInit, <1>2, Invariant, PTL DEF Spec
<1> QED BY <1>1, <1>3, Invariant, PTL
=============================================================================
