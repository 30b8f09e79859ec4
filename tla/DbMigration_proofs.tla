------------------------- MODULE DbMigration_proofs -------------------------
(***************************************************************************)
(* Theorems about DbMigration for all versions a database may be of, any   *)
(* number of openings and any number of failures, and their proofs.        *)
(***************************************************************************)
EXTENDS DbMigration, TLAPS

\* What is left of an opening is the end of what it had to do.
Within == todo \subseteq Plan(stored)
Suffix == \A s \in todo, r \in Plan(stored) : Rank[s] <= Rank[r] => r \in todo

\* A table's types are old until they are shifted, which is still to come.
Shifting ==
    upset \intersect {"twice", "missed"} = {} => \A t \in Tables :
        \/ types[t] = << >>
        \/ types[t] = NewTypes /\ (t \in fixed \/ stored > 8)
        \/ types[t] = OldTypes /\ t \notin fixed /\ stored <= 8 /\ (phase = "opening" => t \in todo)

\* A trigger of an older version is dropped, and only then a new one made.
Exchanged(t) ==
    /\ MakingNew[t] \notin todo => trigger[t] = "new"
    /\ MakingNew[t] \in todo /\ Dropping[t] \notin todo => trigger[t] = "none"
Exchanging ==
    "missed" \notin upset => \A t \in Triggers :
        /\ stored > 13 => trigger[t] = "new"
        /\ stored <= 13 /\ phase = "opening" => Exchanged(t)

Flagging ==
    "missed" \notin upset =>
        /\ stored > 11 => flag
        /\ phase = "opening" /\ "flag" \notin todo => flag

\* The staff's columns when none, the first, the second, all were added.
Widened ==
    /\ "mood" \notin todo => user = Missing \/ "mood" \in user
    /\ "sex" \in todo => user \in {Missing, {}, {"mood"}, Columns}
    /\ "sex" \notin todo /\ "userType" \in todo => user = {"mood", "sex"}
    /\ "userType" \notin todo /\ "isVisible" \in todo => user = {"mood", "sex", "userType"}
    /\ "isVisible" \notin todo => user = Columns \/ (user = Missing /\ "staff" \in todo)
\* The table of version 5 is dropped and made again.
Rebuilt ==
    /\ "newUser" \notin todo => user = Columns \/ (user = Missing /\ "staff" \in todo)
    /\ "newUser" \in todo /\ "dropUser" \notin todo => user = Missing
Widening ==
    upset \intersect {"halved", "missed"} = {} =>
        /\ stored > 5 => user = Columns
        /\ stored = 5 /\ phase = "opening" => Rebuilt
        /\ stored = 4 => "mood" \in user
        /\ stored <= 4 => IF phase = "opening" THEN Widened
                          ELSE user \in {Missing, {}, {"mood"}, Columns}

IInv == TypeOK /\ Within /\ Suffix /\ Shifting /\ Exchanging /\ Flagging /\ Widening
----------------------------------------------------------------------------
(* Steps and their order.                                                  *)

\* No two steps have one place.
LEMMA Ranks ==
  /\ \A s \in DOMAIN Rank : Rank[s] \in 1 .. 25
  /\ \A s, r \in DOMAIN Rank : Rank[s] = Rank[r] => s = r
BY DEF Rank

LEMMA PlanSteps == \A v : Plan(v) \subseteq DOMAIN Rank
BY DEF Plan, Creating, Modifying, When, Added, Rank

\* What else is left comes later than the step whose turn it is.
LEMMA TurnFirst ==
  ASSUME TypeOK, NEW s, Turn(s)
  PROVE  /\ phase = "opening" /\ s \in todo /\ s \in DOMAIN Rank
         /\ \A r \in todo : r = s \/ Rank[s] < Rank[r]
<1>1. /\ todo \subseteq DOMAIN Rank /\ phase = "opening" /\ s \in todo
      /\ \A r \in todo : Rank[s] <= Rank[r]
  BY DEF TypeOK, Turn
<1> QED BY <1>1, Ranks

\* The steps that are not the only one of their try.
Joint == UNION Together

LEMMA Tries ==
  /\ Joint = {"oldInsert", "oldUpdate", "dropUser", "newUser"} \union Added
  /\ \A s : Try(s) \subseteq {s} \union Joint
  /\ \A s : s \notin Joint => Try(s) = {s}
<1>1. Joint = {"oldInsert", "oldUpdate", "dropUser", "newUser"} \union Added
  BY DEF Joint, Together
<1>2. ASSUME NEW s PROVE Try(s) \subseteq {s} \union Joint /\ (s \notin Joint => Try(s) = {s})
  BY DEF Try, Joint
<1> QED BY <1>1, <1>2

\* Nothing comes between the steps of one try.
LEMMA TryRanks ==
  ASSUME NEW s \in DOMAIN Rank, NEW y \in Try(s), NEW x \in DOMAIN Rank,
         x \notin Try(s), Rank[s] < Rank[x]
  PROVE  y \in DOMAIN Rank /\ Rank[y] < Rank[x]
<1>1. CASE y = s
  BY <1>1
<1>2. CASE y # s
  <2>1. PICK steps \in Together : s \in steps /\ y \in steps /\ x \notin steps
    BY <1>2 DEF Try
  <2>2. CASE steps = {"oldInsert", "oldUpdate"}
    BY <2>1, <2>2 DEF Rank
  <2>3. CASE steps = {"dropUser", "newUser"}
    BY <2>1, <2>3 DEF Rank
  <2>4. CASE steps = Added
    BY <2>1, <2>4 DEF Rank, Added
  <2> QED BY <2>1, <2>2, <2>3, <2>4 DEF Together
<1> QED BY <1>1, <1>2

\* What may be left after a step.
LEMMA LeftOver ==
  ASSUME TypeOK, Within, Suffix, NEW s, Turn(s), NEW rest \in {todo \ {s}} \union Rests(s)
  PROVE  /\ rest \subseteq Plan(stored) /\ rest \subseteq todo \ {s}
         /\ \A x \in rest, r \in Plan(stored) : Rank[x] <= Rank[r] => r \in rest
         /\ todo \ rest \subseteq Try(s)
<1>1. /\ todo \subseteq Plan(stored) /\ todo \subseteq DOMAIN Rank
      /\ s \in todo /\ \A r \in todo : r = s \/ Rank[s] < Rank[r]
  BY TurnFirst DEF Within, TypeOK
<1>2. rest = todo \ {s} \/ rest = todo \ Try(s)
  BY DEF Rests, GivenUp
<1>3. s \in Try(s)
  BY DEF Try
<1>4. ASSUME NEW x \in rest, NEW r \in Plan(stored), Rank[x] <= Rank[r] PROVE r \in rest
  <2>1. r \in todo /\ Rank[s] < Rank[x] /\ x \in todo
    BY <1>1, <1>2, <1>3, <1>4 DEF Suffix
  <2>2. Rank[s] \in Nat /\ Rank[x] \in Nat /\ Rank[r] \in Nat
    BY <1>1, <2>1, Ranks
  <2>3. CASE rest = todo \ {s}
    BY <1>4, <2>1, <2>2, <2>3
  <2>4. CASE rest = todo \ Try(s)
    <3>1. r \in Try(s) => Rank[r] < Rank[x]
      BY <1>1, <1>4, <2>1, <2>4, TryRanks
    <3> QED BY <1>4, <2>1, <2>2, <2>4, <3>1
  <2> QED BY <1>2, <2>3, <2>4
<1> QED BY <1>1, <1>2, <1>3, <1>4

----------------------------------------------------------------------------
(* The sorts of the variables.                                             *)

\* Shifting takes types to types.
LEMMA ShiftType ==
  ASSUME NEW f \in {<< >>} \union [{"chat", "group"} -> 0 .. 2]
  PROVE  [r \in DOMAIN f |-> Shifted(f[r])] \in {<< >>} \union [{"chat", "group"} -> 0 .. 2]
<1>1. CASE f = << >>
  BY <1>1
<1>2. CASE f \in [{"chat", "group"} -> 0 .. 2]
  BY <1>2 DEF Shifted
<1> QED BY <1>1, <1>2

LEMMA ShiftNone == [r \in DOMAIN << >> |-> Shifted(<< >>[r])] = << >>
OBVIOUS

LEMMA ShiftOld == [r \in DOMAIN OldTypes |-> Shifted(OldTypes[r])] = NewTypes
BY DEF OldTypes, NewTypes, Shifted

\* The state of an opening after a step.
LEMMA LeavesType ==
  ASSUME TypeOK, NEW rest, rest \subseteq DOMAIN Rank, Leaves(rest)
  PROVE  /\ phase' \in {"open", "opening"} /\ todo' \subseteq DOMAIN Rank
         /\ (phase' = "opening") <=> (todo' # {})
BY DEF Leaves

LEMMA InitType == Init => TypeOK
<1> SUFFICES ASSUME Init PROVE TypeOK
  OBVIOUS
<1>1. PICK v \in Versions : Left(v)
  BY DEF Init
<1>2. user = Missing \/ user \subseteq Columns
  BY <1>1 DEF Left, Columns
<1>3. types \in [Tables -> {<< >>} \union [{"chat", "group"} -> 0 .. 2]]
  <2>1. OldTypes \in [{"chat", "group"} -> 0 .. 2] /\ NewTypes \in [{"chat", "group"} -> 0 .. 2]
    BY DEF OldTypes, NewTypes
  <2> QED BY <1>1, <2>1 DEF Left
<1>4. trigger \in [Triggers -> {"none", "old", "new"}] /\ flag \in BOOLEAN
  BY <1>1 DEF Left
<1> QED BY <1>1, <1>2, <1>3, <1>4, FaultAssumption DEF Init, Left, TypeOK

LEMMA NextType == TypeOK /\ [Next]_vars => TypeOK'
<1> SUFFICES ASSUME TypeOK, [Next]_vars PROVE TypeOK'
  OBVIOUS
<1> DEFINE Disk == /\ stored' \in Versions \union {Current}
                   /\ user' = Missing \/ user' \subseteq Columns
                   /\ types' \in [Tables -> {<< >>} \union [{"chat", "group"} -> 0 .. 2]]
                   /\ trigger' \in [Triggers -> {"none", "old", "new"}]
                   /\ flag' \in BOOLEAN
           Control == /\ phase' \in {"closed", "opening", "open"} /\ todo' \subseteq DOMAIN Rank
                      /\ (phase' = "opening") <=> (todo' # {})
           History == /\ fixed' \subseteq Tables /\ upset' \subseteq {"twice", "missed", "halved"}
                      /\ faults' \in 0 .. MaxFaults
<1>1. Disk /\ Control /\ History => TypeOK'
  BY DEF TypeOK
<1>2. /\ UNCHANGED disk => Disk
      /\ UNCHANGED <<fixed, upset, faults>> => History
  BY DEF TypeOK, disk
<1>3. ASSUME NEW s, Does(s) PROVE Control
  <2>1. todo \ {s} \subseteq DOMAIN Rank /\ Leaves(todo \ {s})
    BY <1>3 DEF Does, TypeOK
  <2> QED BY <2>1, LeavesType
<1>4. ASSUME NEW s, Leaves(GivenUp(s)) PROVE Control
  <2>1. GivenUp(s) \subseteq DOMAIN Rank
    BY DEF GivenUp, TypeOK
  <2> QED BY <1>4, <2>1, LeavesType
<1>5. ASSUME NEW s, Throws(s) PROVE Control
  BY <1>5 DEF Throws
<1>6. CASE Open
  BY <1>1, <1>2, <1>6, PlanSteps DEF Open, Plan
<1>7. CASE Tidy
  BY <1>1, <1>2, <1>3, <1>7 DEF Tidy, Kept
<1>8. CASE UserTable \/ Mood \/ Rebuild
  <2>1. /\ \E s : Does(s) \/ Leaves(GivenUp(s))
        /\ UNCHANGED <<stored, types, trigger, flag, fixed, upset, faults>>
    BY <1>8 DEF UserTable, Mood, Rebuild, Kept
  <2>2. user' = Missing \/ user' \subseteq Columns
    BY <1>8 DEF UserTable, Mood, Rebuild, Columns, TypeOK
  <2> QED BY <1>1, <1>2, <1>3, <1>4, <2>1, <2>2 DEF TypeOK
<1>9. ASSUME NEW t \in Triggers, NEW making, NEW which \in {"old", "new"}, Creates(t, making, which)
      PROVE  TypeOK'
  <2>1. trigger' \in [Triggers -> {"none", "old", "new"}]
    BY <1>9 DEF Creates, TypeOK
  <2> QED BY <1>1, <1>2, <1>3, <1>9, <2>1 DEF Creates, Kept, TypeOK
<1>10. ASSUME NEW t \in Triggers, Drops(t) PROVE TypeOK'
  <2>1. trigger' \in [Triggers -> {"none", "old", "new"}]
    BY <1>10 DEF Drops, TypeOK
  <2> QED BY <1>1, <1>2, <1>3, <1>5, <1>10, <2>1 DEF Drops, Kept, TypeOK
<1>11. ASSUME NEW c \in Added, AddColumn(c) PROVE TypeOK'
  <2>1. user' = Missing \/ user' \subseteq Columns
    BY <1>11 DEF AddColumn, Columns, TypeOK
  <2>2. Control
    <3>1. CASE Does(c)
      BY <1>3, <3>1
    <3>2. CASE Leaves(GivenUp(c))
      BY <1>4, <3>2
    <3> QED BY <1>11, <3>1, <3>2 DEF AddColumn
  <2> QED BY <1>1, <1>2, <1>11, <2>1, <2>2 DEF AddColumn, Kept, TypeOK
<1>12. CASE ClearStaff
  BY <1>1, <1>2, <1>3, <1>5, <1>12 DEF ClearStaff, Kept
<1>13. ASSUME NEW t \in Tables, FixTypes(t) PROVE TypeOK'
  <2>1. types' \in [Tables -> {<< >>} \union [{"chat", "group"} -> 0 .. 2]]
    <3>1. types[t] \in {<< >>} \union [{"chat", "group"} -> 0 .. 2]
      BY DEF TypeOK
    <3>2. [r \in DOMAIN types[t] |-> Shifted(types[t][r])]
              \in {<< >>} \union [{"chat", "group"} -> 0 .. 2]
      BY <3>1, ShiftType
    <3> QED BY <1>13, <3>2 DEF FixTypes, TypeOK
  <2> QED BY <1>1, <1>3, <1>13, <2>1 DEF FixTypes, TypeOK
<1>14. CASE Flag \/ SetVersion
  BY <1>1, <1>2, <1>3, <1>14 DEF Flag, SetVersion, Kept, TypeOK
<1>15. ASSUME NEW s, PassOver(s) PROVE TypeOK'
  <2>1. PICK rest \in Rests(s) : Leaves(rest)
    BY <1>15 DEF PassOver
  <2>2. rest \subseteq DOMAIN Rank
    BY DEF Rests, GivenUp, TypeOK
  <2>3. Control
    BY <2>1, <2>2, LeavesType
  <2>4. History
    BY <1>15, FaultAssumption DEF PassOver, TypeOK
  <2> QED BY <1>1, <1>2, <1>15, <2>3, <2>4 DEF PassOver
<1>16. CASE Crash
  BY <1>1, <1>2, <1>16, FaultAssumption DEF Crash, TypeOK
<1>17. CASE UNCHANGED vars
  BY <1>17 DEF vars, disk, TypeOK
<1> QED
  BY <1>6, <1>7, <1>8, <1>9, <1>10, <1>11, <1>12, <1>13, <1>14, <1>15, <1>16, <1>17 DEF Next

----------------------------------------------------------------------------
(* What is left of an opening.                                             *)

\* Step s is done or passed over.
Step(s) == Turn(s) /\ \E rest \in {todo \ {s}} \union Rests(s) : Leaves(rest)

LEMMA DoesStep == ASSUME NEW s, Does(s) PROVE Step(s)
BY DEF Does, Step

LEMMA GivenUpStep == ASSUME NEW s, Turn(s), Leaves(GivenUp(s)) PROVE Step(s)
BY DEF Step, Rests

LEMMA AddColumnStep == ASSUME NEW c, AddColumn(c) PROVE Step(c)
BY DoesStep, GivenUpStep DEF AddColumn

LEMMA RebuildStep == Rebuild => Step("dropUser") \/ Step("newUser")
BY DoesStep, GivenUpStep DEF Rebuild

\* A step begins an opening, ends one, or goes on with it.
LEMMA Moves ==
  ASSUME [Next]_vars
  PROVE  \/ Open
         \/ stored' = stored /\ \E s : Step(s)
         \/ SetVersion
         \/ stored' = stored /\ phase' # "opening" /\ todo' = {}
         \/ UNCHANGED vars
<1>1. ASSUME NEW s, Throws(s) PROVE phase' # "opening" /\ todo' = {}
  BY <1>1 DEF Throws
<1>2. CASE Tidy \/ UserTable \/ Mood \/ Flag
  BY <1>2, DoesStep DEF Tidy, UserTable, Mood, Flag, Kept, disk
<1>3. CASE Rebuild
  BY <1>3, RebuildStep DEF Rebuild, Kept
<1>4. CASE ClearStaff
  BY <1>1, <1>4, DoesStep DEF ClearStaff, Kept, disk
<1>5. ASSUME NEW t \in Triggers,
             Creates(t, MakingOld, "old") \/ Creates(t, MakingNew, "new") \/ Drops(t)
      PROVE  stored' = stored /\ ((\E s : Step(s)) \/ (phase' # "opening" /\ todo' = {}))
  <2>1. stored' = stored
    BY <1>5 DEF Creates, Drops, Kept
  <2>2. (\E s : Does(s)) \/ (\E s : Throws(s))
    BY <1>5 DEF Creates, Drops
  <2> QED BY <1>1, <2>1, <2>2, DoesStep
<1>6. ASSUME NEW c \in Added, AddColumn(c) PROVE stored' = stored /\ \E s : Step(s)
  BY <1>6, AddColumnStep DEF AddColumn, Kept
<1>7. ASSUME NEW t \in Tables, FixTypes(t) PROVE stored' = stored /\ \E s : Step(s)
  BY <1>7, DoesStep DEF FixTypes
<1>8. ASSUME NEW s, PassOver(s) PROVE stored' = stored /\ Step(s)
  BY <1>8 DEF PassOver, Step, disk
<1>9. CASE Crash
  BY <1>9 DEF Crash, disk
<1> QED BY <1>2, <1>3, <1>4, <1>5, <1>6, <1>7, <1>8, <1>9 DEF Next

\* The version is written when nothing else is left.
LEMMA VersionLast ==
  ASSUME TypeOK, Turn("version") PROVE todo = {"version"}
<1>1. ASSUME NEW r \in todo PROVE r = "version"
  <2>1. r = "version" \/ Rank["version"] < Rank[r]
    BY TurnFirst
  <2>2. r \in DOMAIN Rank
    BY DEF TypeOK
  <2> QED BY <2>1, <2>2, Ranks DEF Rank
<1> QED BY <1>1, TurnFirst

LEMMA SuffixStep ==
  ASSUME TypeOK, Within, Suffix, [Next]_vars PROVE Within' /\ Suffix'
<1>1. CASE Open
  <2>1. todo' = Plan(stored) /\ stored' = stored
    BY <1>1 DEF Open, disk
  <2> QED BY <2>1 DEF Within, Suffix
<1>2. CASE stored' = stored /\ \E s : Step(s)
  <2>1. PICK s : Step(s)
    BY <1>2
  <2>2. PICK rest \in {todo \ {s}} \union Rests(s) : Turn(s) /\ Leaves(rest)
    BY <2>1 DEF Step
  <2>3. /\ rest \subseteq Plan(stored)
        /\ \A x \in rest, r \in Plan(stored) : Rank[x] <= Rank[r] => r \in rest
    BY <2>2, LeftOver
  <2>4. todo' = rest
    BY <2>2 DEF Leaves
  <2>5. Plan(stored)' = Plan(stored)
    BY <1>2
  <2> QED BY <2>3, <2>4, <2>5 DEF Within, Suffix
<1>3. CASE todo' = {}
  BY <1>3 DEF Within, Suffix
<1>4. CASE SetVersion
  <2>1. todo' = todo \ {"version"} /\ Turn("version")
    BY <1>4 DEF SetVersion, Does, Leaves
  <2>2. todo' = {}
    BY <2>1, VersionLast
  <2> QED BY <1>3, <2>2
<1>5. CASE UNCHANGED vars
  BY <1>5 DEF vars, disk, Within, Suffix
<1> QED BY <1>1, <1>2, <1>3, <1>4, <1>5, Moves

----------------------------------------------------------------------------
(* The invariants of the steps.                                            *)

LEMMA StoredRange == TypeOK => stored \in 0 .. 14
BY VersionAssumption DEF TypeOK, Current

\* What was upset stays so.
LEMMA UpsetStays == [Next]_vars => upset \subseteq upset'
BY DEF Next, Open, Tidy, UserTable, Mood, Rebuild, ClearStaff, Flag, SetVersion, Creates, Drops,
   AddColumn, FixTypes, PassOver, Crash, Kept, vars

LEMMA StepFacts ==
  ASSUME TypeOK, Within, Suffix, NEW s, Step(s)
  PROVE  /\ phase = "opening" /\ s \in todo /\ s \in Plan(stored)
         /\ phase' = "opening" \/ todo' = {}
         /\ todo' \subseteq todo \ {s} /\ todo \ todo' \subseteq Try(s)
         /\ \A x \in todo \ {s} : s \notin Joint \/ x \notin Joint => x \in todo'
<1>1. PICK rest \in {todo \ {s}} \union Rests(s) : Turn(s) /\ Leaves(rest)
  BY DEF Step
<1>2. todo' = rest /\ (phase' = "opening" \/ rest = {})
  BY <1>1 DEF Leaves
<1>3. phase = "opening" /\ s \in todo /\ s \in Plan(stored)
  BY <1>1, TurnFirst DEF Within
<1>4. todo' \subseteq todo \ {s} /\ todo \ todo' \subseteq Try(s)
  BY <1>1, <1>2, LeftOver
<1>5. \A x \in todo \ {s} : s \notin Joint \/ x \notin Joint => x \in todo'
  BY <1>4, Tries
<1> QED BY <1>2, <1>3, <1>4, <1>5

\* Who passes over a step marks it, unless it makes no difference.
LEMMA PassOverStep ==
  ASSUME NEW s, PassOver(s)
  PROVE  /\ Step(s) /\ UNCHANGED <<stored, user, types, trigger, flag, fixed>>
         /\ s \in Repaired \/ "missed" \in upset'
BY DEF PassOver, Step, disk

\* fixMessageType of the two tables.
LEMMA ShiftingStep ==
  ASSUME TypeOK, TypeOK', Within, Suffix, Shifting, [Next]_vars
  PROVE  Shifting'
<1> DEFINE Way(t) == \/ types[t] = << >>
                     \/ types[t] = NewTypes /\ (t \in fixed \/ stored > 8)
                     \/ /\ types[t] = OldTypes /\ t \notin fixed /\ stored <= 8
                        /\ phase = "opening" => t \in todo
<1> SUFFICES ASSUME upset' \intersect {"twice", "missed"} = {}, NEW t \in Tables PROVE Way(t)'
  BY DEF Shifting
<1>1. Way(t)
  BY UpsetStays DEF Shifting
<1>2. ASSUME UNCHANGED <<stored, types, fixed>>,
             phase' = "opening" /\ stored <= 8 =>
                 t \in todo' \/ (t \notin todo /\ phase = "opening")
      PROVE  Way(t)'
  BY <1>1, <1>2
<1>3. ASSUME NEW s, Step(s), s \notin Tables, UNCHANGED <<stored, types, fixed>> PROVE Way(t)'
  <2>1. t \notin Joint
    BY Tries DEF Tables, Added
  <2> QED BY <1>2, <1>3, <2>1, StepFacts
<1>4. CASE Open
  <2>1. stored <= 8 => t \in Plan(stored)
    BY DEF Plan, Modifying, When, Tables
  <2> QED BY <1>2, <1>4, <2>1 DEF Open, disk
<1>5. CASE Tidy \/ UserTable \/ Mood \/ Rebuild \/ Flag
  <2>1. /\ \E s \in Harmless \union {"userTable", "mood", "dropUser", "newUser", "flag"} : Step(s)
        /\ UNCHANGED <<stored, types, fixed>>
    BY <1>5, DoesStep, RebuildStep DEF Tidy, UserTable, Mood, Rebuild, Flag, Kept, disk
  <2> QED BY <1>3, <2>1 DEF Harmless, Tables
<1>6. CASE phase' # "opening" /\ UNCHANGED <<stored, types, fixed>>
  BY <1>2, <1>6
<1>7. CASE ClearStaff
  BY <1>3, <1>6, <1>7, DoesStep DEF ClearStaff, Throws, Kept, disk, Tables
<1>8. ASSUME NEW u \in Triggers,
             Creates(u, MakingOld, "old") \/ Creates(u, MakingNew, "new") \/ Drops(u)
      PROVE  Way(t)'
  <2>1. UNCHANGED <<stored, types, fixed>>
    BY <1>8 DEF Creates, Drops, Kept
  <2>2. MakingOld[u] \notin Tables /\ MakingNew[u] \notin Tables /\ Dropping[u] \notin Tables
    BY DEF MakingOld, MakingNew, Dropping, Triggers, Tables
  <2>3. (\E s : s \notin Tables /\ Does(s)) \/ phase' # "opening"
    BY <1>8, <2>2 DEF Creates, Drops, Throws
  <2> QED BY <1>3, <1>6, <2>1, <2>3, DoesStep
<1>9. ASSUME NEW c \in Added, AddColumn(c) PROVE Way(t)'
  <2>1. Step(c)
    BY <1>9, AddColumnStep
  <2> QED BY <1>3, <1>9, <2>1 DEF AddColumn, Kept, Added, Tables
<1>10. ASSUME NEW u \in Tables, FixTypes(u) PROVE Way(t)'
  <2>1. /\ stored' = stored /\ fixed' = fixed \union {u} /\ u \notin fixed
        /\ Step(u) /\ u \in Plan(stored)
        /\ types' = [types EXCEPT ![u] = [r \in DOMAIN @ |-> Shifted(@[r])]]
    BY <1>10, DoesStep, StepFacts DEF FixTypes
  <2>2. CASE u = t
    <3>1. stored <= 8
      BY <2>1, <2>2 DEF Plan, Modifying, When, Tables, Creating, Added, TypeOK
    <3>2. types[t] = << >> \/ types[t] = OldTypes
      BY <1>1, <2>1, <2>2, <3>1, StoredRange
    <3>3. types'[t] = [r \in DOMAIN types[t] |-> Shifted(types[t][r])]
      BY <2>1, <2>2 DEF TypeOK
    <3>4. types'[t] = << >> \/ types'[t] = NewTypes
      BY <3>2, <3>3, ShiftNone, ShiftOld
    <3> QED BY <2>1, <2>2, <3>4
  <2>3. CASE u # t
    <3>1. types'[t] = types[t]
      BY <2>1, <2>3 DEF TypeOK
    <3>2. phase = "opening" /\ (t \in todo => t \in todo')
      <4>1. t \notin Joint
        BY Tries DEF Tables, Added
      <4> QED BY <2>1, <2>3, <4>1, StepFacts
    <3> QED BY <1>1, <2>1, <2>3, <3>1, <3>2
  <2> QED BY <2>2, <2>3
<1>11. CASE SetVersion
  <2>1. todo = {"version"} /\ phase = "opening" /\ stored' = 14 /\ UNCHANGED <<types, fixed>>
    BY <1>11, VersionLast DEF SetVersion, Does, Turn, Kept, Current
  <2>2. t # "version"
    BY DEF Tables
  <2> QED BY <1>1, <2>1, <2>2
<1>12. ASSUME NEW s, PassOver(s) PROVE Way(t)'
  <2>1. s \in Repaired /\ Step(s) /\ UNCHANGED <<stored, types, fixed>>
    BY <1>12, PassOverStep
  <2>2. s \notin Tables
    BY <2>1 DEF Repaired, Harmless, Creating, Tables
  <2> QED BY <1>3, <2>1, <2>2
<1>13. CASE Crash
  BY <1>6, <1>13 DEF Crash, disk
<1>14. CASE UNCHANGED vars
  BY <1>1, <1>14 DEF vars, disk
<1> QED
  BY <1>4, <1>5, <1>7, <1>8, <1>9, <1>10, <1>11, <1>12, <1>13, <1>14 DEF Next

\* modifyUnreadCountTrigger after CreatTables.
LEMMA TriggerSteps ==
  ASSUME NEW t \in Triggers
  PROVE  /\ MakingOld[t] \in Creating
         /\ \A v : v <= 13 => {MakingNew[t], Dropping[t]} \subseteq Plan(v)
         /\ \A v \in 14 .. 14 : MakingNew[t] \notin Plan(v) /\ Dropping[t] \notin Plan(v)
         /\ Rank[MakingOld[t]] < 4
         /\ Rank[Dropping[t]] \in 21 .. 22 /\ Rank[MakingNew[t]] \in 23 .. 24
         /\ {MakingNew[t], Dropping[t]} \intersect
                (Creating \union Added \union Repaired \union {"mood", "dropUser", "newUser", "flag"}
                 \union Tables) = {}
         /\ \A u \in Triggers \ {t} : MakingNew[t] # MakingNew[u] /\ Dropping[t] # Dropping[u]
         /\ \A u \in Triggers : MakingNew[t] # Dropping[u]
         /\ MakingNew[t] \notin Joint /\ Dropping[t] \notin Joint
BY Tries DEF MakingOld, MakingNew, Dropping, Creating, Plan, Modifying, When, Rank, Added, Repaired,
   Harmless, Tables, Triggers

LEMMA ExchangingStep ==
  ASSUME TypeOK, TypeOK', Within, Suffix, Exchanging, [Next]_vars
  PROVE  Exchanging'
<1> DEFINE Way(t) == /\ stored > 13 => trigger[t] = "new"
                     /\ stored <= 13 /\ phase = "opening" => Exchanged(t)
<1> SUFFICES ASSUME "missed" \notin upset', NEW t \in Triggers PROVE Way(t)'
  BY DEF Exchanging
<1>1. Way(t) /\ stored \in 0 .. 14
  BY UpsetStays, StoredRange DEF Exchanging
<1>2. ASSUME UNCHANGED <<stored, trigger>>, phase' # "opening" PROVE Way(t)'
  BY <1>1, <1>2
<1>3. ASSUME NEW s, Step(s), s \notin {MakingNew[t], Dropping[t]}, stored' = stored,
             trigger'[t] = trigger[t]
      PROVE  Way(t)'
  <2>1. MakingNew[t] \notin Joint /\ Dropping[t] \notin Joint
    BY TriggerSteps
  <2>2. /\ phase = "opening" /\ todo' \subseteq todo
        /\ MakingNew[t] \in todo => MakingNew[t] \in todo'
        /\ Dropping[t] \in todo => Dropping[t] \in todo'
    BY <1>3, <2>1, StepFacts
  <2> QED BY <1>1, <1>3, <2>2 DEF Exchanged
<1>4. CASE Open
  <2>1. UNCHANGED <<stored, trigger>> /\ todo' = Plan(stored)
    BY <1>4 DEF Open, disk
  <2> QED BY <1>1, <2>1, TriggerSteps DEF Exchanged
<1>5. CASE Tidy \/ UserTable \/ Mood \/ Rebuild \/ Flag
  <2>1. /\ \E s \in Repaired \union {"mood", "dropUser", "newUser", "flag"} : Step(s)
        /\ UNCHANGED <<stored, trigger>>
    BY <1>5, DoesStep, RebuildStep DEF Tidy, UserTable, Mood, Rebuild, Flag, Kept, disk, Repaired, Creating
  <2> QED BY <1>3, <2>1, TriggerSteps
<1>6. CASE ClearStaff
  <2>1. UNCHANGED <<stored, trigger>> /\ (Does("staff") \/ phase' # "opening")
    BY <1>6 DEF ClearStaff, Throws, Kept, disk
  <2>2. "staff" \in Repaired
    BY DEF Repaired
  <2> QED BY <1>2, <1>3, <2>1, <2>2, DoesStep, TriggerSteps
<1>7. ASSUME NEW u \in Triggers, Creates(u, MakingOld, "old") PROVE Way(t)'
  <2>1. /\ stored' = stored /\ Step(MakingOld[u])
        /\ trigger'[t] = trigger[t] \/ (trigger[t] = "none" /\ u = t)
    BY <1>7, DoesStep DEF Creates, Kept, TypeOK
  <2>2. MakingOld[u] \notin {MakingNew[t], Dropping[t]}
    BY TriggerSteps
  <2>3. CASE trigger'[t] = trigger[t]
    BY <1>3, <2>1, <2>2, <2>3
  <2>4. CASE trigger[t] = "none"
    <3>1. stored <= 13
      BY <1>1, <2>4
    <3>2. /\ MakingOld[u] \in todo /\ todo \subseteq DOMAIN Rank
          /\ MakingNew[t] \in Plan(stored) /\ Dropping[t] \in Plan(stored)
      BY <1>1, <2>1, <3>1, StepFacts, TriggerSteps DEF TypeOK
    <3>3. Rank[MakingOld[u]] <= Rank[MakingNew[t]] /\ Rank[MakingOld[u]] <= Rank[Dropping[t]]
      BY <3>2, TriggerSteps, Ranks
    <3>4. MakingNew[t] \in todo /\ Dropping[t] \in todo
      BY <3>2, <3>3 DEF Suffix
    <3>5. MakingNew[t] \notin Joint /\ Dropping[t] \notin Joint
      BY TriggerSteps
    <3>6. MakingNew[t] \in todo' /\ Dropping[t] \in todo'
      BY <2>1, <2>2, <3>4, <3>5, StepFacts
    <3>7. ~(stored' > 13)
      BY <1>1, <2>1, <3>1
    <3> QED BY <3>6, <3>7 DEF Exchanged
  <2> QED BY <2>1, <2>3, <2>4
<1>8. ASSUME NEW u \in Triggers, Creates(u, MakingNew, "new") PROVE Way(t)'
  <2>1. /\ stored' = stored /\ Step(MakingNew[u]) /\ Turn(MakingNew[u])
        /\ trigger' = [trigger EXCEPT ![u] = IF @ = "none" THEN "new" ELSE @]
    BY <1>8, DoesStep DEF Creates, Kept, Does
  <2>2. MakingNew[u] \in Plan(stored) /\ MakingNew[u] \in todo /\ phase = "opening"
    BY <2>1, StepFacts
  <2>3. stored <= 13
    <3>1. stored # 14
      BY <2>2, TriggerSteps
    <3> QED BY <1>1, <3>1
  <2>4. CASE u = t
    <3>1. Dropping[t] \notin todo
      <4>1. /\ Rank[Dropping[t]] < Rank[MakingNew[t]]
            /\ Rank[MakingNew[t]] \in Nat /\ Rank[Dropping[t]] \in Nat
        BY TriggerSteps
      <4> QED BY <2>1, <2>4, <4>1, TurnFirst
    <3>2. trigger[t] = "none"
      BY <1>1, <2>2, <2>3, <2>4, <3>1 DEF Exchanged
    <3>3. trigger'[t] = "new" /\ MakingNew[t] \notin todo'
      BY <2>1, <2>4, <3>2, StepFacts DEF TypeOK
    <3> QED BY <2>1, <2>3, <3>3 DEF Exchanged
  <2>5. CASE u # t
    <3>1. MakingNew[u] \notin {MakingNew[t], Dropping[t]} /\ trigger'[t] = trigger[t]
      BY <2>1, <2>5, TriggerSteps DEF TypeOK
    <3> QED BY <1>3, <2>1, <3>1
  <2> QED BY <2>4, <2>5
<1>9. ASSUME NEW u \in Triggers, Drops(u) PROVE Way(t)'
  <2>1. /\ stored' = stored /\ trigger' = [trigger EXCEPT ![u] = "none"] /\ Turn(Dropping[u])
        /\ phase' # "opening" \/ Step(Dropping[u])
    BY <1>9, DoesStep DEF Drops, Kept, Does, Throws
  <2>2. Dropping[u] \in Plan(stored) /\ Dropping[u] \in todo /\ phase = "opening"
        /\ todo \subseteq DOMAIN Rank
    BY <2>1, TurnFirst DEF Within, TypeOK
  <2>3. stored <= 13
    <3>1. stored # 14
      BY <2>2, TriggerSteps
    <3> QED BY <1>1, <3>1
  <2>7. ~(stored' > 13)
    BY <1>1, <2>1, <2>3
  <2>4. CASE phase' # "opening"
    BY <2>4, <2>7
  <2>5. CASE u = t /\ Step(Dropping[t])
    <3>1. trigger'[t] = "none"
      BY <2>1, <2>5 DEF TypeOK
    <3>2. MakingNew[t] \in todo
      <4>1. Rank[Dropping[t]] <= Rank[MakingNew[t]] /\ MakingNew[t] \in Plan(stored)
        BY <1>1, <2>3, TriggerSteps
      <4> QED BY <2>2, <2>5, <4>1 DEF Suffix
    <3>3. MakingNew[t] \notin Joint /\ MakingNew[t] # Dropping[t]
      BY TriggerSteps
    <3>4. MakingNew[t] \in todo'
      BY <2>5, <3>2, <3>3, StepFacts
    <3> QED BY <2>7, <3>1, <3>4 DEF Exchanged
  <2>6. CASE u # t /\ Step(Dropping[u])
    <3>1. Dropping[u] \notin {MakingNew[t], Dropping[t]} /\ trigger'[t] = trigger[t]
      BY <2>1, <2>6, TriggerSteps DEF TypeOK
    <3> QED BY <1>3, <2>1, <2>6, <3>1
  <2> QED BY <2>1, <2>4, <2>5, <2>6
<1>10. ASSUME NEW c \in Added, AddColumn(c) PROVE Way(t)'
  <2>1. Step(c)
    BY <1>10, AddColumnStep
  <2>2. c \notin {MakingNew[t], Dropping[t]} /\ UNCHANGED <<stored, trigger>>
    BY <1>10, TriggerSteps DEF AddColumn, Kept
  <2> QED BY <1>3, <2>1, <2>2
<1>11. ASSUME NEW u \in Tables, FixTypes(u) PROVE Way(t)'
  <2>1. Step(u) /\ u \notin {MakingNew[t], Dropping[t]} /\ UNCHANGED <<stored, trigger>>
    BY <1>11, DoesStep, TriggerSteps DEF FixTypes
  <2> QED BY <1>3, <2>1
<1>12. CASE SetVersion
  <2>1. todo = {"version"} /\ phase = "opening" /\ stored' = 14 /\ trigger' = trigger
    BY <1>12, VersionLast DEF SetVersion, Does, Turn, Kept, Current
  <2>2. MakingNew[t] \notin todo
    BY <2>1, TriggerSteps DEF Repaired
  <2> QED BY <1>1, <2>1, <2>2 DEF Exchanged
<1>13. ASSUME NEW s, PassOver(s) PROVE Way(t)'
  <2>1. s \in Repaired /\ Step(s) /\ UNCHANGED <<stored, trigger>>
    BY <1>13, PassOverStep
  <2>2. s \notin {MakingNew[t], Dropping[t]}
    BY <2>1, TriggerSteps
  <2> QED BY <1>3, <2>1, <2>2
<1>14. CASE Crash
  BY <1>2, <1>14 DEF Crash, disk
<1>15. CASE UNCHANGED vars
  BY <1>1, <1>15 DEF vars, disk, Exchanged
<1> QED
  BY <1>4, <1>5, <1>6, <1>7, <1>8, <1>9, <1>10, <1>11, <1>12, <1>13, <1>14, <1>15 DEF Next

\* addMessageFlag.
LEMMA FlaggingStep ==
  ASSUME TypeOK, TypeOK', Within, Suffix, Flagging, [Next]_vars
  PROVE  Flagging'
<1> SUFFICES ASSUME "missed" \notin upset'
    PROVE  (stored' > 11 => flag') /\ (phase' = "opening" /\ "flag" \notin todo' => flag')
  BY DEF Flagging
<1>1. /\ stored \in 0 .. 14 /\ (stored > 11 => flag)
      /\ phase = "opening" /\ "flag" \notin todo => flag
  BY UpsetStays, StoredRange DEF Flagging
<1>2. CASE UNCHANGED <<stored, flag>> /\ phase' # "opening"
  BY <1>1, <1>2
<1>3. ASSUME NEW s, Step(s), s # "flag", UNCHANGED <<stored, flag>>
      PROVE  (stored' > 11 => flag') /\ (phase' = "opening" /\ "flag" \notin todo' => flag')
  <2>1. "flag" \notin Joint
    BY Tries DEF Added
  <2>2. phase = "opening" /\ ("flag" \in todo => "flag" \in todo')
    BY <1>3, <2>1, StepFacts
  <2> QED BY <1>1, <1>3, <2>2
<1>4. CASE Open
  <2>1. UNCHANGED <<stored, flag>> /\ todo' = Plan(stored)
    BY <1>4 DEF Open, disk
  <2>2. stored <= 11 => "flag" \in Plan(stored)
    BY DEF Plan, Modifying, When
  <2> QED BY <1>1, <2>1, <2>2
<1>5. CASE Tidy \/ UserTable \/ Mood \/ Rebuild
  <2>1. /\ \E s \in Harmless \union {"userTable", "mood", "dropUser", "newUser"} : Step(s)
        /\ UNCHANGED <<stored, flag>>
    BY <1>5, DoesStep, RebuildStep DEF Tidy, UserTable, Mood, Rebuild, Kept, disk
  <2> QED BY <1>3, <2>1 DEF Harmless
<1>6. CASE ClearStaff
  BY <1>2, <1>3, <1>6, DoesStep DEF ClearStaff, Throws, Kept, disk
<1>7. CASE Flag
  BY <1>7 DEF Flag
<1>8. ASSUME NEW u \in Triggers,
             Creates(u, MakingOld, "old") \/ Creates(u, MakingNew, "new") \/ Drops(u)
      PROVE  (stored' > 11 => flag') /\ (phase' = "opening" /\ "flag" \notin todo' => flag')
  <2>1. UNCHANGED <<stored, flag>>
    BY <1>8 DEF Creates, Drops, Kept
  <2>2. "flag" \notin {MakingOld[u], MakingNew[u], Dropping[u]}
    BY DEF MakingOld, MakingNew, Dropping, Triggers
  <2>3. (\E s : s # "flag" /\ Does(s)) \/ phase' # "opening"
    BY <1>8, <2>2 DEF Creates, Drops, Throws
  <2> QED BY <1>2, <1>3, <2>1, <2>3, DoesStep
<1>9. ASSUME NEW c \in Added, AddColumn(c)
      PROVE  (stored' > 11 => flag') /\ (phase' = "opening" /\ "flag" \notin todo' => flag')
  <2>1. Step(c)
    BY <1>9, AddColumnStep
  <2> QED BY <1>3, <1>9, <2>1 DEF AddColumn, Kept, Added
<1>10. ASSUME NEW u \in Tables, FixTypes(u)
       PROVE  (stored' > 11 => flag') /\ (phase' = "opening" /\ "flag" \notin todo' => flag')
  BY <1>3, <1>10, DoesStep DEF FixTypes, Tables
<1>11. CASE SetVersion
  <2>1. todo = {"version"} /\ phase = "opening" /\ flag' = flag
    BY <1>11, VersionLast DEF SetVersion, Does, Turn, Kept
  <2> QED BY <1>1, <2>1
<1>12. ASSUME NEW s, PassOver(s)
       PROVE  (stored' > 11 => flag') /\ (phase' = "opening" /\ "flag" \notin todo' => flag')
  <2>1. s \in Repaired /\ Step(s) /\ UNCHANGED <<stored, flag>>
    BY <1>12, PassOverStep
  <2>2. s # "flag"
    BY <2>1 DEF Repaired, Harmless, Creating
  <2> QED BY <1>3, <2>1, <2>2
<1>13. CASE Crash
  BY <1>2, <1>13 DEF Crash, disk
<1>14. CASE UNCHANGED vars
  BY <1>1, <1>14 DEF vars, disk
<1> QED
  BY <1>4, <1>5, <1>6, <1>7, <1>8, <1>9, <1>10, <1>11, <1>12, <1>13, <1>14 DEF Next

\* What a database of version v needs done to IM_User.
LEMMA UserSteps ==
  ASSUME NEW v \in 0 .. 14
  PROVE  /\ "version" \in Plan(v) /\ ("mood" \in Plan(v) <=> v <= 3)
         /\ \A c \in Added : c \in Plan(v) <=> v <= 4
         /\ v <= 5 => "staff" \in Plan(v)
         /\ "dropUser" \in Plan(v) <=> v = 5
         /\ "newUser" \in Plan(v) <=> v = 5
BY DEF Plan, Modifying, When, Creating, Added

\* While there are steps to come, the version is one of them.
LEMMA StepOn ==
  ASSUME TypeOK, TypeOK', Within, Suffix, NEW s, Step(s), s # "version"
  PROVE  "version" \in todo' /\ phase' = "opening"
<1>1. s \in todo /\ todo \subseteq DOMAIN Rank /\ "version" \in Plan(stored)
  BY StepFacts, StoredRange, UserSteps DEF TypeOK
<1>2. Rank[s] <= 25 /\ Rank["version"] = 25
  BY <1>1, Ranks DEF Rank
<1>3. "version" \in todo
  BY <1>1, <1>2 DEF Suffix
<1>4. "version" \notin Joint
  BY Tries DEF Added
<1>5. "version" \in todo'
  BY <1>3, <1>4, StepFacts
<1> QED BY <1>5 DEF TypeOK

\* The steps that IM_User's columns depend on.
Telling == {"mood", "dropUser", "newUser", "staff", "version"} \union Added

LEMMA QuietStep ==
  ASSUME TypeOK, TypeOK', Within, Suffix, NEW s, Step(s), s \notin Telling
  PROVE  /\ phase = "opening" /\ phase' = "opening"
         /\ \A x \in Telling : x \in todo <=> x \in todo'
<1>1. phase = "opening" /\ phase' = "opening"
  BY StepFacts, StepOn DEF Telling
<1>2. s \in {"oldInsert", "oldUpdate"} \/ s \notin Joint
  BY Tries DEF Telling
<1>3. Try(s) \intersect Telling = {}
  <2>1. CASE s \in {"oldInsert", "oldUpdate"}
    BY <2>1 DEF Try, Together, Telling, Added
  <2> QED BY <1>2, <2>1, Tries
<1> QED BY <1>1, <1>3, StepFacts

\* Who does step s has what comes later still to do, and nothing earlier.
LEMMA Order ==
  ASSUME TypeOK, Within, Suffix, NEW s, Turn(s)
  PROVE  /\ s \in Plan(stored) /\ s \in DOMAIN Rank /\ phase = "opening"
         /\ \A r \in Plan(stored) : Rank[s] <= Rank[r] => r \in todo
         /\ \A r \in DOMAIN Rank : Rank[r] < Rank[s] => r \notin todo
<1>1. /\ phase = "opening" /\ s \in todo /\ s \in DOMAIN Rank
      /\ \A r \in todo : r = s \/ Rank[s] < Rank[r]
  BY TurnFirst
<1>2. \A r \in DOMAIN Rank : Rank[r] < Rank[s] => r \notin todo
  BY <1>1, Ranks
<1> QED BY <1>1, <1>2 DEF Within, Suffix

\* The columns of IM_User.
LEMMA WideningStep ==
  ASSUME TypeOK, TypeOK', Within, Suffix, Widening, [Next]_vars
  PROVE  Widening'
<1> DEFINE Between == {Missing, {}, {"mood"}, Columns}
<1> DEFINE Way == /\ stored > 5 => user = Columns
                  /\ stored = 5 /\ phase = "opening" => Rebuilt
                  /\ stored = 4 => "mood" \in user
                  /\ stored <= 4 => IF phase = "opening" THEN Widened ELSE user \in Between
<1> SUFFICES ASSUME upset' \intersect {"halved", "missed"} = {} PROVE Way'
  BY DEF Widening
<1>1. Way /\ stored \in 0 .. 14
  BY UpsetStays, StoredRange DEF Widening
<1>2. CASE UNCHANGED <<stored, user>> /\ phase = "opening" /\ phase' # "opening"
           /\ (stored <= 4 => user \in Between)
  BY <1>1, <1>2
<1>3. ASSUME NEW s, Step(s), s \notin Telling, UNCHANGED <<stored, user>> PROVE Way'
  <2>1. /\ phase = "opening" /\ phase' = "opening"
        /\ \A x \in Telling : x \in todo <=> x \in todo'
    BY <1>3, QuietStep
  <2>2. stored = 5 => Rebuilt'
    <3>1. {"newUser", "dropUser", "staff"} \subseteq Telling
      BY DEF Telling
    <3> QED BY <1>1, <1>3, <2>1, <3>1 DEF Rebuilt
  <2>3. stored <= 4 => Widened'
    <3>1. {"mood", "sex", "userType", "isVisible", "staff"} \subseteq Telling
      BY DEF Telling, Added
    <3> QED BY <1>1, <1>3, <2>1, <3>1 DEF Widened
  <2> QED BY <1>1, <1>3, <2>1, <2>2, <2>3
<1>4. CASE Open
  <2>1. UNCHANGED <<stored, user>> /\ todo' = Plan(stored) /\ phase' = "opening" /\ phase # "opening"
    BY <1>4 DEF Open, disk
  <2>2. stored = 5 => Rebuilt'
    BY <1>1, <2>1, UserSteps DEF Rebuilt
  <2>3. stored <= 4 => Widened'
    <3>1. ASSUME stored <= 4
          PROVE  {"sex", "userType", "isVisible"} \subseteq todo' /\ user \in Between
                 /\ ("mood" \notin todo' => "mood" \in user)
      BY <1>1, <2>1, <3>1, UserSteps DEF Added
    <3> QED BY <2>1, <3>1 DEF Widened
  <2> QED BY <1>1, <2>1, <2>2, <2>3
<1>5. CASE UserTable
  <2>1. /\ Turn("userTable") /\ Step("userTable") /\ stored' = stored
        /\ user' = IF user = Missing THEN {} ELSE user
    BY <1>5, DoesStep DEF UserTable, Does, Kept
  <2>2. "userTable" \notin Telling
    BY DEF Telling, Added
  <2>3. CASE user' = user
    BY <1>3, <2>1, <2>2, <2>3
  <2>4. CASE user = Missing
    <3>1. /\ phase = "opening" /\ phase' = "opening"
          /\ \A x \in Telling : x \in Plan(stored) => x \in todo'
      <4>1. \A x \in Plan(stored) : Rank["userTable"] <= Rank[x]
        BY PlanSteps, Ranks DEF Rank
      <4> QED BY <2>1, <2>2, <4>1, QuietStep, Order
    <3>2. stored <= 5 /\ stored # 4
      <4>1. "mood" \in Columns /\ "mood" \notin Missing
        BY DEF Missing, Columns
      <4> QED BY <1>1, <2>4, <4>1
    <3>3. stored = 5 => Rebuilt'
      BY <1>1, <3>1, UserSteps DEF Rebuilt, Telling
    <3>4. stored <= 4 => Widened'
      BY <1>1, <2>1, <2>4, <3>1, <3>2, UserSteps DEF Widened, Telling, Added
    <3> QED BY <1>1, <2>1, <3>1, <3>2, <3>3, <3>4
  <2> QED BY <2>1, <2>3, <2>4
<1>6. CASE Mood
  <2>1. /\ Turn("mood") /\ Step("mood") /\ stored' = stored
        /\ user' = IF user = Missing THEN user ELSE user \union {"mood"}
    BY <1>6, DoesStep DEF Mood, Does, Kept
  <2>2. stored <= 3 /\ phase = "opening" /\ phase' = "opening" /\ todo' \subseteq todo \ {"mood"}
    BY <1>1, <2>1, Order, UserSteps, StepFacts, StepOn
  <2>3. Added \subseteq todo /\ Added \subseteq todo'
    <3>1. \A c \in Added : c \in Plan(stored) /\ Rank["mood"] <= Rank[c] /\ c # "mood"
      BY <1>1, <2>2, UserSteps DEF Rank, Added
    <3>2. "mood" \notin Joint
      BY Tries DEF Added
    <3> QED BY <2>1, <3>1, <3>2, Order, StepFacts
  <2>4. user \in Between
    BY <1>1, <2>2, <2>3 DEF Widened, Added
  <2>5. user' \in {Missing, {"mood"}, Columns}
    BY <2>1, <2>4 DEF Missing, Columns
  <2>6. user' = Missing \/ "mood" \in user'
    BY <2>5 DEF Columns
  <2> QED BY <1>1, <2>1, <2>2, <2>3, <2>5, <2>6 DEF Widened, Added
<1>7. CASE Rebuild
  <2>1. ASSUME Step("dropUser") PROVE phase' = "opening" /\ stored = 5
    BY <1>1, <2>1, StepFacts, UserSteps, StepOn
  <2>2. CASE Does("dropUser") /\ user' = Missing
    <3>1. Turn("dropUser") /\ Step("dropUser") /\ stored' = stored
      BY <1>7, <2>2, DoesStep DEF Rebuild, Does, Kept
    <3>2. stored = 5
      BY <2>1, <3>1
    <3>3. "newUser" \in todo
      <4>1. Rank["dropUser"] <= Rank["newUser"] /\ "newUser" \in Plan(stored)
        BY <1>1, <3>2, UserSteps DEF Rank
      <4> QED BY <3>1, <4>1, Order
    <3>4. "newUser" \in todo'
      BY <2>2, <3>3 DEF Does, Leaves
    <3> QED BY <2>2, <3>1, <3>2, <3>4 DEF Rebuilt
  <2>3. CASE user = Missing /\ Turn("dropUser") /\ Leaves(GivenUp("dropUser")) /\ user' = user
    <3>1. Step("dropUser") /\ stored' = stored
      BY <1>7, <2>3, GivenUpStep DEF Rebuild, Kept
    <3>2. stored = 5
      BY <2>1, <3>1
    <3>3. "staff" \in todo
      <4>1. Rank["dropUser"] <= Rank["staff"] /\ "staff" \in Plan(stored)
        BY <1>1, <3>2, UserSteps DEF Rank
      <4> QED BY <2>3, <4>1, Order
    <3>4. "staff" \in todo' /\ "newUser" \notin todo'
      <4>1. "staff" \notin Joint /\ "newUser" \in Try("dropUser")
        BY Tries DEF Added, Try, Together
      <4>2. todo' = todo \ Try("dropUser")
        BY <2>3 DEF Leaves, GivenUp
      <4> QED BY <3>1, <3>3, <4>1, <4>2, StepFacts
    <3> QED BY <2>3, <3>1, <3>2, <3>4 DEF Rebuilt
  <2>4. CASE Does("newUser") /\ user' = IF user = Missing THEN Columns ELSE user
    <3>1. Turn("newUser") /\ Step("newUser") /\ stored' = stored
      BY <1>7, <2>4, DoesStep DEF Rebuild, Does, Kept
    <3>2. stored = 5 /\ phase = "opening" /\ "newUser" \in todo
      BY <1>1, <3>1, Order, UserSteps, StepFacts
    <3>3. "dropUser" \notin todo
      <4>1. Rank["dropUser"] < Rank["newUser"] /\ "dropUser" \in DOMAIN Rank
        BY DEF Rank
      <4> QED BY <3>1, <4>1, Order
    <3>4. user' = Columns
      BY <1>1, <2>4, <3>2, <3>3 DEF Rebuilt
    <3>5. "newUser" \notin todo'
      BY <3>1, StepFacts
    <3> QED BY <3>1, <3>2, <3>4, <3>5 DEF Rebuilt
  <2> QED BY <1>7, <2>2, <2>3, <2>4 DEF Rebuild
<1>8. ASSUME NEW s, Turn(s), "staff" \notin todo, Rank[s] > 11, UNCHANGED <<stored, user>>
      PROVE  phase = "opening" /\ (stored <= 4 => user = Columns)
  <2>1. phase = "opening" /\ "isVisible" \notin todo
    BY <1>8, Order DEF Rank
  <2> QED BY <1>1, <1>8, <2>1 DEF Widened
<1>9. ASSUME Step("staff"), user # Missing, UNCHANGED <<stored, user>> PROVE Way'
  <2>1. /\ phase = "opening" /\ phase' = "opening" /\ todo' \subseteq todo
        /\ "newUser" \in todo <=> "newUser" \in todo'
        /\ "dropUser" \in todo <=> "dropUser" \in todo'
        /\ "mood" \in todo <=> "mood" \in todo'
    <3>1. "staff" \notin Joint
      BY Tries DEF Added
    <3> QED BY <1>9, <3>1, StepFacts, StepOn
  <2>2. "sex" \notin todo' /\ "userType" \notin todo' /\ "isVisible" \notin todo /\ "isVisible" \notin todo'
    <3>1. Turn("staff")
      BY <1>9 DEF Step
    <3>2. \A c \in {"sex", "userType", "isVisible"} : c \in DOMAIN Rank /\ Rank[c] < Rank["staff"]
      BY DEF Rank
    <3> QED BY <2>1, <3>1, <3>2, Order
  <2>3. stored = 5 => Rebuilt'
    BY <1>1, <1>9, <2>1 DEF Rebuilt
  <2>4. stored <= 4 => Widened'
    <3>1. stored <= 4 => user = Columns /\ "mood" \in user
      BY <1>1, <1>9, <2>1, <2>2 DEF Widened, Columns
    <3> QED BY <1>9, <2>2, <3>1 DEF Widened
  <2> QED BY <1>1, <1>9, <2>1, <2>3, <2>4
<1>10. CASE ClearStaff
  <2>1. UNCHANGED <<stored, user>>
    BY <1>10 DEF ClearStaff, Kept, disk
  <2>2. CASE Does("staff") /\ user # Missing
    BY <1>9, <2>1, <2>2, DoesStep
  <2>3. CASE Throws("staff") /\ user = Missing
    <3>1. phase = "opening" /\ phase' # "opening"
      BY <2>3 DEF Throws, Turn
    <3> QED BY <1>2, <2>1, <2>3, <3>1
  <2> QED BY <1>10, <2>2, <2>3 DEF ClearStaff, Unpreparable, Dropping, Triggers
<1>11. CASE Tidy \/ Flag
  <2>1. /\ \E s \in Harmless \union {"flag"} : Does(s)
        /\ UNCHANGED <<stored, user>>
    BY <1>11 DEF Tidy, Flag, Kept, disk
  <2>2. (Harmless \union {"flag"}) \intersect Telling = {}
    BY DEF Harmless, Telling, Added
  <2> QED BY <1>3, <2>1, <2>2, DoesStep
<1>12. ASSUME NEW u \in Triggers,
             Creates(u, MakingOld, "old") \/ Creates(u, MakingNew, "new") \/ Drops(u)
       PROVE  Way'
  <2>1. UNCHANGED <<stored, user>>
    BY <1>12 DEF Creates, Drops, Kept
  <2>2. /\ {MakingOld[u], MakingNew[u], Dropping[u]} \intersect Telling = {}
        /\ Rank[Dropping[u]] > 12 /\ Dropping[u] \in DOMAIN Rank
    BY DEF MakingOld, MakingNew, Dropping, Triggers, Telling, Added, Rank
  <2>3. (\E s : s \notin Telling /\ Does(s)) \/ Throws(Dropping[u])
    BY <1>12, <2>2 DEF Creates, Drops
  <2>4. CASE Throws(Dropping[u])
    <3>1. Turn(Dropping[u]) /\ phase' # "opening"
      BY <2>4 DEF Throws
    <3>2. "staff" \notin todo /\ Rank[Dropping[u]] > 11
      BY <2>2, <3>1, Order DEF Rank
    <3>3. phase = "opening" /\ (stored <= 4 => user = Columns)
      BY <1>8, <2>1, <3>1, <3>2
    <3> QED BY <1>2, <2>1, <3>1, <3>3
  <2> QED BY <1>3, <2>1, <2>3, <2>4, DoesStep
<1>13. ASSUME NEW c \in Added, AddColumn(c) PROVE Way'
  <2>1. /\ stored' = stored /\ Turn(c) /\ Step(c)
        /\ \/ (user = Missing \/ c \in user) /\ todo' = todo \ Added /\ user' = user
           \/ ~(user = Missing \/ c \in user) /\ todo' = todo \ {c} /\ user' = user \union {c}
    <3>1. Try(c) \intersect todo = Added \intersect todo
      BY <1>13 DEF Try, Together, Added
    <3> QED BY <1>13, <3>1, AddColumnStep DEF AddColumn, Does, Leaves, Kept, GivenUp
  <2>2. stored <= 4 /\ phase = "opening" /\ phase' = "opening" /\ c \in todo
    <3>1. c # "version"
      BY DEF Added
    <3> QED BY <1>1, <2>1, <3>1, Order, UserSteps, StepOn, StepFacts
  <2>3. "staff" \in todo /\ "mood" \notin todo
    <3>1. Rank[c] <= Rank["staff"] /\ Rank["mood"] < Rank[c]
      BY DEF Rank, Added
    <3>2. "staff" \in Plan(stored) /\ "mood" \in DOMAIN Rank
      BY <1>1, <2>2, UserSteps DEF Rank
    <3> QED BY <2>1, <3>1, <3>2, Order
  <2>4. Widened
    BY <1>1, <2>2
  <2>5. CASE c = "sex"
    <3>1. "userType" \in todo /\ "isVisible" \in todo
      <4>1. \A a \in {"userType", "isVisible"} : a \in Plan(stored) /\ Rank["sex"] <= Rank[a]
        BY <1>1, <2>2, UserSteps DEF Rank, Added
      <4> QED BY <2>1, <2>5, <4>1, Order
    <3>2. user \in {Missing, {"mood"}, Columns}
      BY <2>2, <2>3, <2>4, <2>5 DEF Widened
    <3>3. CASE user = {"mood"}
      <4>1. todo' = todo \ {"sex"} /\ user' = {"mood", "sex"}
        BY <2>1, <2>5, <3>3 DEF Missing
      <4>2. Widened'
        BY <2>3, <3>1, <4>1 DEF Widened
      <4> QED BY <1>1, <2>1, <2>2, <4>1, <4>2
    <3>4. CASE user \in {Missing, Columns}
      <4>1. todo' = todo \ Added /\ user' = user
        BY <2>1, <2>5, <3>4 DEF Columns, Added
      <4>2. Widened'
        BY <2>3, <3>4, <4>1 DEF Widened, Added, Columns
      <4> QED BY <1>1, <2>1, <2>2, <4>1, <4>2
    <3> QED BY <3>2, <3>3, <3>4
  <2>6. CASE c = "userType"
    <3>1. "isVisible" \in todo /\ "sex" \notin todo
      <4>1. "isVisible" \in Plan(stored) /\ Rank["userType"] <= Rank["isVisible"]
            /\ "sex" \in DOMAIN Rank /\ Rank["sex"] < Rank["userType"]
        BY <1>1, <2>2, UserSteps DEF Rank, Added
      <4> QED BY <2>1, <2>6, <4>1, Order
    <3>2. user = {"mood", "sex"}
      BY <2>2, <2>4, <2>6, <3>1 DEF Widened
    <3>3. todo' = todo \ {"userType"} /\ user' = {"mood", "sex", "userType"}
      BY <2>1, <2>6, <3>2 DEF Missing
    <3>4. Widened'
      BY <2>3, <3>1, <3>3 DEF Widened
    <3> QED BY <1>1, <2>1, <2>2, <3>3, <3>4
  <2>7. CASE c = "isVisible"
    <3>1. "userType" \notin todo /\ "sex" \notin todo
      <4>1. \A a \in {"userType", "sex"} : a \in DOMAIN Rank /\ Rank[a] < Rank["isVisible"]
        BY DEF Rank
      <4> QED BY <2>1, <2>7, <4>1, Order
    <3>2. user = {"mood", "sex", "userType"}
      BY <2>2, <2>4, <2>7, <3>1 DEF Widened
    <3>3. todo' = todo \ {"isVisible"} /\ user' = Columns
      BY <2>1, <2>7, <3>2 DEF Missing, Columns, Added
    <3>4. Widened'
      BY <2>3, <3>1, <3>3 DEF Widened, Columns
    <3> QED BY <1>1, <2>1, <2>2, <3>3, <3>4 DEF Columns
  <2> QED BY <2>5, <2>6, <2>7 DEF Added
<1>14. ASSUME NEW u \in Tables, FixTypes(u) PROVE Way'
  <2>1. Step(u) /\ UNCHANGED <<stored, user>>
    BY <1>14, DoesStep DEF FixTypes
  <2>2. u \notin Telling
    BY DEF Tables, Telling, Added
  <2> QED BY <1>3, <2>1, <2>2
<1>15. ASSUME Turn("version") PROVE user = Columns
  <2>1. todo = {"version"} /\ phase = "opening"
    BY <1>15, VersionLast DEF Turn
  <2>2. CASE stored <= 4
    BY <1>1, <2>1, <2>2 DEF Widened
  <2>3. CASE stored = 5
    BY <1>1, <2>1, <2>3 DEF Rebuilt
  <2> QED BY <1>1, <2>2, <2>3
<1>16. CASE SetVersion
  <2>1. stored' = 14 /\ user' = user /\ Turn("version")
    BY <1>16 DEF SetVersion, Does, Kept, Current
  <2> QED BY <1>15, <2>1
<1>17. ASSUME NEW s, PassOver(s) PROVE Way'
  <2>1. s \in Repaired /\ Step(s) /\ Turn(s) /\ UNCHANGED <<stored, user>>
    BY <1>17, PassOverStep DEF Step
  <2>2. CASE s = "staff"
    <3>1. user # Missing
      BY <1>17, <2>2 DEF PassOver, Unpreparable
    <3> QED BY <1>9, <2>1, <2>2, <3>1
  <2>3. CASE s = "version"
    <3>1. user = Columns /\ todo = {"version"} /\ phase = "opening"
      BY <1>15, <2>1, <2>3, VersionLast DEF Turn
    <3>2. phase' # "opening"
      BY <2>1, <2>3, <3>1, StepFacts DEF TypeOK
    <3> QED BY <1>2, <2>1, <3>1, <3>2
  <2>4. CASE s \notin {"staff", "version"}
    <3>1. s \notin Telling
      BY <2>1, <2>4 DEF Telling, Repaired, Harmless, Creating, Added
    <3> QED BY <1>3, <2>1, <3>1
  <2> QED BY <2>2, <2>3, <2>4
<1>18. CASE Crash
  <2>1. phase' # "opening" /\ UNCHANGED <<stored, user>> /\ ~Turn("userType") /\ ~Turn("isVisible")
    BY <1>18 DEF Crash, disk, Halved
  <2>2. CASE phase # "opening"
    BY <1>1, <2>1, <2>2
  <2>3. ASSUME phase = "opening", stored <= 4 PROVE user \in Between
    <3>1. Widened /\ todo \subseteq DOMAIN Rank
      BY <1>1, <2>3 DEF TypeOK
    <3>2. {"sex", "userType"} \subseteq Plan(stored)
      BY <1>1, <2>3, UserSteps DEF Added
    <3>3. CASE "sex" \in todo \/ "isVisible" \notin todo
      BY <3>1, <3>3 DEF Widened
    <3>4. ASSUME "sex" \notin todo, NEW r \in todo PROVE Rank[r] > 9
      BY <3>1, <3>2, <3>4, Ranks DEF Suffix, Rank
    <3>5. CASE "sex" \notin todo /\ "userType" \in todo
      <4>1. \A r \in todo : Rank["userType"] <= Rank[r]
        BY <3>1, <3>4, <3>5, Ranks DEF Rank
      <4> QED BY <2>1, <2>3, <3>5, <4>1 DEF Turn
    <3>6. CASE "userType" \notin todo /\ "isVisible" \in todo
      <4>1. \A r \in todo : Rank["isVisible"] <= Rank[r]
        <5>1. ASSUME NEW r \in todo PROVE Rank[r] > 10
          BY <3>1, <3>2, <3>6, Ranks DEF Suffix, Rank
        <5> QED BY <3>1, <5>1, Ranks DEF Rank
      <4> QED BY <2>1, <2>3, <3>6, <4>1 DEF Turn
    <3> QED BY <3>3, <3>5, <3>6
  <2>4. CASE phase = "opening"
    BY <1>2, <2>1, <2>3, <2>4
  <2> QED BY <2>2, <2>4
<1>19. CASE UNCHANGED vars
  BY <1>1, <1>19 DEF vars, disk, Rebuilt, Widened
<1> QED
  BY <1>4, <1>5, <1>6, <1>7, <1>10, <1>11, <1>12, <1>13, <1>14, <1>16, <1>17, <1>18, <1>19 DEF Next

----------------------------------------------------------------------------
(* The inductive invariant and the theorems.                               *)

LEMMA InitIInv == Init => IInv
<1> SUFFICES ASSUME Init PROVE IInv
  OBVIOUS
<1>1. TypeOK
  BY InitType
<1>2. /\ todo = {} /\ phase = "closed" /\ upset = {} /\ fixed = {} /\ stored \in 0 .. 14 /\ Left(stored)
  BY <1>1, StoredRange DEF Init, Left
<1>3. Within /\ Suffix
  BY <1>2 DEF Within, Suffix
<1>4. Shifting
  <2>1. ASSUME NEW t \in Tables
        PROVE  types[t] = IF stored = 0 THEN << >> ELSE IF stored <= 8 THEN OldTypes ELSE NewTypes
    BY <1>2 DEF Left
  <2> QED BY <1>2, <2>1 DEF Shifting
<1>5. Exchanging
  <2>1. ASSUME stored > 13, NEW t \in Triggers PROVE trigger[t] = "new"
    BY <1>2, <2>1 DEF Left, Current
  <2> QED BY <1>2, <2>1 DEF Exchanging
<1>6. Flagging
  BY <1>2 DEF Flagging, Left
<1>7. Widening
  BY <1>2 DEF Widening, Left
<1> QED BY <1>1, <1>3, <1>4, <1>5, <1>6, <1>7 DEF IInv

LEMMA NextIInv == IInv /\ [Next]_vars => IInv'
<1> SUFFICES ASSUME IInv, [Next]_vars PROVE IInv'
  OBVIOUS
<1>1. TypeOK /\ Within /\ Suffix /\ Shifting /\ Exchanging /\ Flagging /\ Widening
  BY DEF IInv
<1>2. TypeOK'
  BY <1>1, NextType
<1>3. Within' /\ Suffix'
  BY <1>1, SuffixStep
<1>4. Shifting'
  BY <1>1, <1>2, ShiftingStep
<1>5. Exchanging'
  BY <1>1, <1>2, ExchangingStep
<1>6. Flagging'
  BY <1>1, <1>2, FlaggingStep
<1>7. Widening'
  BY <1>1, <1>2, WideningStep
<1> QED BY <1>2, <1>3, <1>4, <1>5, <1>6, <1>7 DEF IInv

\* What openings that are cut, throw and pass over steps keep true of the
\* database and of the steps still to come.
THEOREM Invariant == Spec => []IInv
BY InitIInv, NextIInv, PTL DEF Spec

\* The variables keep their sorts: an opening has steps to come as long as it
\* goes on.
THEOREM TypeCorrect == Spec => []TypeOK
<1>1. IInv => TypeOK
  BY DEF IInv
<1> QED BY <1>1, Invariant, PTL

\* TriggerConfig's triggers of an older version do not survive the version:
\* modifyUnreadCountTrigger drops each before it makes the new one, CreatTables
\* can only put an old one back before that, and DB_VER is written after both.
THEOREM AlwaysCurrent == Spec => []TriggersCurrent
<1>1. IInv => TriggersCurrent
  BY DEF IInv, Exchanging, TriggersCurrent, Migrated, Current
<1> QED BY <1>1, Invariant, PTL

\* fixMessageType shifts each table's types exactly once unless it is upset: a
\* table whose types are old has the step still to come, or comes again with
\* the next opening.
THEOREM AlwaysRight == Spec => []TypesRight
<1>1. IInv => TypesRight
  BY DEF IInv, Shifting, TypesRight, Migrated, Current
<1> QED BY <1>1, Invariant, PTL

\* addColumn_03, addColumn_04, modDefaultValue_05 and addMessageFlag leave
\* every column there before DB_VER is written, from whatever version.
THEOREM AlwaysThere == Spec => []ColumnsThere
<1>1. IInv => ColumnsThere
  BY DEF IInv, Flagging, Widening, ColumnsThere, Migrated, Current
<1> QED BY <1>1, Invariant, PTL
=============================================================================
