---------------------------- MODULE DbMigration ----------------------------
(***************************************************************************)
(* Opening the database: tables and triggers that are missing are created, *)
(* then what older versions of the client left is brought up to date, step *)
(* by step, from the version stored, which is written last.  Each step     *)
(* commits on its own.  A statement that cannot be prepared is an          *)
(* exception; one that fails when executed returns false, which nobody     *)
(* looks at.  Opening is tried again at the next bind and after a restart, *)
(* from the first step.                                                    *)
(*                                                                         *)
(*   DataBasePlug::OpenDB, CreatTables, modifyDbByVersion                  *)
(*   the Dao functions they call, TriggerConfig, DbConfig,                 *)
(*   statement::executeStep                                                *)
(*                                                                         *)
(* DB_VER 1000nn is nn here; no DB_VER is 0.                               *)
(***************************************************************************)
EXTENDS Integers

CONSTANTS
    Versions, \* the versions a database may be of when it is first opened
    MaxFaults \* bounds failures and crashes

Current == 14

ASSUME VersionAssumption == Versions \subseteq 0..Current
ASSUME FaultAssumption == MaxFaults \in Nat

Tables == {"sessions", "messages"}
Triggers == {"update", "insert"}
Added == {"sex", "userType", "isVisible"}
Columns == {"mood"} \union Added

VARIABLES
    stored,  \* DB_VER
    user,    \* the columns added to IM_User, or none if it is missing
    types,   \* per table, the ChatType of its rows about a chat and a group, if any
    trigger, \* per trigger, which one there is
    flag,    \* IM_Message has its MessageFlag
    phase,   \* closed, opening, open
    todo,    \* the steps to come, in the order of Rank
    fixed,   \* history: the tables whose types were shifted
    upset,   \* history: what went wrong
    faults   \* how often

disk == <<stored, user, types, trigger, flag>>
vars == <<disk, phase, todo, fixed, upset, faults>>

Missing == {"no table"}
OldTypes == [chat |-> 1, group |-> 2]
NewTypes == [chat |-> 0, group |-> 1]

\* What a client of version v left behind; that of 5 with defaults to mend.
Left(v) ==
    /\ stored = v
    /\ user = IF v = 0 THEN Missing ELSE IF v <= 3 THEN {}
              ELSE IF v = 4 THEN {"mood"} ELSE Columns
    /\ types = [t \in Tables |-> IF v = 0 THEN << >>
                                ELSE IF v <= 8 THEN OldTypes ELSE NewTypes]
    /\ \/ v = Current /\ trigger = [t \in Triggers |-> "new"]
       \/ v < Current /\ v # 0 /\ trigger = [t \in Triggers |-> "old"]
       \/ v <= 7 /\ trigger = [t \in Triggers |-> "none"]
    /\ flag = (v > 11)

Init ==
    /\ \E v \in Versions : Left(v)
    /\ phase = "closed" /\ todo = {}
    /\ fixed = {} /\ upset = {} /\ faults = 0

----------------------------------------------------------------------------
(* The steps.                                                              *)

\* The order of the steps in CreatTables and modifyDbByVersion.
Rank ==
    [userTable |-> 1, oldInsert |-> 2, oldUpdate |-> 3,
     groups |-> 4, index |-> 5, mood |-> 6, dropUser |-> 7, newUser |-> 8,
     sex |-> 9, userType |-> 10, isVisible |-> 11, staff |-> 12,
     counters |-> 13, realJids |-> 14, sessions |-> 15, messages |-> 16, cache |-> 17,
     stamp |-> 18, flag |-> 19, selfUnread |-> 20, dropUpdate |-> 21, dropInsert |-> 22,
     newUpdate |-> 23, newInsert |-> 24, version |-> 25]

\* The steps that put a trigger there and that drop it.
MakingOld == [update |-> "oldUpdate", insert |-> "oldInsert"]
MakingNew == [update |-> "newUpdate", insert |-> "newInsert"]
Dropping == [update |-> "dropUpdate", insert |-> "dropInsert"]

\* Steps that may be done any number of times.
Harmless == {"groups", "index", "counters", "realJids", "cache", "stamp", "selfUnread"}

Creating == {"userTable", "oldInsert", "oldUpdate"}

\* Steps that are in one try, or in one condition.
Together == {{"oldInsert", "oldUpdate"}, {"dropUser", "newUser"}, Added}
Try(s) == {s} \union UNION {steps \in Together : s \in steps}

\* What modifyDbByVersion does for a database of version v before DB_VER.
When(condition, steps) == IF condition THEN steps ELSE {}
Modifying(v) ==
    When(v <= 1, {"groups"}) \union When(v <= 2, {"index"}) \union When(v <= 3, {"mood"})
    \union When(v = 5, {"dropUser", "newUser", "staff"})
    \union When(v <= 4, Added \union {"staff"})
    \union When(v <= 7, {"counters", "realJids"})
    \union When(v <= 8, {"sessions", "messages"})
    \union When(v <= 9, {"cache"})
    \union When(v <= 11, {"stamp", "flag"})
    \union When(v <= 13, {"selfUnread", "dropUpdate", "dropInsert", "newUpdate", "newInsert"})

\* Faulty variant: every test of the version is off by one.
PlanLate(v) == Creating \union Modifying(v + 1) \union {"version"}
Plan(v) == Creating \union Modifying(v) \union {"version"}

Open ==
    /\ phase \in {"closed", "open"}
    /\ phase' = "opening" /\ todo' = Plan(stored)
    /\ UNCHANGED <<disk, fixed, upset, faults>>

\* Faulty variant: the version is written before what it stands for.
TurnVersionFirst(s) ==
    /\ phase = "opening" /\ s \in todo
    /\ s = "version" \/ \A r \in todo : r # "version" /\ Rank[s] <= Rank[r]
\* Step s is the next.
Turn(s) == phase = "opening" /\ s \in todo /\ \A r \in todo : Rank[s] <= Rank[r]

\* What is left is rest; the opening is through after the last step.
Leaves(rest) == todo' = rest /\ phase' = IF rest = {} THEN "open" ELSE "opening"
Does(s) == Turn(s) /\ Leaves(todo \ {s})
\* An exception that leaves modifyDbByVersion: OpenDB returns false.
Throws(s) == Turn(s) /\ todo' = {} /\ phase' = "closed"
\* What is left when step s ends its try.
GivenUp(s) == todo \ Try(s)
\* The statements, outside any try, for a trigger or a table that is not there.
Unpreparable(s) ==
    \/ s = "staff" /\ user = Missing
    \/ \E t \in Triggers : s = Dropping[t] /\ trigger[t] = "none"
Kept(unchanged) == UNCHANGED <<unchanged, upset, faults>>

Tidy ==
    /\ \E s \in Harmless : Does(s)
    /\ Kept(<<disk, fixed>>)

\* CREATE TABLE IF NOT EXISTS IM_User, without the columns added later.
UserTable ==
    /\ Does("userTable")
    /\ user' = IF user = Missing THEN {} ELSE user
    /\ Kept(<<stored, types, trigger, flag, fixed>>)

\* CREATE TRIGGER IF NOT EXISTS: createUnreadUpdateTrigger and
\* createUnreadInserttrigger, and those of modifyUnreadCountTrigger.
Creates(t, making, which) ==
    /\ Does(making[t])
    /\ trigger' = [trigger EXCEPT ![t] = IF @ = "none" THEN which ELSE @]
    /\ Kept(<<stored, user, types, flag, fixed>>)

\* DROP TRIGGER, without IF EXISTS.
Drops(t) ==
    /\ IF Unpreparable(Dropping[t]) THEN Throws(Dropping[t]) ELSE Does(Dropping[t])
    /\ trigger' = [trigger EXCEPT ![t] = "none"]
    /\ Kept(<<stored, user, types, flag, fixed>>)

\* addColumn_03: a column that is there, or a table that is not, is an
\* exception that is caught.
Mood ==
    /\ Does("mood")
    /\ user' = IF user = Missing THEN user ELSE user \union {"mood"}
    /\ Kept(<<stored, types, trigger, flag, fixed>>)

\* One of addColumn_04: the same, and the rest is not tried.
AddColumn(c) ==
    /\ IF user = Missing \/ c \in user
       THEN Turn(c) /\ Leaves(GivenUp(c)) /\ UNCHANGED user
       ELSE Does(c) /\ user' = user \union {c}
    /\ Kept(<<stored, types, trigger, flag, fixed>>)

\* modDefaultValue_05: DROP TABLE, which ends it if there is none, and CREATE
\* TABLE IF NOT EXISTS.
Rebuild ==
    /\ \/ IF user = Missing
          THEN Turn("dropUser") /\ Leaves(GivenUp("dropUser")) /\ UNCHANGED user
          ELSE Does("dropUser") /\ user' = Missing
       \/ Does("newUser") /\ user' = IF user = Missing THEN Columns ELSE user
    /\ Kept(<<stored, types, trigger, flag, fixed>>)

\* clearData, outside any try.
ClearStaff ==
    /\ IF Unpreparable("staff") THEN Throws("staff") ELSE Does("staff")
    /\ Kept(<<disk, fixed>>)

\* Faulty variant: without the WHERE.
ShiftedAll(n) == n - 1
\* ChatType - 1 where ChatType = 1 or 2.
Shifted(n) == IF n \in {1, 2} THEN n - 1 ELSE n

\* fixMessageType of the session list, and of the messages.
FixTypes(t) ==
    /\ Does(t)
    /\ types' = [types EXCEPT ![t] = [r \in DOMAIN @ |-> Shifted(@[r])]]
    /\ fixed' = fixed \union {t}
    /\ upset' = IF t \in fixed THEN upset \union {"twice"} ELSE upset
    /\ UNCHANGED <<stored, user, trigger, flag, faults>>

\* addMessageFlag.
Flag ==
    /\ Does("flag")
    /\ flag' = TRUE
    /\ Kept(<<stored, user, types, trigger, fixed>>)

SetVersion ==
    /\ Does("version")
    /\ stored' = Current
    /\ Kept(<<user, types, trigger, flag, fixed>>)

----------------------------------------------------------------------------
(* Failures.                                                               *)

\* What makes no difference if it is not done, or is done at the next opening.
Repaired == Harmless \union Creating \union {"version", "staff"}

\* What is left after step s was passed over: its try goes on after a false
\* and ends after an exception.  The second of CreatTables' triggers is only
\* tried if the first returned true.
Rests(s) == {GivenUp(s)} \union IF s = "oldInsert" THEN {} ELSE {todo \ {s}}

\* A statement returns false, or its exception is caught in the step, and the
\* next step of those left is done.
PassOver(s) ==
    /\ Turn(s) /\ ~Unpreparable(s)
    /\ faults < MaxFaults /\ faults' = faults + 1
    /\ \E rest \in Rests(s) : Leaves(rest)
    /\ upset' = IF s \in Repaired THEN upset ELSE upset \union {"missed"}
    /\ UNCHANGED <<disk, fixed>>

\* Cut between two columns of addColumn_04.
Halved == Turn("userType") \/ Turn("isVisible")

\* Any other exception ends the opening; a crash comes at any point.
Crash ==
    /\ phase # "closed"
    /\ faults < MaxFaults /\ faults' = faults + 1
    /\ phase' = "closed" /\ todo' = {}
    /\ upset' = IF Halved THEN upset \union {"halved"} ELSE upset
    /\ UNCHANGED <<disk, fixed>>

Next ==
    \/ Open \/ Tidy \/ UserTable \/ Mood \/ Rebuild \/ ClearStaff \/ Flag \/ SetVersion
    \/ \E t \in Triggers :
          Creates(t, MakingOld, "old") \/ Creates(t, MakingNew, "new") \/ Drops(t)
    \/ \E c \in Added : AddColumn(c)
    \/ \E t \in Tables : FixTypes(t)
    \/ \E s \in DOMAIN Rank : PassOver(s)
    \/ Crash

Spec == Init /\ [][Next]_vars

----------------------------------------------------------------------------
(* Properties.                                                             *)

Migrated == stored = Current

\* The sorts of all variables.
TypeOK ==
    /\ stored \in Versions \union {Current}
    /\ user = Missing \/ user \subseteq Columns
    /\ types \in [Tables -> {<< >>} \union [{"chat", "group"} -> 0..2]]
    /\ trigger \in [Triggers -> {"none", "old", "new"}]
    /\ flag \in BOOLEAN /\ phase \in {"closed", "opening", "open"}
    /\ todo \subseteq DOMAIN Rank /\ (phase = "opening" <=> todo # {})
    /\ fixed \subseteq Tables /\ upset \subseteq {"twice", "missed", "halved"}
    /\ faults \in 0..MaxFaults

\* A database of the current version counts unread messages with the current
\* triggers, wherever an opening was cut or threw and whatever version it came
\* from, unless a statement failed unnoticed: CreatTables may put an old one
\* back, but never over the version.
TriggersCurrent ==
    Migrated /\ "missed" \notin upset => \A t \in Triggers : trigger[t] = "new"

\* Its rows have the type they should, unless the shift failed, or was made
\* again because the opening was cut between it and the version.
TypesRight ==
    Migrated /\ upset \intersect {"twice", "missed"} = {} =>
        \A t \in Tables : types[t] \in {<< >>, NewTypes}

\* Its tables have every column the insertions name, unless one failed, or the
\* opening was cut between two of the staff's.
ColumnsThere ==
    Migrated /\ upset \intersect {"halved", "missed"} = {} => user = Columns /\ flag
=============================================================================
