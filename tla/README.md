# Specifications of the StarTalk desktop client

StarTalk (QTalk) is an instant-messaging client in C++ and Qt. These modules
specify the part of it that must not go wrong: how the messages of a user get
into the local database and stay there, across lost links, refused requests,
restarts and several threads on one SQLite connection; how the tables that
follow the server by a version, and the database's own schema, survive failures;
and the two thread-handling classes everything runs on.

    tlc -workers 2 -config OfflineSync_messages.cfg MCOfflineSync.tla
    tlapm OfflineSync_proofs.tla

`PROJECT.json` lists the components, the runs, the source lines each
definition stands for, the hazards with the properties that cover them, and the
theorems.

## The system

| part | state it keeps | operations | talks to |
|---|---|---|---|
| Offline synchronisation (`OfflineMessageManager`, `Communication::dealBindMsg`, `synSeverData`, `updateTimeStamp`) | one watermark per kind of message and two read-mark times in the config table; the locals of the pull loops | bind, pull by pages, retry, read flags, read marks, history error | the history server over HTTP, the database, LogicBase (live stream), the main window |
| Database access (`DataBasePlug`, the `*Dao` classes, `ThreadPool`) | one connection, one task queue | tasks of one to four transactions; reads and two writers on the calling thread | every other part |
| Message store (`MessageDao`, `SessionListDao`, `TriggerConfig`) | IM_Message, IM_SessionList, two triggers | insert a page, read marks, read flags, remove sessions, delete a group's messages or one message | called through `DataBasePlug` |
| Task pools (`ThreadPool`; `Communication::addHttpRequest`) | one queue and one thread per pool: one for the database, three for HTTP | enqueue and wait (HTTP: by hash of the URL), destruction | every caller; callbacks of requests, which wait for the database's pool |
| `STLazyQueue` | a queue, its detached runners, `_run` | push, runners, clear, destruction | user cards, search boxes, resizing, screenshots |
| Event bus | handlers by event type | add, remove, fire | all plug-ins |
| Groups (`Communication`, `GroupManager`) | names waiting for their group's id | create, invite, join, quit | LogicBase callbacks, HTTP |
| Versioned data (groups, staff, settings, medals, quick replies) | a table and its version, in a row of its own or in the rows | ask from a version, write the answer in several transactions | HTTP, database |
| Migration (`OpenDB`, `CreatTables`, `modifyDbByVersion`) | the schema version | steps, then the version | runs at every bind |
| Login, file transfer, search, widgets, settings | little or none | | |

Messages reach the database on two ways: LogicBase (a closed library) delivers
the live stream and calls `IDatabasePlug` directly, and after each bind the
synchronisation pulls what was missed. Both write through `_dbPool`, whose
single thread runs the tasks in order. The synchronisation learns from the
database where it stands: the watermark of a kind is the newest stored row,
unless a saved one says that the last synchronisation did not succeed. So an
error in any of the three parts becomes a lost message in another.

What is hard here: live inserts during a pull, so that the newest row says
nothing about the older ones; the process ending at any step; requests that are
refused, garbled or denied; the order "messages, then the marks on them";
retries that end; several transactions per task; threads that share a
connection and therefore a transaction; a counter maintained by two triggers
and an upsert; a pool whose destructor takes no lock; detached threads that
outlive the queue they serve; a version that is stored although its data is
not; a migration that is cut and started again. The full list, each at its line, is under "hazards".

## Modules

| module | what it is |
|---|---|
| `OfflineSync` | the synchronisation, the live stream, the server's log, the end of the process |
| `Mirror` | what it promises: a cursor per stream that only advances over what is held |
| `DbConnection` | the connection, the pool, transactions statement by statement |
| `AtomicStore` | what it promises: transactions stored whole and in order |
| `MessageStore` | messages, sessions, unread counters, a transaction per step |
| `TaskPool` | several pools, the worker's and the callers' steps, nested waits, the destructor |
| `LazyQueue` | one `STLazyQueue`, its runners, its consumer, its end |
| `VersionSync` | a table that follows the server by a version: five tables in one module |
| `DbMigration` | opening and migrating the database, step by step |
| `MC...` | constants for TLC |
| `OfflineSync_proofs`, `OfflineSyncOrder_proofs`, `DbConnection_proofs`, `MessageStore_proofs`, `TaskPool_proofs`, `LazyQueue_proofs`, `VersionSync_proofs`, `DbMigration_proofs` | theorems |

The layers fit: `OfflineSync` takes "store a page" as one step that succeeds or
rolls back, `MessageStore` takes a transaction as one step, and `DbConnection`
shows both (`Atomic`) for tasks of the pool, and by a counterexample that it
does not hold for the writers that go around the pool. `FlagsDenied` in
`OfflineSync` therefore also stands for a flag transaction that collides: the
code returns nothing from `updateMessageReadFlags` and goes on. `DbConnection`
takes a pool that runs its tasks in order, one at a time, and always answers:
that is what `TaskPool` shows of `ThreadPool` (`RunsInOrder`, `TypeOK`,
`NoCallerHangs`), its destructor included. `VersionSync` takes a transaction as
one step that holds or is rolled back, like `MessageStore`.

### OfflineSync

The server's history is one log and the index of an entry is its time stamp
(stamps are milliseconds of the server; equal stamps are not modelled here).
`held` is what the database has. `config`, `markTime`, `markLogin` are the rows
of the config table; `log`, `held` and these survive `Stop`, everything else does
not. `pc` is the position of the synchronising thread:

    idle --DealBind--> due --StartPull--> ask --PageArrives | PullRefused | PullGarbled--> got
    got --StorePage | Retry--> ask        got --Drained | GiveUp--> end
    end --EndChat--> flags --> flagged --> due (group)
    end --EndGroup--> marks --> marked --> due (notice)
    end --EndNotice--> idle, synced       end --HistoryError--> failed --Restart--> (down)

`updateChatOfflineMessage`, `updateGroupOfflineMessage` and
`updateNoticeOfflineMessage` are one loop with three endings, as in the code.
`Deliver`, `Post`, `LoseLink`, `Crash`, `Start`, `UpdateTimeStamp` and `Remove` come
between any two steps. `asked`, `floor` and `gone` are history variables: what the
server had when it last answered, what the 48-hour look-back gave up, and what
the user removed.

`Remove` takes messages out of `held`, from which the watermark is computed, so
the point to resume from moves back and the removed messages are asked for
again (Communication.cpp:1629, a hazard with a note). It need not do so at once:
while a watermark is saved, the point moves back only when the next successful
synchronisation drops it. `NeverBackwards` allows exactly that, a new point
below a removed message, and `Removable` says what may be removed: one message
in `OfflineSync_faults`, nothing in the other runs. `NeverBackwards` speaks of the
point, not of what a login asks for: after a cut or a failure the watermark is
kept on purpose and stored pages are fetched again.

Assumed of LogicBase and the server: login events are raised one at a time;
the live stream is in order and starts after the bind was dealt with; the
server answers oldest first with full pages; stamps are distinct. Not
modelled: own sent messages that become visible to the watermark when
acknowledged. `History` is what the client has stored before: the
runs but one take a client that has something of every kind, because without
that `NoGap` fails (a hazard with a note).

### DbConnection

A task is a sequence of transactions, each of a number of rows. `at[j]` is its
position (queued, begin, write, undo, ended), `part[j]` its transaction, `count[j]`
the rows it went through. `open` and `dirty` belong to the connection, not to
a task: that is the point. `Direct` tasks run on their callers' threads
(`updateMessageReadFlags`, `batchInsertQuickReply`). `Careless` tasks go on
after a failed transaction (`bulkDeleteGroup`). A statement may fail in any way
SQLite documents: `begin` fails inside a transaction, a row may fail alone or
end the transaction, a failing `commit` may or may not have rolled back, and
`rollback` outside a transaction throws out of the handler.

### MessageStore

`StoreMessages` is the first transaction of an insert with its trigger,
`ListSessions` the second; `todo` is what the running task still has to do, and
other tasks wait for it. There are three removals, and they differ: `RemoveSessions`
(`bulkDeleteSessions`) hides the sessions and then deletes the messages, if the
first held; `DeleteGroupMessages` (`bulkDeleteGroup`) deletes the messages, looks at
no result, and then the sessions; `DeleteMessage` deletes a row and leaves the
session and its counter as they are. `upset` names what can go wrong between them,
and each property the upsets it does not survive: a second transaction that did
not run, of a batch (`list`), a removal (`remove`) or a group (`unlist`); a group's
messages kept by a rollback (`kept`); a message deleted alone (`deleted`); flags
between the transactions of a task (`flagged`); messages of one time in a batch
(`tied`). `UpdateTrigger` allows every order of the rows, since
the decrement stops at zero. `MarkGroup` takes the oldest unread row, own rows
included, as the code does. Left out: `updateMState`, the content of a message
that is overwritten or revoked, a direction that changes on conflict.

### TaskPool

A step is what happens between two points where another thread can come in.
The worker is at `loop` (its while), `enter` (before the wait's predicate, mutex
to be taken), `drowsy` (predicate false, not yet asleep), `asleep`, `grab`
(predicate true, before `front`), `run`, `exited`; it holds the mutex in `drowsy`
and `grab`. A caller is `idle`, `entering` (past the test of `stop`, before the
mutex), `waiting` in `get`, `answered` or `thrown`. The destructor goes through
`deleted` (the connection), `clear`, `notify`, `join`, `gone` without ever
taking the mutex, so its loop over the queue may meet the worker's pop or a
caller's push: `Collide` and the empty `front` of `Grab` are undefined
behaviour, and the process ends there. `Inner` gives the nested waits: the
callback of a request waits for the database. `accepted` and `taken` are history.

### LazyQueue

Elements are numbered as they are pushed, and a runner is named after the
element whose push started it. A runner is at `test` (`empty()`), `lock`
(runner_mutex), `delay` (asleep, with the size from before), and in the consumer
at `tail`, `look`, `take` or `serve`. The three consumers of the code are the
three values of `kind`. `broken` means a step was undefined: `front()` of a queue
cleared in between, or a runner that touches a queue that is gone. `missed` is
history: a key came between the search consumer's `tail()` and its last `pop()`.

### VersionSync

The server's changes are a log, and a version is a position in it. `rows[k]` is
the change the row of `k` was made from, `vers[k]` the version written into it,
`mark` the version in a row of its own. A call reads the version (`Ask`), gets
what changed since (`Answer`) and does its `Plan` of transactions one by one;
any of them may be rolled back (`Fail`), and `Stops` says who looks at the result.
`kind` is fixed from the start: the five tables differ in where the version is,
in the order of the plan, and in what stops it, and that is all the difference
there is between being repaired by the next request and being wrong for good.
`upset` is history and `Spoils` says which failures each table does not survive;
the shorter that set, the better the code. `replies` are the groups of quick
replies. Their contents, a second table with a version of its own, come in the
same answer and transaction and are lost with it, but the deletion of a content
alone does not throw: that case is left out. Each entry of it was tried: without
it TLC finds `Catchable` violated.

### DbMigration

`todo` is the set of the steps of the running opening, computed from the version
on disk when it began (`Plan`), and `Rank` the order in which the code has them:
the next step is the one of least rank (`Turn`). Steps that may be repeated
without effect are one action (`Tidy`); the others change the part of the schema or the data that a
second run would see: the columns of IM_User, the chat types of two tables,
the two triggers, the message flag, the version. The state before is what a
client of version v leaves (`Left`). A statement may fail unnoticed (`PassOver`),
throw, or never run because the process ends (`Crash`). `Try` says which steps an
exception that is caught ends together: the three columns of `addColumn_04`, the
two statements of `modDefaultValue_05`, the two triggers of `CreatTables`.

## Runs

Each run asks one question; `PROJECT.json` says which properties it checks and
which faulty variant of the code each property catches.

| run | bounds | shows |
|---|---|---|
| `OfflineSync_messages` | log of 7 with 4 entries stored before, pages of 2, 2 failures | `NoGap`, `ResetMeansFetched`, `DrainedMeansFetched`, and the refinement of `Mirror` |
| `OfflineSync_marks` | log of 6, pages of 1, 5 failures: enough for the retries to run out | marks never overtake messages; login success tells the truth; under fairness every message arrives |
| `OfflineSync_faults` | empty database, look-back of 1, log of 3, every failure, 2 of them, 1 message that may be removed | the point to resume from moves back only below a removed message, no synchronisation hangs |
| `OfflineSync_garbled` | | counterexample: a garbled reply after a page ends the pull |
| `DbConnection_pooled` | 3 tasks of the pool, 1 off it, every failure, 2 of them | atomicity, true answers, order and the refinement of `AtomicStore` until two writers cross; every caller gets an answer whatever happens |
| `DbConnection_bypass` | | counterexample: the rollback of a writer off the pool ends a page's transaction, and half of the page is stored |
| `MessageStore_unread` | 4 messages, 2 conversations, 2 of one time, batches of 2, 1 sort of upset, counters up to 1 above the messages | counters, sessions and times are exact and no session is empty, each until the upsets it names; counters stay natural numbers |
| `TaskPool_calls` | 2 pools, 4 tasks, one nested, one pool destroyed | nothing is overlooked, reordered or run after an exception; nobody waits for ever |
| `TaskPool_ends` | the same | counterexample: the destructor never returns |
| `LazyQueue_kinds` | 3 kinds, 4 pushes, 4 runners | nothing is stranded, lost, reordered or served in a widget that is gone |
| `VersionSync_tables` | 5 tables, 3 keys, 2 callers, 5 changes, 1 failure or crash | a table that is not spoiled can always be caught up |
| `DbMigration_open` | 12 of the 15 versions, 3 failures | triggers, types and columns are right whenever the version says so |

Why the bounds are enough. A gap needs an entry that was missed, a newer one
that arrived live, and a watermark between them: a log of three entries beyond
the stored ones and one crash. Two failures allow a crash during the recovery
from another failure. Pages of one and two make a history of several pages;
retries run out after four refusals, so a fifth falls on the second login. A
task of two transactions and one off the pool interleave every pair of
statements; the third is the one that goes on carelessly. Three messages in one
conversation, one of them the user's own and of another's time, and one in
another are what the counting rule tells apart. Two tasks in each of two pools
let one wait behind the other while a third waits inside the first. Four pushes
make two runners, one serving and one waiting, and a push on either side of
the gap between them. Two settings of one contact and one of another are what
the settings' map of deletions confuses; two callers and one failure show every
way a table is spoiled (each was found within these bounds). The versions left
out of `DbMigration_open` (6, 10, 12) are treated like 7, 11 and 13; three
failures are a failed step, a cut, and a cut of its repair.

`VersionSync_tables` uses symmetry of the two callers (no property or constant
tells them apart, and no liveness is checked) and a state constraint: a table
that is spoiled is not followed further, since both properties say nothing
about it from then on. `TypeOK` is checked up to and including the spoiled state.

`MessageStore_unread` has a state constraint too (`Bounded`). A message that is
deleted and stored again raises the counter of its session each time, without
bound; the run stops at one above the number of messages, where the counter has
stopped being exact and every branch of the triggers has been taken. And it
follows one sort of upset at a time, repeated as often as it likes: two of them
only weaken what the properties still claim. The theorems have neither bound.

Fairness. Weak fairness of `Pull` and `Masks`: the synchronising thread runs, and
each HTTP request has a timeout. Of `Deliver` and `DealBind`: LogicBase
delivers, and reconnects by itself (`startAutoReconnectToServer`). Of `Restart`
and `Start`: the program restarts itself after a history error, and the user
logs in again after a crash. Nothing is assumed of the server beyond answering;
failures are bounded by `MaxFaults`. In `DbConnection` and `LazyQueue` threads
that can run do. In `TaskPool` the workers and the destructor do too, and a
caller that waits for a mutex that is free again and again gets it (strong
fairness of `Insert`): the worker gives it up in every round. Nobody has to
call, destroy a pool or wake up unasked (`Stir`). Deadlock checking is off where the
system really stops: all tasks are done, all pushes made, all calls answered or
the process has ended (`DbConnection`, `TaskPool`, `LazyQueue`, `VersionSync`).

Properties that hold only until something the code does not prevent happens are
stated so. In `OfflineSync` it is a constant of the configuration, and changing
it reproduces the failure: `StoreFails`, `FlagFaults = {"denied"}`,
`SignalLimit = PageSize` and `History <- Empty` break `OfflineSync_messages`;
`MarkFaults = {"request"}` breaks `OfflineSync_marks`. `Removable` is such a constant too. In the other modules it is
a history variable that is part of the property's premise (`crossed`, `upset`,
`missed`, `broken`), so that the run goes through the failure and shows what still
holds after it. The hazards say what each means in the code.

## Theorems

All are proved by TLAPS for every value of the constants.

`OfflineSync_proofs`. `TypeCorrect` and `CursorsMonotonic` hold whatever fails
and whatever is removed: a step that moves the point back ends below a removed
message (`CursorBack`), since a saved watermark, or the newest row together with
what was removed, is never below the point (`Ordered`).
`NothingSkipped` (`NoGap`) and `Refinement` (`Mirrors`) hold under `Benign`:
requests may be refused but not garbled or denied, transactions hold, nothing
is removed, call signalling does not fill a page, and every kind of message occurs in the
history. `NoGap` is not inductive. While a pull runs, what is missing lies
above the loop's cursor or above the page just received (`InOrder`,
`Progress`), what is on its way lies above what is stored (`Coming`), a saved
watermark is kept until its stream was drained (`Guarded`), and the point to
resume from never lies above the cursor (`Resumable`, `Bounds`). `IInv` is the
conjunction with the types.

`OfflineSyncOrder_proofs`, under `Benign` too. The three action properties follow
from `IInv`: `Progress` says what is stored when a loop drains or a watermark is
dropped. `SuccessIsTrue` and `MarksComeSecond` need to remember what earlier
loops fetched: `Finished` keeps a stream covered from its own loop to the end of
the synchronisation and beyond, `MarkOrder` relates all answers to the last mark
received live, and `MarksBehind`, the inductive form of `MarksFollowMessages`,
follows from the two when the saved mark time is dropped or a live mark decides.

`DbConnection_proofs`. `TypeCorrect` holds always. `TransactionsAtomic`,
`AnswersTrue`, `PartsInOrder` and `Refinement` have no assumption on the tasks
either; they follow from one invariant whose parts hold until `crossed`: at
most one thread is inside a transaction, so the open transaction is its own
and holds exactly the rows it went through; the disk holds whole transactions,
in order, and the answers agree.

`MessageStore_proofs`. `TypeCorrect` (no counter is ever negative) holds always.
`CountersExact`, `AllListed`, `NewestShown` and `NoEmptySession` hold each until the
upsets its property names. `Fresh` says that the counter a new session will get
is that of the rows stored for it, and `Recent` that a message is not newer than
its session is or will be. `NoEmptySession` needs to know where a task stands: a
batch about to list its sessions has stored rows for each (`Filled`), the sessions
of a running removal are no longer listed (`Removal`), and every session that no
group's deletion is about to take has a message (`Full`). For counters and times
it matters that a group about to lose its sessions has no messages left
(`Emptied`). That a batch has a newest message is shown from the
well-foundedness of the naturals (`LeastNumber`, `LastPosition`, `LatestFacts`).

`TaskPool_proofs`. The four theorems hold for any pools, tasks and nesting, and
whenever a pool is destroyed. `IInv` says where a task can be: in its own pool's
queue, once, with its caller waiting (`Queued`); with its pool's thread, its
caller waiting (`Runs`); or answered, if the thread took it (`Taken`). So what
the destructor takes out of the queue, or leaves there, no thread took
(`ThrownNeverRuns`), and only a stopped pool loses tasks (`Stopping`), which
with the handing over from `queue` to `taken` gives `RunsInOrder`. `NoLostTask`
needs only that an insertion excludes the worker between its test and its
sleep. What the pools do in time (`NoCallerHangs`) stays with TLC.

`LazyQueue_proofs`. The five theorems hold for any number of pushes and runners,
with and without a clearing thread and an unchecked push. The pushed numbers in
the queue are increasing and newer than what was popped, which is newer than what
was served (`Ordered`, `Served`); the search key is one of them, or was lost to a
clearing (`Keyed`); a runner is started by whoever pushes to an empty queue
(`Started`), and one that passed `_run` before the destructor holds the mutex the
destructor waits for (`Stopped`). `NothingLost` needs two more parts, which name
the last element pushed and every element.

`VersionSync_proofs`. The three theorems hold for any number of keys, changes,
callers, crashes and failures. `Catchable` is not inductive: a call between two
transactions has written part of its answer. `IInv` adds that a table that is not
spoiled fits the version held and every version a call asked from (`Fits`), that
whoever writes has the newest answer and nobody has asked from a newer one
(`Latecomers`), that the transactions before the one that carries the version have
made right what it covers (`Prepared`), and which transactions can be left
(`Staged`). The staff's order is the exception: rows that a pending deletion will
put right count as fitting (`Awaits`), which is why `Between` is in the property
and a crash there spoils. The writing transactions share one lemma (`WriteStep`):
a transaction only makes rows right for an answer at least as new as every version
in use. `ThroughMeansDone` follows from `Thorough`: each key of a running call is
right already or is covered by a transaction still to come. That `Latest` and
`Version`, maxima of bounded sets, exist is shown from the well-foundedness of the
naturals (`MaxFound`).

`DbMigration_proofs`. The four theorems hold from any of the fifteen versions,
for any number of openings, exceptions, crashes and statements that fail
unnoticed. The three properties speak of a database that is `Migrated`, so none is
inductive: `IInv` says of every step still to come what the disk looks like before
it. `Within` and `Suffix` make that possible: whatever was passed over or given up,
what is left of an opening is the end of what it had to do, because nothing comes
between the steps of one try (`TryRanks`). Then each part has its own invariant. A
trigger is new, or its new one is still to be made, and between the two steps
there is none (`Exchanging`), so that an old one which `CreatTables` puts back after
a cut is dropped again before the version is written. A table's types are old only
while its shift is to come, in this opening or the next (`Shifting`). The columns
follow three paths: from an older table one by one (`Widened`), from version 5 by
dropping it (`Rebuilt`), or not at all (`Widening`); a missing table never
gets past `clearData`, which throws. A cut leaves the columns as they were before
the first or after the last of `addColumn_04`, or `Halved` says so.

Only model-checked: liveness (`EventuallyHeld`, `SyncEnds`, `EveryCallReturns`,
`NoCallerHangs`, `EventuallyServed`), which TLAPS does not prove. Every other
property a passing run checks is a theorem.

## What could come next

1. `OfflineSync`: the acknowledgement of own messages, which moves the watermark
   on, and `NoGap` for the messages that were never removed, in runs with
   removals.
2. `MessageStore`: `updateMState` and revoked messages.

## Not modelled

- Group creation and membership (`createGroup`, `onCreateGroupComplete`,
  `onInviteGroupMembers`). What can go wrong there (the map of names read and
  erased by two threads, Communication.cpp:638 and 950; a name that is erased
  before three tries to set it, 957; members deleted and inserted in two
  transactions, 666) depends on which callbacks LogicBase raises for a new
  group, in which order and on which threads. LogicBase is a closed library
  and nothing in the source tells.
- `EventBus`: a map looked up and iterated without a lock. What two threads do to
  it is undefined inside the container; there is no state to model.
- `DelayTask` is included by no file; `LRUCache` is instantiated by none.
- Reads off the pool see the rows of a transaction that may still roll back
  (DataBasePlug.cpp:290); reads change nothing in `DbConnection`, and what follows
  for the watermark is `StoreFails` in `OfflineSync`.
- `getDbVersion` and `setDbVersion` throw a `const char*`, which no handler of `OpenDB`
  catches (DbConfig.cpp:43, 64). An exception is one step of `DbMigration`
  whatever its type.
- Widgets, resources, settings, search, file transfer, message formats and the
  vendored libraries, which are most of the files; each with its reason under
  "components". SQLite is modelled by what its documentation promises of begin,
  commit, rollback and a failing statement.
