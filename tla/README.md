# EasyDB in TLA+

EasyDB is a small relational database in Java in the tradition of MYDB: a
transaction table, a redo/undo log, a page cache, a multi-version concurrency
layer with row locks, a B+ tree, tables, a SQL front end, and two servers (a
socket server and a WebSocket terminal). This directory holds its formal model:
TLA+ modules translated from the Java source, TLC configurations that check them
on small instances, and theorems checked by TLAPS.

Paths below are relative to `src/src/main/java/com/dyx/simpledb/`.

## 1. The system

| part | state it keeps | operations | talks to |
|---|---|---|---|
| transaction table, `backend/tm` | one status byte per xid and a counter in the header of the XID file | `begin`, `commit`, `abort`, `isActive/Committed/Aborted` | called by the version manager and by recovery |
| log and recovery, `backend/dm/logger`, `backend/dm/Recover` | the log file with its running checksum | `log`, `rewind`, `next`; redo and undo at start-up | data manager, transaction table |
| cache, `backend/common/AbstractCache`, `dm/pageCache` | objects, reference counts, keys being fetched | `get`, `release`, `close` | pages, data items, entries |
| data manager, `backend/dm` | pages, their free space, the page index | `read`, `insert`, `physicalDelete`, `close` | log, page cache, page index |
| version manager, `backend/vm` | active transactions with snapshots, entries (row versions) with xmin and xmax, a global lock | `begin`, `read`, `insert`, `delete`, `commit`, `abort`, automatic abort | data manager, transaction table, lock table |
| lock table, `backend/vm/LockTable` | owners, queues, per-waiter locks, start times | `add`, `remove`, a time-out daemon | called by the version manager |
| B+ tree and unique index, `backend/im` | nodes in data items; values in memory with the transactions that use them | `insert`, `search`, `delete`; `commit`, `rollback` | data manager, tables |
| tables and table manager, `backend/tbm` | a linked list of table rows, the uid of its head in the booter file | `create`, `drop`, `insert`, `read`, `update`, `delete`, `show` | version manager, indexes |
| executor, `backend/server/Executor` | the xid of the session | one statement; `close` | table manager |
| socket server, `backend/server/Server` | a thread pool | one `HandleSocket` task per connection, for its lifetime | an executor per connection |
| WebSocket terminal, `websocket` | a database and an executor per user and session, expiry times | open, message, close; an expiry timer | executors, on any pool thread |
| terminal page, `resources/static`, class `Terminal` of the bundle | history, commands in progress, the socket | keys, run of a command, socket events | the WebSocket terminal |
| parser, transport, client, utilities | none | text and byte conversions | |

A statement goes down the column: server, executor, table manager, table,
version manager, then lock table, data manager and transaction table. Only the
version manager calls upwards: at the end of a transaction it tells the tables the
transaction modified. The parts share state across threads: every connection has a
thread, and the lock table has a daemon of its own.

What is hard here:

- **Row locks that do not block.** `LockTable.add` hands a waiter a
  `ReentrantLock` that the waiting thread itself has just locked, and the caller
  then locks it again. So a "waiting" transaction goes on; all bookkeeping of
  waiting goes on with it; one transaction may "wait" for several rows; and
  a release that hands a row over unlocks a lock of another thread and throws.
- **Exceptions half way.** Nothing is undone when a method throws, and
  `Panic.panic` only prints. A throw out of `lt.remove` leaves a transaction
  without a status, one at the end of `internAbort` leaves the session in a
  transaction that is already rolled back.
- **No lock across steps.** `VersionManagerImpl` holds its lock only to look up a
  transaction or to begin one. Between the check of an entry and its update, and
  between leaving `activeTransaction`, releasing rows and writing the status,
  any other thread may act.
- **Ownership by thread, not by transaction.** The global lock of SERIALIZABLE is
  a `ReentrantLock`; it is taken by the thread that executes BEGIN.
- **Time-outs.** The daemon takes the locks of a transaction that still runs.
- **Crashes** between the writes of the XID file, of the log and of the pages.
- **Concurrent splits** of B+ tree nodes.

`PROJECT.json` lists these hazards at their lines, with the properties that cover
them, or a note where none does.

What makes each part correct:

- lock table: one owner for a row, no release of a row of somebody else, no waiter
  that a release cannot reach, no undetected deadlock, every wait ends;
- version manager: a status that is decided once and never changed back, no
  transaction that nobody can end, snapshots that do not move, no row overwritten
  by two running transactions, SERIALIZABLE really alone;
- XID file: the counter and the length of the file agree after every crash;
- log and recovery: after any crash, also one in recovery, exactly the committed
  changes are there;
- cache: one object per key, never written out while it is referenced, its counters
  exact; items on top of pages are together a plain memory;
- pages: a page is in the index at most once and with its true free space;
- B+ tree: a search finds every key whose insert returned;
- unique index: no two committed rows with one value;
- table chain: every table created and not dropped is reachable from the booter;
- WebSocket terminal: answers in the order of the commands, one open database for a
  user, a prompt that comes back.

## 2. Modules

| module | models | proofs |
|---|---|---|
| `Maps` | `java.util.Map`: put, remove, its type | |
| `LockTable` | `vm/LockTable.java` | `LockTableProofs` |
| `DeadlockSearch` | `hasDeadLock` and `dfs` of the same file, as they are written | `LockTableProofs` |
| `Visibility` | `vm/Visibility.java`, pure | |
| `VersionManager` | `vm/VersionManagerImpl.java` over the lock table, with the sessions of `server/Executor.java` above it and the statuses of `tm/TransactionManagerImpl.java` | `VersionManagerProofs` |
| `Cache` | `common/AbstractCache.java` | `CacheProofs` |
| `ItemMemory` | abstract: what the data manager promises of data items | |
| `DataCache` | `dm/DataManagerImpl.java` over `dm/pageCache/PageCacheImpl.java`: two instances of `Cache`, implementing `ItemMemory` | `DataCacheProofs` |
| `Storage` | `tm/TransactionManagerImpl.java`, `dm/logger/LoggerImpl.java`, `dm/Recover.java`, `dm/DataManager.java` and the pages, with crashes | `StorageProofs` |
| `BPlusTree` | `im/BPlusTree.java`, `im/Node.java` | `BPlusTreeProofs` |
| `UniqueIndex` | `im/UniqueIndex.java` under the statements of `tbm/Table.java` | `UniqueIndexProofs` |
| `Terminal` | the class `Terminal` and its commands in `static/demo.3ddb9e72.js` | |
| `WebSessions` | `websocket/TerminalWebSocketHandler`, `UserManager`, `UserSession` | |
| `WebConsole` | pages and other clients connected to the front end: `Terminal` and `WebSessions` composed | `WebConsoleProofs` |
| `MC...` | constants for TLC | |

### LockTable

The maps of the module are the fields of the class (`x2u`, `u2x`, `wait`,
`waitLock`, `waitU`, `waitStartTime`), as functions from their current keys. A
`ReentrantLock` is the thread that holds it; a start time is only its presence,
because which waits are old enough is the clock's choice. Each method runs under
the table's mutex:

- `add` is one step, split by the way it returns: `AddOwned`, `AddFree`,
  `AddWait`, `AddDeadlock`;
- `remove` is `RemoveCall`, one `RemoveNext` per row and `RemoveReturn`;
- `checkForTimeouts` is `CheckTimeouts`, `TimeoutNext` for each late entry,
  `TimeoutRelease` for each of its rows, `TimeoutForget`, `TimeoutReturn`.

The variable `call` is the method in progress and its local variables. The loops
are step by step because `selectNewXID` (`ReleaseUnclaimed`, `HandOver`) may throw
in the middle, and then the mutex is released (`finally`) with the rest undone.
For the daemon the exception is the end of the thread (`checkerAlive`): its loop
catches `InterruptedException` only. The daemon never holds the lock of a waiter,
so the first hand-over it makes is its last act. Because a start time is only its presence, an
`add` that renews one (line 47) changes nothing here; a waiter that asks again and again stays
young in the code, and only `EveryWaitEnds` could tell.

`open` is the only variable that is not in the code. The version manager never asks
for a row for a transaction that was refused or has begun to release; `open` is that
contract, and `LockRequestsAreOpen` checks that `VersionManager` keeps it.

`HasDeadLock` states what the search computes, a cycle reachable from an owner.
`DeadlockSearch` translates the search itself: `dfs` is a recursive function of the fields
`xidStamp`, `pathCache` and `stamp`, and `Search` the loop over the keys of `x2u`, in any
order because a `HashMap` promises none. `SearchFindsCycles` says that they agree on the
tables of every reachable state and every edge that `add` could put in next.

### VersionManager

`activeTransaction` leaves out the super transaction, which never ends and owns no
entry's fate. `status` is the XID file, `entries` the rows with `XMIN` and `XMAX`;
`xid`, `pc`, `on` and `cmd` are, per session, `Executor.xid`, the place in the
method, the thread, and the method's locals. A step reaches from one point where
another thread can act to the next:

| code | actions |
|---|---|
| `begin`, also of a temporary transaction | `Begin` |
| `insert`; the end of a temporary statement | `Insert`, `OtherStatement` |
| `delete`: visibility, `lt.add`, checks, `setXmax` | `DeleteLook`, `DeleteLock` or `DeleteDeadlock`, `DeleteCheck` or `DeleteSkip`, `DeleteWrite` |
| `commit`, up to `lt.remove` | `CommitRefused`, `Commit` |
| `abort`, `internAbort` up to `lt.remove` | `AbortLost`, `AbortAutoAborted`, `Abort`, `AutoAbort` |
| `lt.remove` | `RemoveCall`, `RemoveNext`, `RemoveReturn` |
| after `lt.remove` | `FinishCommit`, `FinishAbort`, `FinishAuto` |

`Table.delete` and `update` loop over the rows of one statement. For a transaction with a BEGIN
each row is a statement of its own, since the session is where it was after each of them. A
temporary transaction stays in its statement from row to row (`RowEnds`) until it has no more or
throws (`OtherStatement`), so it may hold and wait for several rows. `FinishCommit` may throw
after the status is written, because `table.commit` runs then (`UniqueIndex.java:90`): the
session keeps the xid of a committed transaction.

The lock table below is an instance of `LockTable`, whose actions are conjuncts of
these. The daemon's steps are `Timeouts`. A statement starts on a thread of
`Carrier[s]`: one fixed thread for the socket server.

### Cache, DataCache, ItemMemory

A user of `Cache` is one `get` with its `release`. The lock of the table covers all of
`get` but the fetch, so a `get` that misses is `GetMiss` and, later, `Fetched` or
`FetchFails`; one that finds the key being fetched sleeps and has no step. `close`
removes from the map it walks, so with more than one resource the iterator throws after
the first: `CloseLetsGo` lets one go and stops, and what is left stays in use.

`DataCache` puts the cache of data items on the cache of pages. The fetch of an item is a
`get` of its page (`ItemPage`), so one cache is in the middle of a step of the other; the
page cache has a limit, and when it is reached the exception runs through both
(`ReadFails`). The last release of an item releases its page, the last release of a page
writes it back when it is dirty (`WriteBack`), a later fetch reads the file (`PageRead`)
outside every lock. An insert uses a page directly (`InsertPage`, `Insert`,
`InsertReleases`). Values stand for the bytes of an item; the uid of an item is known to
readers when `insert` has returned.

`close` goes through the items (`CloseItems`) and, if that did not throw, through the pages and
closes the file (`ClosePages`); a `close` that threw is called again at the next check for
expired users, `MaxCloses` times in all. Nothing in the code looks whether a close has begun,
and `UserManager` closes a database while statements run on it: readers and inserts go on
before, between and after these steps, on files that may be closed (`FilesOpen`).

`ItemMemory` is the abstract specification: a value for each item, and users who hold an
item and see its value. The refinement mapping takes the value from the page in memory
when there is one and from the file otherwise (`Val`), and what a reader sees through the
object it holds (`Seen`). An eviction or a failed fetch must be a step that changes neither.
All of this is promised until `close` is called. From then on it is not: a reader that still
holds an item after its page was let go changes a page that is no longer cached, and the change
is lost. `OneObjectEach` and `Accounted` go on to speak of the caches after a close.

### Storage

A step is one write to one file, or one change of a page in memory: the status byte and
the counter of `begin` are `BeginStatus` and `BeginCounter`; an insert is `InsertLog` and
`InsertPage`, a delete `DeletePage` and `DeleteLog`, in the order of the code, which is
not the same for the two. A `Crash` falls between any two steps, up to `MaxCrash` times,
also during recovery. It loses what is in memory and keeps every write that was made to a
file; an append to the log that was under way may have left only the head of a record, or
a part of it.

Opening is step by step: `Open` (XID file, PageOne's check, the tail of the log),
`RecTruncate`, `Redo` for each record, `UndoBegins`, `Undo` and `UndoEnds` for each
transaction that was active, `RecDone`, `Opened`. `fileSize` in `LoggerImpl` is not
renewed when the tail is cut off, so after a record cut in its data part `recover` reads
zeros behind the end and throws (`OpenFails`): the first start fails, and the next succeeds
because the tail is gone by then.

`work` and `promised` are not in the code: what the running transactions have done, and
the rows the database owes to those who committed. The module assumes that two running
transactions do not delete the same row. `VersionManager` shows that the program does not
ensure it (run `vm_exclude`); when it happens, undo brings back an image that a later
commit has replaced.

### BPlusTree

An insert and a search visit one node at a time, under the latch of that node only. The
step of an insert is `InsertDown`, `InsertRight` (to the sibling), `InsertPut`,
`InsertSplit` or `UpdateRoot`; of a search `SearchDown` or `SearchLeaf`. A split is known
to the left sibling at once and to the parent only later; the root may be replaced by an
insert that started from an older one. Keys are numbers, rows may share a key. `delete`,
`update` and `insertUnique` of the class have no callers in the program. An exception in a split
(`Node.java:229`) takes back the change of the node (`unBefore`) and ends the insert; here that
insert goes no further, which the safety properties allow at any step.

`MaxKey` is `Long.MAX_VALUE`, the last separator of the rightmost inner nodes. The module
assumes that keys and left ends of ranges are below it (`KeysAssumption`,
`BoundsAssumption`). For one that equals it `searchNext` finds neither a son nor a sibling
and uid 0 is loaded; what becomes of that is outside the tree.

The properties speak of the leaves from a leaf to the right, `Onward`: what no set of
leaves misses that holds the first and, with a leaf, its sibling. So they say of siblings
that went round in a circle that they are wrong, and do not lose their meaning.

### UniqueIndex

A table with one unique column. A statement is several steps: `InsertIndex`,
`InsertRow`, `InsertList`; `ReadRow`, `DeleteIndex`, `DeleteRow` for each row found; an
update runs through both. Between them other transactions act, and each may throw, which
leaves what was done: a refused value, a row that is too large or a full page cache
(`InsertRowFails`, `ReadRowFails`, `DeleteRowFails`), a deadlock (`DeleteDeadlock`), the
B+ tree with the row in it or not (`InsertListFails`, `UpdateListFails`). The end of a
transaction writes the status first and tells the index later (`CommitIndex`,
`RollbackIndex`), and only if the transaction told the version manager that it changed
the table. `Restart` loses the index, which `Table.parseSelf` does not fill again.
`disturbed` is a history variable: a statement broke off half way, or two transactions
went for one row or value. `ExactIndex` says nothing from then on.

### Terminal, WebSessions, WebConsole

`Terminal` is a page: commands that print line by line, the prompt, the history, the
socket it opens when the boot command is done. `WebSessions` is the server: each connection
has an executor service of one thread (`Take`), each task is `init` or a statement in the
steps at which threads of other connections and the expiry check can meet it (`InitLook`,
`InitNewSession`, `InitFiles`, ..., and the steps of the expiry). `WebConsole` puts them
together over channels that keep their order and are lost when the connection breaks.
`overlapped` is a history variable: the users for whom an `init` met another `init` or an
expiry.

## 3. What is checked

Passing runs:

| run | instance | shows |
|---|---|---|
| `locktable` | 3 transactions, 2 threads, 2 rows, queues of 2, symmetry; 192 000 states | `TypeOK`, `HoldingsExclusive`, `RollbackOwnsRows`, `NoLostWakeup`, `NoDeadlockAmongHolders`, `SearchFindsCycles`, `OnlyOwnersCallReleases` |
| `locktable_live` | 2 transactions, 2 threads, 2 rows, no symmetry, with fairness; 13 000 states | `EveryWaitEnds` |
| `versionmanager` | 2 connections with a thread each, 3 transactions, 2 rows; one client asks for REPEATABLE READ and sends statements without BEGIN, too, one for SERIALIZABLE; waits of transaction 1 may grow old; 1.7 million states | `TypeOK`, `OneSessionEach`, `AutoAbortedIsRolledBack`, `LockRequestsAreOpen`, `CommittedIsFinal`, `FateDecided`, `SerializableKeepsOthersOut`, `SnapshotIsolation` |
| `datacache` | 2 readers, 1 insert, 3 items on 2 pages, room for 1 page, 2 values, 2 calls of `close`, symmetry; 1.1 million states | `TypeOK`, `OneObjectEach`, `Accounted`, `WrittenUnused`, `IsMemory` |
| `storage` | 3 transactions, 1 page of 2 items, 4 log records, 2 crashes, with fairness; 449 000 states | `TypeOK`, `Durable`, `WriteAhead`, `NoneLeftActive`, `FateIsFinal`, `ComesUp` |
| `btree` | `BALANCE_NUMBER` 2; 10 rows, three and three of them at once, 2 with one key, and a search; with fairness; 89 000 states | `TypeOK`, `LeavesAreSorted`, `NeverTooFarRight`, `SearchComplete`, `EveryCallReturns` |
| `uniqueindex` | 3 transactions, 2 values, 3 row versions, 4 statements, symmetry; 2.3 million states | `TypeOK`, `InsertsExclude`, `ExactIndex` |
| `webconsole` | 1 user, a page with 1 command and another client with 2, one expiry; 2.9 million states | `TypeOK`, `PromptReturns`, `AnswersInOrder`, `InitsShareDatabase` |

Each property has a mutant of the code in `PROJECT.json` that breaks it.

The properties are about what is left after something went wrong or met something else.

- `HoldingsExclusive` and `OnlyOwnersCallReleases` hold although a hand-over does not tell
  the heir's list and although both release loops may stop half way.
- `FateDecided` and `OneSessionEach` hold although `commit` and `abort` may throw between
  any two of their effects: the session keeps its xid until the call has returned.
- `SnapshotIsolation` is the isolation the code does give: the view of a snapshot moves
  only when a transaction that is older, yet was not in the snapshot, commits late.
- `IsMemory` is a refinement: with evictions and failed fetches the two caches are one memory
  until `close` is called. `Accounted` holds after that, too: a `close` that stopped half way
  gives no page back twice.
- `Durable` compares what a new transaction would read with what was promised at commit,
  over every crash, also in the middle of a recovery. It needs the two orders of writing
  (log before page, page before log while the page is in use) and redo before undo.
- `ExactIndex` says when the unique index can be trusted: as long as nothing was disturbed.
  `unique_twice` shows that it cannot afterwards.
- `NeverTooFarRight` is why a search that goes right finds what it looks for. Rows that
  share the left end of a range may be missed by the code as it is: the descent takes the
  son behind a separator equal to the key. `SearchComplete` excuses those rows, and no others.

Bounds, all in the `.cfg` files or the `MC` modules. In `locktable` three transactions
are the smallest number with a chain of two waits, an heir that others wait for, and a
cycle longer than two; `MaxWaiters` limits one queue to two entries. `MaxXid` bounds the
transactions begun; with three there is one that begins in the middle of another's
commit while a third has ended. `LateXid` limits which waits may time out in the big
run, and `Implicit` which session sends statements without BEGIN; the runs that find a
disagreement allow both. In `datacache` two items on one page and one on another are the
smallest number where an item keeps a page that an insert changes and where a fetch
fails for want of room; two calls of `close` (`MaxCloses`) are one that throws and one
that finds what it left. In `storage` four records allow an insert, a deletion of that
row by another transaction, and one more of each; two crashes put one into the recovery
from the other. In `btree` three rows fill a root that is a leaf up to one key; the next
three inserts may all begin at it, and then split it twice, so that the second writes a
root made of the old one over the root of the first. The last three split the first leaf
and the last one and with them the root, which makes a third level, and come to nodes
that have just lost what they look for. In `uniqueindex` four statements are two for one
transaction and one for each other. In `webconsole` the page and the other client are
two connections of one user, the smallest number that can race.

All runs but the two of the lock table switch deadlock checking off: when all
transactions, records, rows or commands are used, or a SERIALIZABLE transaction keeps the
global lock, the model stops.

Fairness.

- `locktable_live`: a thread inside a method of the lock table goes on (weak fairness of
  `InCall`). The daemon wakes every second, a start time grows older (`add` renews it
  at line 47, which the module leaves out), and the mutex is free again and again: for each transaction strong fairness of a check that finds it late.
  Without strong fairness two clients could take the mutex between all wake-ups of the
  daemon. `EveryWaitEnds` excuses a dead daemon because the code lets it die.
- `storage`: somebody starts a database that is down, and a start goes on until it is up or
  crashes (weak fairness of `Starting`); crashes are bounded. `ComesUp` needs no fairness of
  transactions.
- `btree`: as long as a call is going on, some call goes on (weak fairness of `Going`). It
  is the weakest assumption: it even allows one call to be passed over while others run.

Runs that find a disagreement between the code and what the repository says of it
(each a `finding` in `PROJECT.json`):

| run | property | what happens |
|---|---|---|
| `vm_exclude` | `DeletesExclude` | two running transactions delete the same row, because the lock a waiter blocks on is its own |
| `vm_repeat` | `RepeatableReads` | a transaction that begins between another's removal from `activeTransaction` and its status does not see a row of it, and then does |
| `vm_rolledback` | `CommitsAreActive` | a transaction that rolled itself back, whose ABORT then threw at the second unlock of the global lock, is committed by its session |
| `unique_twice` | `UniqueValues` | two live rows with one unique value, after an update whose old row could not be deleted |

The first three run with two transactions, all levels and time-outs of either; the last is
the instance of `uniqueindex`. Also seen while modelling, and part of the modules above: a
row that was handed over is in no list of `x2u`, so that its owner's `remove` does not
release it (`HandOver`); the commit of a SERIALIZABLE transaction does not give the global
lock back, because `tryLock` counts the reentrant lock up before `unlock` counts it down
(`FinishCommit`); and `close` of a cache with two resources or more throws after the first,
although its comment says that it writes all back (`CloseLetsGo`, `CloseItems`).

## 4. What is proved

The theorems hold for all values of the constants that meet the named assumptions of the
modules.

| module | theorem | states |
|---|---|---|
| `LockTableProofs` | `TypeCorrect` | `Spec => []TypeOK` |
| | `HoldingsAlwaysExclusive` | `Spec => []HoldingsExclusive` |
| | `RollbackAlwaysOwnsRows` | `Spec => []RollbackOwnsRows` |
| | `WakeupNeverLost` | `Spec => []NoLostWakeup` |
| | `HoldersNeverDeadlock` | `Spec => []NoDeadlockAmongHolders` |
| | `ReleaseOnlyByOwner` | `Spec => OnlyOwnersCallReleases` |
| | `SearchIsRight` | `Spec => []SearchFindsCycles` |
| `CacheProofs` | `CacheTypeCorrect`, `FetchedOnce`, `SharedObject`, `ReferencesCountUsers`, `RoomIsCounted` | the type invariant and the four invariants of one cache |
| `DataCacheProofs` | `OneObjectOfEach` | `Spec => []OneObjectEach` |
| | `BothAccounted` | `Spec => []Accounted` |
| | `WrittenWhenUnused` | `Spec => WrittenUnused` |
| | `CachesAreMemory` | `Spec => IsMemory`, the refinement of `ItemMemory`, which promises nothing once `close` was called |
| | `DataTypesHold` | `Spec => []TypeOK` |
| `StorageProofs` | `TypesHold` | `Spec => []TypeOK` |
| | `FateStays` | `Spec => FateIsFinal` |
| | `NoneStaysActive` | `Spec => []NoneLeftActive` |
| | `LogGoesAhead` | `Spec => []WriteAhead` |
| | `CommitsSurvive` | `Spec => []Durable` |
| `VersionManagerProofs` | `ManagerTyped` | `Spec => []TypeOK` |
| | `OneSessionOfEach` | `Spec => []OneSessionEach` |
| | `RequestsAreOpen` | `Spec => []LockRequestsAreOpen` |
| | `AutoAbortedRolledBack` | `Spec => []AutoAbortedIsRolledBack` |
| | `CommittedStays` | `Spec => CommittedIsFinal` |
| | `FateAlwaysDecided` | `Spec => FateDecided` |
| | `SnapshotsIsolate` | `Spec => SnapshotIsolation` |
| | `SerializableAlone` | `Spec => SerializableKeepsOthersOut`, if connections have threads of their own |
| | `UsesLockTable` | `Spec => LT!Spec`: the version manager runs its lock table as `LockTable` says |
| | `LocksStaySound` | `HoldingsExclusive`, `NoLostWakeup`, `NoDeadlockAmongHolders` of that table |
| `BPlusTreeProofs` | `TypeCorrect` | `Spec => []TypeOK` |
| | `LeavesStaySorted` | `Spec => []LeavesAreSorted` |
| | `NobodyGoesTooFarRight` | `Spec => []NeverTooFarRight` |
| | `SearchesAreComplete` | `Spec => []SearchComplete` |
| `UniqueIndexProofs` | `ValuesExclude` | `Spec => []InsertsExclude` |
| | `IndexTypes` | `Spec => []TypeOK` |
| | `IndexExact` | `Spec => []ExactIndex` |
| `WebConsoleProofs` | `ConsoleTyped` | `Spec => []TypeOK` |
| | `PromptAlwaysReturns` | `Spec => []PromptReturns` |
| | `AnswersStayInOrder` | `Spec => []AnswersInOrder` |
| | `InitsAlwaysShare` | `Spec => []InitsShareDatabase` |

The inductive invariants below were checked with TLC on small instances before they were
proved.

### The lock table

The theorems of `LockTableProofs` but the first and the last rest on one inductive invariant,

    IInv == TypeOK /\ Ownership /\ NoLostWakeup /\ NoDeadlockAmongHolders
    Ownership == HoldingsExclusive /\ RollbackOwnsRows

and no part of it is inductive alone:

- `HoldingsExclusive` needs `RollbackOwnsRows`: the daemon takes the late
  transaction's list out of `x2u` and then works from its copy (`call.todo`), and every
  row of the copy is still owned, so no list gains it before it is released;
- `NoLostWakeup` needs it too: the daemon drops the lock of the late transaction last,
  which is harmless because that transaction waits for nothing any more;
- `NoDeadlockAmongHolders` needs all the others. Only `AddWait` and `AddFree` add to
  the waits-for graph. In `AddWait` a cycle in `x2u` is, by exclusivity, a cycle in
  `u2x`, and it contains an owner, so `HasDeadLock` sees it. In `AddFree` the row
  is free, and by `NoLostWakeup` nobody is recorded as waiting for a free row.

The proof has lemmas about the list and map helpers (`RemoveFirstCuts`, `PutIsMap`,
`RemoveFromListUndoes`, ...), one about what `SelectNewXID` changes, then one lemma
per action and part. The induction over positions in `LeastNat` cites the well-founded
order of the naturals.

`SearchIsRight` is about the search as it is written. First, `dfs` ends (`DfsSolves`): each
call marks one more of the transactions that wait, and these are finitely many in every
reachable state (`Few`), so there is a function that satisfies the recursion. Then a call
returns what it should (`DfsFinds`), from what holds when it is made (`Walk`): nothing is
cached as TRUE yet, what is cached as FALSE reaches no cycle, and the marked transactions
without a result are the way from the root to here. To come to one of them again is to
close a cycle, which is why the answer TRUE is right; each of them waits for another or for
the one asked about now, which is why no cycle is overlooked. Between two roots nothing is
left on the way (`Searched`), so a key that has a stamp has a result, and `continue` is
right. The stamps of earlier roots are not needed for this: all they have marked is cached.

### The caches

The invariant of one cache is `TypeOK /\ OneFetch /\ OneObject /\ Counters`. `Counters`
speaks of an open cache and of a closed one: after a `close` that stopped half way `count`
is too large for ever, and all that is left is that it is not too small. The proof that a
reference counter counts users is about the cardinality of the set of users, one step for
each way `get` and `release` return.

`DataCacheProofs` does not repeat it. Each step of the data manager is a step of the cache
of items or leaves it alone (`ItemSteps`), and a step of the cache of pages or leaves it
alone (`PageSteps`), so the invariants of both instances hold. Two parts tie them together:
`Linked`, a kept item has its page and only an item kept or being fetched has one, and
`Fetching`, the page an item is waiting for is for an item being fetched. `Linked` needs
`Fetching` (a page that arrives must be for somebody), `OneFetch` of the items (one fetch
ends one wait) and that readers' items are not users of their own kind
(`UsersAreDistinct`). `Reading` says that what was read from the file belongs to a fetch.
`WrittenUnused` needs no more: a page that is written has left the cache, and who uses a
page has one that is kept.

The rest of `DataCacheProofs` is the refinement and the types. The invariant of the refinement is
`Open => Right`: the first step of a `close` ends what is promised (`ClosingShows`), and before
it both caches are open (`Opened`). `Right` adds to the above

- `PagesRight`: a page in the cache has its items (`Shape`), one that is clean equals the
  file (`Clean`), so does one that was read and is not yet in the cache (`ReadClean`), and
  no two of them are one object (`Distinct`). `ReadClean` holds because a page that is being
  fetched is not kept, so nobody writes it back meanwhile;
- `Asked` and `Windows`: an item has asked for its own page, and the object of an item is a
  window on the page object that is kept;
- `Present`: whoever has an item has one that was inserted, so that an insert changes
  nothing anybody sees.

A step is then silent (`Val` and the bytes of every object in use stay: the lemmas
`Silent...`), or it shows as `Take`, `Change`, `Drop` or `Insert` of the memory
(`HitShows`, `FetchedShows`, `WriteShows`, `ReleaseShows`, `InsertShows`). `DataTypesHold` is
proved without `Right`, from what also holds during and after a `close` (`Contents`).

### Storage

`StorageProofs` has the invariant `TypeOK /\ Control`, with

    Control == Idle /\ Positions /\ Counted /\ RunningActive /\ Undone /\ Recorded /\ Decided

No part is inductive alone. `Counted` ties the status bytes to the header counter over a
crash between the two writes of `begin`; with `RunningActive` and `Undone`, which say that
only an active transaction is ever about to be decided, it gives `FateIsFinal`. `Decided`
is `NoneLeftActive` carried through a shutdown and a recovery: it holds with the database
open, ready to be opened, or closed in order, and in between nobody reads statuses but
recovery.

`LogGoesAhead` adds `AllLogged == TornLast /\ FileLogged /\ ImagesLogged /\ MemLogged
/\ CallsLogged`. `WriteAhead` speaks of the file only; what is evicted into it comes from
memory, where a deletion may be ahead of its record as long as its call is in progress
(`MemLogged`); what redo and undo put into it comes from the images in the log, which must
have been logged themselves (`ImagesLogged`), and so from what a call found when it began
(`CallsLogged`). A torn record is always the last (`TornLast`), so cutting it off loses
nothing.

`CommitsSurvive` keeps two accounts of the rows apart and shows that they agree (`Agreed`).

- The log and the status bytes (`LogRight`): a place is inserted once, a deletion follows
  another only if that one was aborted (`InTurn`), a record's images are what the call found
  and left (`ImagesRight`). So `Left`, the rows that committed transactions inserted and none
  deleted, is a function of log and statuses, and it is `promised`. It changes only at a
  commit, by what `WorkLogged` says the transaction did.
- The pages while the database is open (`CallsOpen`, `RowsSettled`): the version at a place
  fits the log (`Fits`), but for the one insert that is under way there. What is shown is
  then `Left`.
- Recovery (`Restored`): redo leaves at each place the last image it came by (`Redone`), so
  places that no active transaction wrote to are settled at its end and stay so
  (`CalmSettled`); undo leaves what the transaction found first (`TakenBack`), which is
  settled once that transaction is aborted. Nothing is assumed of what was in the file
  before, so a crash in a recovery needs no case of its own.

### The version manager

The invariant is `Types /\ Control /\ Fates`. `Control` is about where things stand: each
session that executes is on a thread of its own (`Threads`), whoever is inside the lock
table is a session at `remove` or the daemon (`Callers`), and what a session has in its
locals (`Locals`). `Fates` is about transactions: each in the map has one session that can
end it (`Owned`) and is not committed (`Undecided`); one that is healthy or yet to begin is
`open` for the lock table (`StillOpen`); one that was rolled back by itself is aborted, marked
and out of the lock table (`RolledBack`), which is what `abort` relies on when it only
cleans the map.

`SnapshotsIsolate` rests on a lemma of `Visibility`, `ViewOfSnapshot`: with a snapshot the
view is a function of the rows and of which older transactions outside it are committed, and
`StatusChanges` says whose status a step may write. `SerializableAlone` has the hypothesis
`OwnThreads`, no two connections share a thread: `Server.java:40` gives a connection a pool
thread for as long as it lives. Without it the reentrant global lock keeps nobody out. The
invariant, `Exclusive`, is that the lock belongs to a thread of the connection whose
SERIALIZABLE transaction is active.

`UsesLockTable` discharges what `LockTable` assumes of its environment: its `open`, one call
at a time, each left by the thread that entered it. Every step of the version manager is a
step of the lock table or leaves it alone. The theorems of `LockTableProofs` then hold of the
table inside the composed system, and `LocksStaySound` states three of them there.

### The B+ tree

The invariant is `TreeInv`: the nodes form a tree, and each call knows something of it that
no other call can make untrue.

    IsTree == NodesRight /\ Line /\ LineSorted /\ Founded /\ Separated

- `NodesRight`: each node is of its kind, in order, keys and sons in step, a sibling of the
  same kind; the last separator of an inner node without a sibling is `MaxKey`, so there is
  always a son to go down to.
- `Line`: every leaf is on the way right from the first, and nobody comes back.
- `LineSorted`: no row is on two leaves, none is before a smaller one.
- `Founded`: going down the first sons from any node ends at a leaf, `LeftEnd`. A split or a
  new root never changes it for a node that is there (`EndsGrow`), which is what makes
  knowledge of a node last.
- `Separated`: of the rows left of the `LeftEnd` of a son none has a key beyond the separator
  before it, and one with that very key only if two rows share the key (`Under`). The same
  for a sibling and the last separator.

`Bounded(v, k)`, nothing from `k` on is left of `v`, is the fact calls carry with them. It
stays true when others insert, because a new row on a leaf with others to its right is not
larger than one that was there (`RowBelow`), or its insert would have gone on to the sibling;
and when others split, because the rows left of a node stay the same. `Carries` puts together
what a step keeps in this way, for the insertion into a node, the split and the new root.
An insert knows it of where it is and its key, and after a split of the new son and the
separator for it, whoever its parent is by then (`InsertKnows`). The node its path begins
with has the first leaf at its left end, so a new root over a stale one has so too
(`UpdateRoot`). A search knows it on the way down of its left end; on the leaves, that it
has what is sought on all leaves to the left (`SearchKnows`). `RowsPlaced` says which rows are
on the leaves: those whose insert has returned, and those of inserts that are past the leaf.

`SearchComplete` is part of the invariant. `Under` shows where its exception comes from: a row
that shares the left end with another may be left of the separator that equals it.

### The unique index

`InsertsExclude` is inductive as it stands: only `insert` adds a value to what a
transaction holds, and it has looked at what all of them hold, those that ended with an
exception included. `ExactIndex` needs `Shaped /\ Calm /\ Exact`:

- `Shaped` holds always: types, where each statement stands (`Located`, `Control`), that a
  row is deleted by another transaction only after it was committed (`RowsKept`), and that a
  restart leaves an empty index (`Unfilled`).
- `Calm` holds until something is disturbed, after a restart too: values are unique, and of
  the rows a running transaction wrote each value is there once, but for the copy an update
  is making (`Single`, `Lonely`, `Fresh`), and is backed by a value it holds or a row it took
  (`Backed`).
- `Exact` holds while the index is filled. For all transactions: nobody holds a value that is
  listed, nobody marks a value that is not, no two mark one (`Apart`); the index lists what
  lives, up to commits that the tables are not yet told of (`LiveListed`, `ListedLive`). For
  each running one: it marks exactly what it took and did not write again, holds only what it
  wrote (`Taking`, `Marking`, `Holding`), and what it has done to the row it is at (`Given`,
  `Unmarked`).

`Given` was not inductive at first: between `DeleteIndex` and `DeleteRow` it must say that
the value is marked or the row dead already, or else the second deletion of one row could
give back a value that another row still has. The two lemmas that matter are `HeldElsewhere`,
an insert refuses a value whatever row of whatever transaction has it, and `WrittenAlone`, a
value a transaction gives back is not that of another of its rows.

### The web console

Pages and server share no state but the sockets, so the proof is in parts.

- `PageInv`: a page that prints has a command in `runs`. A run ends the printing of all, so a
  page may show a prompt too early, but never lacks one for good.
- `ServerInv`: types, and references that are in range (`Linked`): a thread's task, its
  session and its database exist; an init at its last step has a database; the user whose
  expiry is under way is registered until it is forgotten.
- `Ordered`: the answer shown last, the answers under way, the task in progress, the tasks to
  come and the commands under way rise, in this order, and end below the number sent. Each
  step moves one command from one of them to the next or drops some. `OrderSays` puts them
  together into the one sequence the property is about.
- `Quiet`, for each user nobody's init overlapped: at most one init at work, none during an
  expiry (`InitAlone`); it works on the registered session, knows that there is no database
  when it opens one and no files when it makes them (`InitKnows`); every open database is the
  registered session's or the one the init is about to put there (`OneOpen`); the expiry has
  closed it before it forgets the user (`Expired`). `Apart`, no session object is used for two
  users, makes the steps for one user leave the quiet of all others alone (`Frame`).

### Only model-checked

- Liveness under fairness: `EveryWaitEnds`, `ComesUp`, `EveryCallReturns`. They are temporal
  properties that rest on ENABLED, which the provers do not reason about.
- `DeletesExclude`, `RepeatableReads`, `CommitsAreActive` and `UniqueValues` are the
  properties of the runs above that TLC finds violated.

## 5. What is not modelled

- **The position of a FileChannel.** `TransactionManagerImpl`, `LoggerImpl` and
  `PageCacheImpl` set the position of a channel and then read or write. For the page
  cache a lock covers both calls; `updateXID` and `checkXID` have none, and
  `updateXChecksum` runs after the lock of the log is released. `Storage` takes each write
  as one step. With mixed positions a status byte may be written at another transaction's
  place, and no property of statuses would be left.
- **The running checksum** at the head of the log file: the start-up check of it only
  leads to `Panic.panic`, which prints.
- **`physicalDelete`**, called by `drop` only: it zeroes bytes without a log record, without
  marking the page dirty, and lists the page a second time in the page index.
- **The page index**: its forty intervals are replaced by "a page with room is given to one
  insert at a time", which is what `select` (takes the page out) and `add` (puts it back)
  amount to.
- **The chain of tables**, `create` and `drop` of `TableManagerImpl` and the booter file.
  All of it runs under one lock. What a crash does to it is known from reading: the booter
  names the new table although its transaction may not commit, and the next start then
  reads a row that is not there; `drop` links the predecessor in hash order.
- **`delete`, `update`, `insertUnique` of the B+ tree**, which nobody calls; several unique
  columns and the compensation of `Table.insert` between them.
- **`read`** of the version manager changes nothing that the models keep; that it may see a
  state between two steps of a writer is what `SnapshotIsolation` and `RepeatableReads` look
  at. A read of an entry is one step, as the entry's latch makes it.
- **The pool of the socket server** and its queue: a connection that waits for a thread has
  done nothing yet.
- **Parsing, transport, the client, printing, byte conversions**: no state that threads
  share.
- **The bundle of the terminal page** apart from the class `Terminal` and its commands
  (from line 11300 of `demo.3ddb9e72.js`): React and its packages, vendored. The other file,
  `runtime.b0a62080.js`, is the loader of the bundler. So nearly all of the JavaScript in the
  repository is third-party code and is left aside.
- **A key `Long.MAX_VALUE`** of the B+ tree, which its sentinel stands for (above).
- **Clock values**: only the order in which waits and users grow old matters.

## 6. Plan

Done: the lock table, the version manager, the caches, the data manager's reads and
inserts, storage and recovery, the B+ tree, the unique index, the WebSocket front end and
the page.

Every safety property of the passing runs is a theorem.

Next, in this order:

1. `TableChain`: `create`, `drop` and the load at start-up, over the visibility of the table
   rows, with its theorems.
2. That `Storage` below `VersionManager` keeps what the latter takes for granted of statuses
   over a restart.
