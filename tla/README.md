# AstraStorage in TLA+

Models, model-checking runs and machine-checked proofs for the AstraStorage
repository (`src/`): a metadata service (MDS), an upload/download gateway and
data nodes, with PostgreSQL, Redis, RabbitMQ and etcd around them.

## The system's parts

| part | source | state | operations | what makes it hard |
|---|---|---|---|---|
| Upload lifecycle | `internal/mds/service_upload.go`, `service_file.go`, stores | file, upload session and chunk rows | create, start, commit chunk, complete, verify, fail, retry, delete | any client order of calls; late calls of old sessions; retries that drop chunks; ids chosen by clients; two stores that differ |
| Namespace | `service_directory.go`, `service_mutation.go`, `memory_inode.go`, `postgres/repository/inode.go` | inode tree, paths copied into files | mkdir, rename, move, recursive delete | paths kept in several places; moving a directory below itself; cascades |
| Store | `store/memory_*.go`, `postgres/repository/*.go` | all tables | transactions | the in-memory store commits a whole snapshot; PostgreSQL runs at read committed |
| Replica coordination | `coordinator/*.go`, `store/memory_plan.go` | replica rows of chunks, replica plans, node table | repair, failover, rebalance, cleanup loops | four loops that read, call data nodes, and write back later |
| Nodes and placement | `service_node.go`, `allocator.go` | node table | register, heartbeat, allocate, select targets | stale heartbeats, capacity arithmetic |
| Task delivery | `mds/mq/*.go`, `platform/mq/rabbitmq/*` | queues, retry attempts, idempotency table | publish, consume, retry, dead-letter | at-least-once delivery, in-memory deduplication |
| Leadership | `platform/etcd/leader/elector.go`, `coordinator/supervisor.go`, `cmd/mds/app.go` | lease, term, running loops | campaign, resign, start and stop leading | lease expiry while the loops run |
| Read cache | `read_cache.go`, `warmup.go`, `platform/redis/*` | cached read models, lock keys | read through, invalidate, warm up | a fill that overtakes an invalidation |
| Read path | `service_read.go` | none of its own | build a download plan | two reads without a transaction |
| Data node | `datanode/*.go`, `cmd/datanode` | chunk data and metadata files | put, get, delete, replicate | a crash between two renames |
| Gateway | `gateway/*.go` | none of its own | upload, download, delete | several remote calls, each of which can fail |
| Schema migration | `platform/postgres/migrate/migrator.go`, `ensureRootInode` of `cmd/mds/app.go` | table of versions, the schema, the root inode | apply the migrations | several servers that start at once, or go away in the middle |

The parts meet in the tables. The gateway asks the metadata service for upload
targets, writes chunks to data nodes, and commits each chunk with the replicas
that were stored; the upload handlers decide from the chunk rows when a file is
available, and `BuildDownloadPlan` sends readers to the ready replicas of an
available file. On the elected leader the coordinator's four loops work on the
same chunk and replica rows, either calling data nodes themselves (direct mode)
or publishing tasks to RabbitMQ that consumers in every process execute (task
mode). Data nodes send heartbeats, from which the planners judge them. Reads go
through a Redis cache that mutations invalidate.

## Modules

| module | what it is |
|---|---|
| `Upload` | the upload lifecycle over the file, session and chunk tables |
| `UploadTx` | the upload handlers as overlapping PostgreSQL transactions; extends `Upload` |
| `ObjectStore` | the abstract specification: whole objects, published and retracted atomically |
| `UploadRefinement` | the refinement mapping from `Upload` to `ObjectStore`, and the inductive invariant |
| `Replication` | replica coordination in direct mode |
| `TaskDelivery` | delivery of tasks over RabbitMQ: consumers, idempotency tables, retry and dead-letter queues |
| `ReplicaTasks` | replica coordination in task mode; extends `TaskDelivery` |
| `Migration` | how a process prepares the shared database before it serves |
| `Leadership` | elector, supervisor and `application.Run`; extends `Migration` |
| `ReadCache` | the Redis read cache |
| `Namespace` | the directory tree and overlapping transactions |
| `DataNode` | the chunk store of the data nodes, registration and heartbeats |
| `Gateway` | uploads, downloads and deletes: `Upload` (by `INSTANCE`) and `DataNode` composed |
| `MC*` | small instances for TLC: symmetry, sets that a configuration cannot write, and in `MCUpload` the readiness loop of the code |
| `*Proofs` | theorems: `UploadProofs`, `UploadTablesProofs`, `ReplicationProofs`, `ReplicaDataProofs`, `ReplicaTasksProofs`, `LeadershipProofs`, `ReadCacheProofs`, `GatewayProofs` |

Definitions have the names of the functions they model; operators whose comment
starts with "Mutant" are wrong versions of the definition after them. Replacing
the definition by the mutant makes TLC violate the property that guards it.

### Upload and UploadTx

`file`, `session` and `chunk` are the tables (`mds_files`,
`mds_upload_sessions`, `mds_chunks` with their replicas, or the maps of the
in-memory store); `"absent"` is a missing row. Each handler of
`service_upload.go` runs in one `InTx` and is one action: `StartUpload`,
`CommitChunk`, `CompleteUpload`, `VerifyUpload`, `FailUploadVerification`,
`RetryUpload`, with `CreateFile` and `DeleteFile` (`deleteFileCascade`).
A handler that returns an error changes nothing and is no step. `Store` selects
the behaviour of the in-memory store or of PostgreSQL where the two differ: the
partial unique index on active sessions, the statuses an update accepts, what
happens to the replica rows of a chunk that is committed again.

Chunk contents are members of `Data`. A checksum is the content it was computed
from, so two checksums are equal exactly if the contents are. Sizes and offsets
are numbers, since the readiness test is arithmetic on them. Clients may call
any handler at any time with any member of `ChunkRequests`. Timestamps, retry
policies and wording of errors are left out.

In `Upload` handlers run one after the other. Of overlapping transactions the
in-memory store keeps the snapshot that is committed last, so each state of its
tables is one that `Upload` reaches, and invariants carry over; what a step may
do (the refinement) does not, since a late commit may put an earlier object back.

PostgreSQL runs the handlers at read committed and they take no lock when they
read. `UploadTx` splits a handler in three: the rows it reads and checks first
(`VerifyUploadReads`), what the store's functions read again, which settles the
columns it will write (`VerifyUploadRereads`), and the writes with the commit
(`Write`), which land on the rows of that moment and must pass the unique indexes
and foreign keys; `Rollback` ends it anywhere. Others commit in between, either such
transactions or whole handlers of `Upload` (`Alone`). `overlapped` has the files
over whose changed rows a transaction wrote. Creating and deleting a file are
whole handlers there.

### Replication

The tables are `node`, `present` and `count` (chunk rows), `replicas`, `plan`;
`disk` is what the data nodes store. `failover`, `rebalance`, `copier` and
`cleaner` are what the loops have read and not yet used. Every store call and
every call to a data node is a step:

| loop | steps |
|---|---|
| `FailoverPlanner` | `FailoverScan` (bulk read), `FailoverSelect` (file, nodes, active plans, target), `materializePendingReplica` (transaction) |
| `RebalancePlanner` | `RebalanceScan`, `RebalanceSelect`, `planReplicaMove` |
| `PendingReplicaRepairer` | `RepairScan`, `RepairCopy` (request to the source node), `RepairRecord` (write back) |
| `CleanupController` | `CleanupList`, `finalizeCompletedPlan` (read), `deleteSourceReplica` (request), `purgeLostReplicaMetadata` (transaction, of both kinds of plan) |

Both planners begin with `ListChunksByNode`. Its PostgreSQL query joins two tables
and selects columns that both have without saying whose; the database refuses it,
so with that store the planners plan nothing (`ListChunksByNode` is empty there).
What the runs and theorems say about plans is about the in-memory store; repair and
cleanup do not depend on the query.

The environment is `HeartbeatNode`, `NodeTimesOut`, `DeleteFile` and `Restart`
(the leader stops or crashes with whatever its loops had read). A copy may reach
some targets only and its answer may be lost; so may the answer to a delete. A
request takes effect within its step: requests that a data node carries out
after the client gave up are not modelled. Planners choose any eligible target
and the repairer any ready source, where the code takes the one with most space
and the primary; the backoff of the repairer only delays a target.

### Task mode: TaskDelivery and ReplicaTasks

`queue` and `retrying` count the copies of an envelope (event id and attempt) in
the task and retry queues, `dead` is the dead-letter queues. Each process has a
consumer for each of the four kinds of task, and an idempotency table
(`claimed`). `Handle` takes a delivery and claims it or acknowledges it as a
duplicate; the executor runs; `Complete` and `Fail` are its ends; after a failure
`RouteFailure` publishes to the retry or dead-letter queue and then `Ack`
acknowledges, so that a restart between the two (`ProcessRestarts`) duplicates the
task. A claim may expire at any time (`ClaimExpires`; in the code after ten
minutes), also while its task is being executed. The task queues are
quorum queues with a dead-letter exchange; what the broker dead-letters on its own,
because a message was requeued too often, is not modelled.

`ReplicaTasks` follows one chunk. The leader plans, publishes (`PublishPlan`) or
takes the plan back (`RollbackPlan`), and its cleanup loop publishes cleanup
tasks. The executors go step by step: `ExecuteReplicaRepair` and
`ExecuteReplicaPlanCopy` read, ask the source for a copy and write back;
`ExecuteCleanup` is `DeleteSourceData` and `RemoveSourceRow`. The
node table is left out: a planner may choose any source and target, and an
executor may find any node unusable. `Restart`, `LeaderStops` and
`PublicationLost` (the channel is in confirm mode, but nobody waits for the
confirmation) are the faults.

### Leadership and Migration

A process has three threads: the elector's goroutine (`elector`), the goroutine
of `application.Run` (`app`), and the loops, a generation for each call of
`StartLeading` (`loops`). `StartLeading` and `StopLeading` change the supervisor's
fields in one step and wait afterwards (`waiting`). etcd is external: campaign
keys with revisions, leases that are kept, revoked or expire; a process learns of
an expired lease later (`sessionDone`). Faults are lost leases, crashes,
shutdowns, and errors of etcd or of a server; a crashed process may restart.

Before it serves, a process runs the migrator and `ensureRootInode`
(`Migration`): `claimMigration` inserts a version and waits where another
transaction has inserted it, `applyMigration` runs the SQL and commits both,
`Rollback` is what remains when the process goes away. `Migration` is the part of
the step relation that `Leadership` composes with the rest of a process's start.

### ReadCache

The module follows one object: a file (metadata and download plan), a directory
(its list of children) or a node (its entry and the list of healthy nodes). A
cached value is the number of the commit it was loaded after. A reader looks at
the replica of Redis, looks for a null entry, takes the lock or polls, loads,
fills and releases, one Redis or database call per step; the warm-up is such a
reader. A mutation commits and then invalidates, in separate steps. Entries and
locks expire, the replica lags, a failover loses what the replica had not got. A
lock that a failover loses appears as one that expired.
`effectiveTTL` keeps the arithmetic of defaults and jitter, in units of 15
seconds: it decides whether an entry expires at all.

### Namespace

`db` holds the committed inode and file rows, `tx` the open request of each
client with what it has read. `CreateDirectory`, `CreateFile`, `RenameInode`,
`MoveInode`, `DeleteFile` and `DeleteDirectory` read and check; `Commit` writes,
or `Rollback` ends the request. What the writes land on is `Base`: the in-memory
store puts back the snapshot the transaction worked on, PostgreSQL at read
committed changes the rows of the moment and refuses what its unique indexes and
foreign keys refuse (`constraintsHold`). A rename or move includes the paths of
the subtree (`updateSubtreePaths`) and the file rows
(`syncFilesUnderDirectoryPath`), which the code finds by path. A path is the
sequence of its components. PostgreSQL compares paths by `LIKE` with the prefix as
it is (`prefixFilter`): a backslash in it, which the members of `Escaped` have, is
read as an escape and the pattern misses the rows below. The wildcards `%` and `_`
match more rows than those below; the recursive query and `pathWithinPrefix` leave
those out again.

### DataNode and Gateway

A chunk on a node is two files, data and metadata with the checksum, each replaced
by a rename of its own. A request is sent, half done (holding the store's mutex)
and answered; a crash or an I/O error may come between (`torn` remembers where).
`RegisterNode` and `HeartbeatNode` report the used bytes and are refused above the
capacity.

A gateway request is a sequence of calls. An upload creates the file, starts the
session, and for each chunk allocates targets, puts the chunk to the first,
has it replicated to the others, and commits it; then it completes and verifies.
The calls to the metadata service are the actions of `Upload` (`MDS!...`), with the
roles and states of the replica rows (`replica`) beside them. A delete lists the
replicas, sends a delete to each ready one, and removes the file; a download reads
the file, then its chunks, and fetches each from the candidates in order. The
gateway may give up a call to a node while the node still works on it
(`GiveUp`).

## What the runs check

Passing runs (TLC, exhaustive):

| run | instance | properties |
|---|---|---|
| `upload_memory` | one file of size 3 (chunk size 2), two sessions, two chunk ids, two contents, full, short, empty, unverified and unreplicated chunks, in-memory store | `AvailableIsReadable`: an available file is covered byte by byte by available, verified, replicated chunks; `AvailableWasCompleted`: by one of its sessions; `RowsAgree`: file, session and chunk rows agree in status, stored size and references, and nothing outlives its file; `InductiveInvariant` (the one the proofs use); `ScanAgrees`: the loop of `ensureFileReadyForVerification` and the set-based test of the model accept the same chunk tables; `ImplementsObjectStore` (refinement) |
| `upload_postgres` | one file of one chunk, with and without a verified checksum, two sessions, a transaction that whole handlers overlap between its reads and writes, PostgreSQL | `OneActiveSession`; `ReadableUnlessOverlapped`: a file over whose changed rows no transaction wrote is available only while it can be read back |
| `replication_both` | both planners, two nodes that go silent, down and up, one replica, in-memory store | `OnePlanPerType`; `DataKept`: no cleanup deletes the last copy; `OnePlannerIsSafe`: as long as the plans made are of one type, the chunk stays readable (`Readable`) and its ready replicas have the data (`ReadyHasData`) |
| `tasks_memory` | task mode, both planners, two nodes, one process, two tasks, two attempts, one fault, in-memory store | `FirstPlanKeepsData`: a first plan never costs the data |
| `tasks_postgres` | the same with two processes, two desired replicas and repair tasks only, PostgreSQL | `NoTaskLost`: until a task is executed or dead-lettered, the broker or a consumer has it; `DeadAfterRetries`; `OncePerClaim`: until a process forgets a claim it executes the task successfully once |
| `leadership` | two processes that start on a new database with two migrations, four terms, two faults | `LoopsOverlapOnlyAfterLoss`: loops of two processes overlap only if one has lost its lease or is leaving; `OneGeneration`; `ServesPrepared`: every migration applied once and in order; and `ShutdownEnds`, `StartEnds`, `SomeoneLeads` |
| `cache` | two readers, one commit, one fault, one object of any kind | `DirectoryListIsLater`: no old list under a new version, until Redis fails over; `OneFill`: two fills overlap only after a lock expired; `CacheSettles`: without commits, stale entries come to an end |
| `namespace` | four inodes, one file, three names of which `LIKE` misreads one, two clients, four transactions, both stores | `TreeIsRooted`; `PathsFollowTree`: paths of inodes and file rows follow every rename and move, except below a name that `LIKE` misreads (both with PostgreSQL as long as nobody wrote over rows changed since they were read); `RowsPair`: names are unique, file rows and inodes pair up, and a file row has the parent and the name of its inode, whatever overlaps |
| `gateway` | two uploads, two deletes and a download of files of two chunks, two nodes, two replicas, four events of which two may be faults | `CopiesAreWhole`; `AvailableIsStored`: what an available file's rows call ready is on the disk; `DeletedIsGone`; `DownloadIsFile`: a body of the announced length is one upload's content |

Each module's `TypeOK` is checked as well (that of `Upload` as a part of
`InductiveInvariant`), in one run of the module.

Bounds. *Uploads*: two sessions are the fewest with an old and a new one, two
chunks the fewest with a gap, a first and a last; chunk size 2 tells full, short
and empty chunks apart. A file of size 0 is not in the run. The handlers of one file
touch only its own rows; the theorems cover any number of files. One transaction that
is open while whole handlers run (`Txs` = {t1}) shows every overlap of one handler's
reads with others' commits; the theorem on `OneActiveSession` has any number of them.
*Replication*: one chunk is enough for the safety properties, because a step changes
one chunk's rows; the loops meet across chunks only in the order of a cleanup pass.
Two nodes are a source and a target. `MaxPlans` = 3 lets a plan be made while a finished one still
has effects in flight; when it is used up only planning stops. With both planners
a third node makes the state space too large for a regular run. *Tasks*: two
tasks are a copy and the cleanup of one plan, or two of a kind; a task may be
delivered as often as faults and retries allow. With planners a second process makes
the state space too large, so it is in the run without them. *Leadership*: two processes are
the fewest that overlap; four terms let each lead twice; a third fault also passes
(465,142 states). *Cache*: values are numbers of commits, so a commit before and
one after a fill are what can be told apart; one fault is a lost invalidation, a
failover, an expired lock or a read that breaks off. *Namespace*: three inodes
below the root give a directory in a directory with a file in it. The names are of
one component each. *Gateway*: two chunks and two replicas per file; `MaxEvents` = 4
lets four requests run, or fewer of them with up to two faults or heartbeats, which
may hit any step. A second delete, which finds a file again whose first delete failed
halfway, comes after one upload that is over, without a download, and overlaps the
first only in the absence of faults (`Bound`). Symmetry is used for sets
whose members nothing orders and no liveness property follows.

Violation runs: what a document of the repository says and the code does not do.

| run | property | what happens |
|---|---|---|
| `replication_silent` | `SilentNodeFailsOver` | a node that stopped sending heartbeats stays healthy in its row, so its replicas count as effective and no plan is made |
| `tasks_plan_finishes` | `PlanFinishes` | the executor of the copy sets the plan to `cleanup_ready` itself; the cleanup loop returns early for a plan in that state and never publishes its cleanup task |
| `namespace_cycle` | `NoDirectoryBelowItself` | two moves in PostgreSQL each look for descendants before the other commits, and put two directories below each other |

Fairness. In `Replication` (`FairSpec`) each loop's steps are weakly fair: while a
server leads, its tickers fire again and again and each call returns or times out.
`ReplicaTasks` (`FairSpec`) assumes the same of the leader's loops, of consumers
and of the broker; which outcome a call has is left open. In `Leadership` the
goroutines run on, passes of loops end (their contexts are cancelled and their
calls have timeouts), and leases nobody keeps alive expire; nothing is assumed of
faults or restarts. In `ReadCache` entries with a time to live expire and the
replica catches up; nothing is assumed of readers, so `CacheSettles` does not
depend on their going on. Deadlock is checked in the runs of `Upload`,
`Replication` and `ReadCache`; in the others behaviours really end, when the
bounded requests are over or all processes have exited.

### What does not hold

Where a property is checked for one store or under a hypothesis only, the rest
does not hold. These were met while modelling; those marked * are read off the
code and not checked.

Uploads:
- A chunk may be committed again after `CompleteUpload`, and `VerifyUpload` without
  a checksum then publishes the earlier one (`service_upload.go:193`), although
  `mds-invariants.md:91` wants the verification complete before `available`.
- `OneActiveSession` fails in the in-memory store: a failure report or a late
  chunk brings a failed session back while a newer one is in progress.
- In PostgreSQL a file can be published that cannot be read back: `VerifyUpload`
  checks the chunks (`service_upload.go:355`), a `CommitChunk` with an unverified
  checksum commits, and `VerifyUpload` then sets the chunks and the file to
  `available`. `AvailableIsReadable` therefore fails in `UploadTx`, and
  `ReadableUnlessOverlapped` excepts the files it happened to. `ImplementsObjectStore`
  is for handlers that do not overlap, in either store.
- In PostgreSQL a chunk committed again keeps the ready rows of nodes that hold the
  earlier data: the upsert (`repository/chunk.go:188`) leaves the rows of nodes that
  the second commit does not name.
- `AvailableIsReadable` fails when two files use one chunk id: the second commit
  takes the row away from the first file, which stays available.
- A failure report takes a completed session back to failed or retrying.

Replication:
- With PostgreSQL no plan is ever made: the query of `listChunksByNode`
  (`repository/chunk.go:257`) names `id`, `file_id` and other columns of two joined
  tables without a qualifier and is refused as ambiguous.*
- `Readable` fails with both planners (`mds-invariants.md:127` asks for one readable
  replica): the second plan turns the replica at their common target, ready
  meanwhile, back to pending while the cleanup of the first removes the source.
  `ReadyHasData` fails likewise.
- A direct-mode rebalance plan whose delete request was carried out but not
  answered is retried for ever, as every retry is answered 404
  (`cleanup.go:213`); a failover plan made from a stale bulk read names a source
  whose row is gone, and fails in each pass. A failing plan ends the pass and
  holds up the plans behind it.
- The repairer writes back a replica count that it read before the copy.

Task mode:
- `Readable` fails: `RollbackPlan` removes a target row that a repair has made ready
  meanwhile. A plan that is done may go back to `cleanup_ready`.
- With two plans that move a chunk there and back, a cleanup task of the first that
  is delivered again deletes the only copy.*
- A task delivered again after its claim has expired, or to another process, is
  executed again: `OncePerClaim` counts for one claim.
- A delivery stream that the broker closes ends its consumer silently; a message
  that cannot be decoded ends the process after each restart; plans stuck in
  `cleanup_ready` can fill the limit of a cleanup pass.*

Leadership:
- At shutdown `stopCoordinator` and the elector's callback both call `StopLeading`;
  the second finds nothing to wait for, and the key is resigned while loops drain.
  This is why `LoopsOverlapOnlyAfterLoss` excepts processes that are leaving;
  `manual-testing.md:621` has only the leader advance the loops.
- `currentTerm` may read another process's key, and closing an expired session is
  an error that ends the process. The term is not used to fence writes.

Cache:
- A file without chunks makes `buildDownloadPlan` set the null key that `GetFile`
  shares, so an existing file is not found until the entry expires.
- A jitter as large as the time to live passes `validate` and makes entries that
  never expire: `CacheSettles` fails with `Jitter` = 6, the default for lists.
- Between a commit and the expiry of what a slow reader filled after the
  invalidation, readers get the old value. Deleting or renaming a directory does
  not invalidate the files below it, and replica changes by the coordinator do not
  invalidate download plans.*

Namespace:
- Overlapping transactions of the in-memory store lose updates: the later commit
  puts back its snapshot. In PostgreSQL they can leave orphans (`parent_id` has no
  foreign key), stale paths and cycles, on which `isDescendant` does not end.
- In PostgreSQL a rename or move of a directory whose path has a backslash leaves the
  paths of the inodes and file rows below as they were, since `LIKE` takes the
  backslash for an escape (`repository/inode.go:459`, `file.go:226`).
  `PathsFollowTree` excepts such rows (`Misread`).
- A name with a separator is accepted, and `replaceBaseName` then replaces only the
  last part of it.* `PathsFollowTree` is stated for names of one component.

Gateway:
- A failed upload leaves its file, session and data, and keeps the name taken; a
  failed delete leaves an available file some of whose chunks are gone.
- A crash between the two removals of a delete leaves a data file that a retry
  never removes, as it is answered 404, which counts as success. A put that the
  gateway gave up may land after the delete.
- Two uploads that use one chunk id overwrite each other's data before the metadata
  service sees it; the properties are stated for ids of one upload (`Unshared`).
- A node that uses more than its capacity is refused its heartbeats, and its
  registration after a restart.
- A dead first target fails the upload; no other target is tried.

## What is proved

TLAPS checks these for every value of the constants that satisfies the named
assumptions of the modules:

| theorem | statement |
|---|---|
| `UploadProofs!TypeCorrect` | `Spec => []TypeOK` |
| `UploadProofs!Invariant` | `Spec => []InductiveInvariant`, given `DisjointChunkIDs` |
| `UploadProofs!AvailableReadable` | `Spec => []AvailableIsReadable`, given `DisjointChunkIDs` |
| `UploadProofs!Refinement` | `Spec => ImplementsObjectStore`, given `DisjointChunkIDs` and `Store = "memory"` |
| `UploadTablesProofs!AvailableCompleted` | `Spec => []AvailableWasCompleted` |
| `UploadTablesProofs!TablesAgree` | `Spec => []RowsAgree`, given `DisjointChunkIDs` |
| `UploadTablesProofs!OneActive` | `TxSpec => []OneActiveSession`, given `Store = "postgres"` |
| `ReplicationProofs!TypeCorrect` | `Spec => []TypeOK` |
| `ReplicationProofs!OnePlan` | `Spec => []OnePlanPerType` |
| `ReplicaDataProofs!CopiesKeptSafe` | `Spec => []DataKept` |
| `ReplicaDataProofs!OnePlannerSafe` | `Spec => []OnePlannerIsSafe` |
| `ReplicaTasksProofs!TasksKept` | `Spec => []NoTaskLost` |
| `ReplicaTasksProofs!DeadHaveFailed` | `Spec => []DeadAfterRetries` |
| `ReplicaTasksProofs!ExecutedOnce` | `Spec => []OncePerClaim` |
| `ReplicaTasksProofs!TypeCorrect` | `Spec => []TypeOK` |
| `ReplicaTasksProofs!FirstPlanSafe` | `Spec => []FirstPlanKeepsData` |
| `LeadershipProofs!TypeCorrect` | `Spec => []TypeOK` |
| `LeadershipProofs!PreparedBeforeServing` | `Spec => []ServesPrepared` |
| `LeadershipProofs!GenerationsApart` | `Spec => []OneGeneration` |
| `LeadershipProofs!LeadersApart` | `Spec => []LoopsOverlapOnlyAfterLoss` |
| `ReadCacheProofs!TypeCorrect` | `Spec => []TypeOK` |
| `ReadCacheProofs!FillsAreExclusive` | `Spec => []OneFill` |
| `ReadCacheProofs!ListsAreLater` | `Spec => []DirectoryListIsLater` |
| `GatewayProofs!CopiesWhole` | `Spec => []CopiesAreWhole` |

The theorems about `Upload`'s `Spec` are about handlers that do not overlap.
`AvailableIsReadable` speaks of bytes and is not inductive. `InductiveInvariant`
adds what the readiness test has seen (`PublishedWhole`: contiguous chunks that
end at the file's size, all available, verified, replicated), that a file has one
chunk for an index, and that a chunk row belongs to a file that uses its id.
The last part needs `DisjointChunkIDs`: no two files use one chunk id. The store
does not enforce it; the gateway makes the ids of an upload from one that the
client sends or, without one, from the clock (`generateID`). The step from
chunks to bytes is arithmetic: a position below `k * n` lies in one of `k` pieces
of length `n`. For the refinement, a handler either leaves a file's chunks alone,
or ends with the file out of `available`.

The tables (`SessionInv`, in `UploadTablesProofs`). Each handler is first summed up
as one of six effects on the rows (created, deleted, started, committed, judged,
retried); the invariants are then shown for the effects. To `AvailableWasCompleted`
the invariant adds that a row is there exactly if it names its file, and that the
latest session of a file belongs to it. None of this needs `DisjointChunkIDs`; only
`RowsAgree` does.

`OneActive` is about overlapping transactions. Whatever a transaction has read, its
write of a session row passes the partial unique index on the rows of that moment;
the invariant adds to `OneActiveSession` only that rows, and those about to be
inserted, have all their columns (`SessionShape`), and every step leaves the sessions,
deletes a file's, or writes a row that the index allows (`SessionsWritten`). The checks that the handlers make
for an active session before they write are not needed for it.

`TypeOK` of `Replication` is not inductive either: that a created plan has a
source and a target rests on what the planner kept from its reads (`PlannerOK`),
that the cleanup acts on a plan on the list it keeps (`CleanerOK`). For
`OnePlanPerType` the invariant adds `Checked`: while a planner is between its look
at the active plans and its transaction, no active plan of its type exists for
the chunk. Only the planner of a type creates plans of it, and there is one
leader; the proof depends on both, and so will not carry over to two leaders.

That the data is kept (`DataInv`, in `ReplicaDataProofs`) is again shown for effects
on one chunk's rows, plans, copies and loops (`Effect`, in `ReplicationProofs`). A
copy does not count while a copy to its node is still to be made though no plan asks
for it (`Orphans`); the rest are settled (`Settled`). The invariant says that a copy
is settled (`Safe`); that the source of a move that is due, because its target is
ready or has been answered for, can be spared; the same for a move the planner has
chosen and not yet written; and that a node which was answered for and has since
lost the data is the source of a move, or that no move deletes anything yet (`Lost`).
`OnlyInv` has the two cases of `OnePlannerIsSafe`. Under failover alone nothing is
deleted, and a row goes only when the plan's target is ready. Under rebalancing alone
a ready row without data is the source of a move. Before the first move no more rows
exist than are desired, so that a planner that counts enough ready ones has seen every
row ready, by the library's theorems on cardinality.

Task delivery (`DeliveryInv`). That no task is lost is not inductive: a worker that
only has to acknowledge counts as holding the task although its copy is about to
go. `Covers` says more precisely who holds it: a queue, an executor, or a worker
that has failed and not yet routed. `Attempts` ties the attempt in an envelope to
the failures so far, which gives `DeadAfterRetries`. `Claims` says that a process's
idempotency table has what its consumers have executed for a claim and nothing that
they have not begun, and that what is being executed has not been executed since the
claim, even if the claim has expired meanwhile. The executors and the
leader's loops touch the delivery only through the operators of `TaskDelivery`, so
the proof has one lemma per operator and one step per action.

Tasks and data (`FirstInv`). `FirstPlanKeepsData` needs what the executors of other
tasks may be doing. The types hold because every task but a repair names a plan that
was made (`PlansOK`), and a plan that is deleted keeps its nodes. As long as only one
plan was made (`FirstPlan`), every copy goes to its target, a ready row without data is
its source's, a cleanup task exists only once the target has the data, and an executor
that is about to record a success has written it. So the cleanup, delivered however
often, deletes the source's data while the target has it. The invariant is again shown
for the effects of the steps.

Leadership. `BootInv` adds to `ServesPrepared` what the migrator has done
(`Migrated`): the applied migrations are an initial segment,
the versions are those, and a process beyond a file has it applied. `LoopInv` says
for each place of the elector which generation of loops can have begun and that
the supervisor or the elector's wait knows it. `KeyInv` has the keys of etcd: they
are distinct, and a process that has won and whose lease lives has the oldest one.
Two processes that both serve and hold their leases cannot both have the oldest
key, which gives `LeadersApart`. That a campaign picks an oldest key needs a least
element of a set of revisions, from the library's theorem on well-founded
relations.

Read cache (`CacheInv`). `OneFill` follows from `HoldsLock`: a reader that fills has
the lock, or has let it expire. For `DirectoryListIsLater` it matters that versions
are not reused: `Counted` bounds the versions and the invalidations under way by the
commits, `ListsLater` says that nothing is stored, or kept by a reader, under a version
that Redis has not reached, and that what a reader is about to store under a version
is as late as that version. A failover takes versions back, and the property ends there.

Data nodes (`StoreInv`). To `CopiesAreWhole` it adds that a node
has at most one half-done request, that what this one has changed so far is what
its operation says, and that a request's data and checksum agree once it is half
done. `GatewayProofs` shows that every gateway step changes the calls only by
sending, reading or giving up, each of which keeps `StoreInv`.

Only model-checked: `Namespace`, `ReadableUnlessOverlapped` of `UploadTx`, the
properties of `Gateway` other than `CopiesAreWhole`, `ScanAgrees` (a fold over a
sequence needs induction over data, which is out of the prover's reach), and all
liveness properties (`ENABLED` and fairness are out of reach, too).

## Not modelled

- The RPC layers and the gateway's pass-through handlers translate between formats
  and make one call; they have no state.
- Copying and scanning of rows, wire types and SQL text would be identities in the
  model; of the schema, the models have the constraints they depend on.
- Configuration, metrics, logs, the construction of a process's parts, and generated
  code. The discovery and placement packages hold a package comment only.
- RabbitMQ connections and channels (they appear as publications that fail or are
  lost), messages that cannot be decoded, and consumers that end without an error.
- Temporary files and fsync of a data node: a rename is taken to last. Zones, and
  nodes that report themselves unhealthy, in `DataNode`; `Replication` has the
  latter. A heartbeat's reading of the disk and the update of the row are one step.
- The choice among eligible targets and sources by free space and role in
  `Replication`, the limits on the work of one pass, and the warm-up's hot sets.
- Requests that a data node carries out after the coordinator gave up; `Gateway`
  has them for the gateway.
- Integer overflow of `index * FixedChunkSizeBytes` (`memory_chunk.go:39`): it needs
  indices of 2^41 or more, which TLC cannot enumerate.
- The composition of the cache with the coordinator, and of two leaders' loops.
