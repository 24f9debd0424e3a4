# AnyCache in TLA+

A TLA+ development for AnyCache, a distributed cache file system in C++: a master
that owns the namespace and knows where blocks are cached, workers that cache blocks
in memory and on disk, and clients (a library, a FUSE front end, a command line) that
read and write through both. Modules are model-checked with TLC and, where it matters
most, their properties are proved with TLAPS for every value of the constants.

## 1. The system and its parts

| Part | State | Operations that change it | Hard behaviour |
|---|---|---|---|
| Eviction policies, CacheManager (`worker/cache_manager.*`) | LRU list; LFU lists, frequencies, `min_freq_`; block sizes, total bytes | access, insert, remove, evict | repeated inserts, stale `min_freq_`, drift of an unsigned total |
| StorageTier (`worker/storage_tier.*`) | handles, used bytes, memory or files | allocate, write, read, remove, export, import | a limit checked by callers without the lock |
| MetaStore (`worker/meta_store.*`) | block metadata in RocksDB | put, get, delete, scan | fails; survives a crash |
| BlockStore (`worker/block_store.*`) | index of blocks to tiers, plus the three above | create, ensure, read, write, remove, promote, evict, recover | no lock around an operation; automatic promotion and eviction |
| Worker service and server (`worker/worker_service_impl.*`, `worker_server.*`, `master_client.*`) | worker id, copied into the service | RPC handlers, start, heartbeat loop | lost and late calls, late registration |
| DataMover (`worker/data_mover.*`) | task queue, active count, threads | submit, execute, wait, stop | condition variables notified without the mutex |
| PageStore (`worker/page_store.*`) | LRU of pages, pages per file | read through, write, prefetch, invalidate, evict | a fetch under way while the page changes |
| BlockMaster (`master/block_master.*`) | locations per block, blocks per worker | add, remove | two indexes that must say the same |
| WorkerManager (`master/worker_manager.*`) | workers by id, next id | register, heartbeat, check, select | time-outs against late heartbeats |
| MasterServer (`master/master_server.*`) | | heartbeat check loop | two steps, not atomic |
| InodeTree, InodeStore (`master/inode_*`) | directories in memory, everything in RocksDB, id counter | create, mkdir, complete, delete, rename, resize, recover | memory against database; crash between them |
| FileSystemMaster (`master/file_system_master.*`) | | joins InodeTree, BlockMaster, WorkerManager | look, then act |
| MountTable (`master/mount_table.*`) | mounts, persisted | mount, unmount, resolve | resolved by nothing |
| Journal (`master/journal/*`) | log file | append, replay | called by nothing |
| Client, FUSE, command line (`client/*`, `fuse/*`, `tools/anycache_cli_main.cpp`) | none that outlives a call | read, write, copy, truncate, delete, rename | several blocks, several servers, several calls per command |
| Under file systems (`ufs/*`) | handles; buffers of open objects | open, create, read, write, close, delete, rename, mkdir | requests that fail half way; S3 uploads on close |
| Configuration, metrics (`common/*`) | | | |

How they interact: a client asks the master for a file's inode and the locations of
its blocks, then talks to a worker. The worker's service calls its BlockStore and
reports a new block to the master. The worker's heartbeat loop registers it and keeps
it alive; the master's check loop drops the locations of workers that fall silent. A
worker's DataMover moves blocks from and to an under file system in the background.

`PROJECT.json` lists every part with its status, the places where each is exposed to
a hazard, and the source lines every definition stands for.

## 2. Modules

| Module | Models | |
|---|---|---|
| `Maps`, `Seqs` | `std::unordered_map`: put, erase; prefixes and ends of sequences, removal | |
| `CachePolicy` | `LRUPolicy`, `LFUPolicy`, `CacheManager` as operators on a record | |
| `CacheManager` | the CacheManager as a state machine with a log of the calls made | run by `MCCacheManager` |
| `BlockStore` | StorageTier, MetaStore, CacheManager, BlockStore, the worker's block RPCs | run by `MCBlockStore` |
| `BlockCache` | what a block store promises to one caller at a time | abstract |
| `BlockStore_proofs` | theorems about `BlockStore` | |
| `BlockMaster`, `WorkerManager` | the master's two tables | composed by `Cluster` |
| `Cluster` | master, workers and the calls between them | run directly |
| `Cluster_proofs` | theorems about `Cluster` | |
| `InodeTree` | InodeTree over InodeStore: the master's namespace | run by `MCInodeTree` |
| `FileTree` | what the namespace promises: a durable tree of paths | abstract |
| `InodeTree_proofs`, `SoundTree_proofs` | theorems about `InodeTree`; behind FUSE, that it is a tree | |
| `FileTree_proofs` | `InodeTree` implements `FileTree` | |
| `DataMover` | the task queue, its threads, WaitAll and Stop | run directly |
| `DataMover_proofs` | theorems about `DataMover` | |
| `PageStore` | PageStore, its LRU, and CacheClient's ReadCached on top | run by `MCPageStore` |
| `PageStore_proofs` | theorems about `PageStore` | |
| `Ufs` | the local and the S3 under file system, as operators | used by `Transfer` |
| `Transfer` | DataMover's tasks, CacheBlock and directory operations over blocks and `Ufs` | run by `MCTransfer` |
| `FileSystem` | commands and FUSE calls through client, master and workers | run by `MCFileSystem` |
| `FileSystem_proofs` | theorems about `FileSystem` | |

**CachePolicy, CacheManager.** The lists and maps of the code are sequences and
functions; `min_freq_` is kept, and `EvictStops` says when the search loop of
`LFUPolicy::Evict` ends. `VictimsAreThePolicys` compares each eviction with a reference
that knows only the log of calls: the least recently used block, or the least recently
used among the least frequently used.

**BlockStore.** A BlockStore operation takes several locks one after the other and none
across. Each call under one lock is one action; a thread's program counter `th[t].pc`
goes through the actions of the operation in the order of the code, early returns
included. `CreateBlock` is `Pick`, `EvictForSpace`, `Recheck`, `Alloc`, `PutMeta`,
`SetMap`, `InsertPolicy`, `AutoEvict`; the others are grouped the same way in the
module. `MaybeAutoEvict` reads the used bytes twice (`AutoEvict`, `AutoFree`) and the
difference is taken modulo `Word`, as `size_t` does. A block's content is a sequence of
abstract bytes. `Crash` loses everything but files and metadata; `Recover` is what
`WorkerServer::Start` calls, and `RecoverFails` its failure, after which the server goes
on. At most one tier of each type is configured (`TiersAssumption`), and failures of the
disk itself are left out.

**Cluster.** The calls between processes are at most once, possibly late
(`ReportBlockLocation` takes any report under way) and possibly lost (`LoseReport`,
`RegisterAnswerLost`). `HeartbeatCheckLoop` is two actions, `FindDead` and `DropDead`, as
in the code nothing holds the tables together between them. A worker's age counts the
ticks since it was last heard.

**InodeTree.** The mode the master runs in: directories in memory (`dirs`, each with its
entries), every inode and every edge in RocksDB (`inodes`, `edges`, `stored` for the id
counter). With `CounterFails`, saving the counter may fail, and so may reading it in `Recover`,
which then goes by the largest id of a directory (`RecoveredIds`). An operation holds `mu_` and commits one batch before it changes memory, so it
is one action; `CreateDirectory` commits once per path component and is a lock-holding
sequence of steps (`Mkdir`, `MkdirEnter`, `MkdirMake`, ...), with crashes and failed
commits in between. `dir_inodes_[id]` on an id that is not there enters a default inode
(`At`, `BelowFile`, `MkdirRefused`), as `operator[]` does. `Resolve` walks the entries in memory
from the root (`Walk`), and `Subtree` is the least set that a deletion collects, so that both can be
reasoned about by induction. Names are abstract, modes, times
and owners are left out. Two kinds of clients are told apart by `kernel`: behind FUSE,
the kernel refuses a path through a file and a rename of a directory to below itself;
the command line and the client library send any path. A crash of the process loses
memory and keeps what was committed (the write-ahead log is not synced, so a crash of the
machine may lose more; that is not modelled).

**DataMover.** `mu_` is a variable, and a wait on a condition variable is three steps, as in
the library: the predicate is evaluated with the mutex held (`Check`), the thread gives the
mutex up and sleeps in one step (`Block`), and takes it again when woken (`Lock`). The code
sets `running_`, decrements `active_tasks_` and notifies without the mutex, so those steps
do not look at it. Callers are RPC threads and the server that stops the mover.

**PageStore.** The LRU cache and the reverse index have a mutex each; `ReadPage` takes them
one after the other and holds neither while it fetches. Each critical section is an action,
and the loop of `ReadCached` goes around them (`GetHit`, `GetMiss`, `Fetch`, `PutStep`,
`TrackPage`, `Copy`). `Rewrite` is external: somebody changes a file and then has it
invalidated, which is how the cache is meant to be used. `unsure` are the pages that may
differ from their file for a reason the code cannot see: they were written to the cache, or
fetched before the file changed.

**Ufs, Transfer.** Both under file systems are operators over one state: `names` maps a path to
a directory or to contents. A local file changes in place under any handle on it; an object
is replaced as a whole when its handle is closed after a write, and is downloaded at the first
read. Directories of S3 are prefixes. `Transfer` runs the steps of `ExecuteTask` and
`CacheBlock` against it, one call on the under file system or the block store at a time,
beside callers of Delete, Rename and Mkdir, with `Evict` taking blocks away and `MaxFaults`
requests that fail (`StepFails`, `CreateFails`, which leaves the directories it made, `CloseFails`,
`ShortWrite`). A task may also find no under
file system (`NoUfs`); for the worker's AsyncCacheBlock and PersistBlock that is the only
outcome today, since they submit without one and the worker's DataMover has no default.
`CacheBlock` of a file at the root of the local file system looks in the working directory
(`Cwd`), because the URI is cut at its last slash.

**FileSystem.** One client call is one action, and so is each critical section of the master's
methods that have several (DeleteFile: look, drop the locations one by one, delete the
name). The record `cl[c]` carries the local variables of the command and of the loops of
`ReadFile` and `WriteFile`. The name space is one directory (`InodeTree` has it in full), blocks
are in workers' memory (`BlockStore` has the tiers and what happens between the locks of one
operation), and `BlockMaster` is the module that `Cluster` uses too. A block is as long as its
first write and never grows; making one evicts others when there is no room or the high
watermark is passed, in any order, as `CachePolicy` has the policies (`CreateBlock`).
`MakeBlockId` cuts the index off at `IndexLimit` (2^24 in the code, which compares it with nothing),
so that positions of a file a multiple of `FileLimit` (1 PB) apart are in one block. Reading
behind the end of a block, which a truncation to a larger size makes possible, lets the worker's
copy length wrap, and the worker dies (`ReadBlk`, `Dies`): it is taken to be started again at once,
without blocks, and what the master does about a dead worker is in `Cluster`. A client whose deadline passes goes on while the worker still carries the call out
(`DeadlinePasses`, `LateWrite`, `LateReport`).

Definitions whose name ends in a word after an underscore (`Release_KeepsUsed`) are
their namesakes with a plausible mistake; they serve to show that a property can fail
and are used by no action.

## 3. What is checked

| Run | Instance | Shows |
|---|---|---|
| `cache_manager` | 3 blocks, 2 sizes, 6 calls, LRU and LFU | evictions follow the policy; the books agree; the LFU search ends; the total never falls below the sizes it covers |
| `block_store_seq` | 1 caller, 2 blocks, 2 tiers of 2 bytes, 1 database failure, 1 crash | tiers, index, metadata and policy agree between calls; the reported total is exact; the store implements `BlockCache` |
| `block_store_conc` | 2 threads, 2 blocks, 1 tier of 3 bytes, 1 database failure | accounting exact at each step; an indexed block is stored |
| `block_store_orphan` | violated | eviction against creation leaves a block that can never be created again |
| `cluster` | 2 workers, 1 block, 1 master restart, 1 fault | the two location indexes agree; ids are the workers' own; a dead worker is noticed |
| `inode_tree` | clients behind FUSE or any, 2 names, paths of 2, 3 inodes besides the root | the store is a tree and implements `FileTree` across failures and crashes; the directories in memory are those a restart loads; ids are never given out twice |
| `inode_ids` | violated | a failed reservation of ids lets a restart give ids out again |
| `data_mover` | 2 threads, 2 callers, 2 tasks, 1 spurious wake-up | no task is lost or run twice; queued work is seen; WaitAll is a barrier; Stop waits for the threads; submitted tasks run |
| `data_mover_calls` | violated; 1 task | Stop and WaitAll may never return |
| `page_store` | 2 threads, 2 files of 2 pages, 2 cached, 4 calls | list and map of the LRU agree; an invalidation finds every page; a stale page raced its file's change; a read is exact |
| `transfer` | 2 tasks, local and S3, 3 paths, 2 blocks, 1 failed request | handles are closed; objects appear whole; a task alone moves exactly its bytes; directory operations do what they say |
| `file_system` | 2 clients, 2 workers, 2 paths, blocks of 3 bytes, 2 block indexes, 2 commands, 1 loss | nobody reads another file's bytes; a command alone reads and changes exactly what it names, or less of it where blocks were evicted; the one read that gets nothing is that from behind a short block's end |

The three violations are disagreements between the code and what the repository says of
it; `PROJECT.json` quotes the sentence for each.

**Disagreements without a run.** These were met while modelling and follow from a line or two
of the code; no run is spent on them.

* `BlockStore::Recover` asks tiers that are empty after a restart, and drops the metadata of
  blocks whose files are intact (`block_store.cpp:207`); `meta_store.h:34` says that a worker
  recovers its index.
* `EvictBlocks` takes candidates of all tiers from one policy and may free nothing in the tier
  it was asked for (`block_store.cpp:184`; `block_store.h:57`).
* Locations lost with the master, or with a worker that was only slow, are not rebuilt by
  heartbeats or registrations (`worker_server.cpp:174`; `design/metadata-design.md:305`).
* `dir_inodes_[parent]` on the id of a file enters a default inode for it
  (`inode_tree.cpp:268`; `inode_tree.cpp:297` says that files are not there).
* A FUSE write never updates the size (`fuse_operations.cpp:169`), so that what it appends
  cannot be read; `design/metadata-design.md:93` and `design/block-id-and-file-layout.md:198`, `:221`
  say that it does. `UpdatesAreExact` says nothing of the size after a FUSE write.
* A read behind the end of a short block takes the worker down (`storage_tier.cpp:145`).
  `ReadsAreExact` says which reads these are, and that there are no others.
* A write or a truncation beyond 1 PB is not refused and reaches the blocks at the beginning of the
  file (`types.h:39`; `design/block-id-and-file-layout.md:38` gives 1 PB as the largest size).
* Two threads that create the same block may put it in two tiers, as each tier refuses only what it has
  itself (`block_store.cpp:77`); the total then counts it twice, and the index may name
  a tier that has evicted it.
* Asynchronous cache and persist requests are answered OK and then all fail for want of an under
  file system (`data_mover.cpp:121`, `worker_server.cpp:86`).
* A persist creates, and so empties, its file: of a file persisted block by block only the last
  block remains, behind zeros. `TransferIsExact` states it.

**Bounds.** Three blocks are needed for two blocks at one frequency and a third at
another. Two tiers of two bytes hold one block of two bytes or two of one, so that
creation falls through to the slower tier, promotion finds room or not, and both
watermarks are crossed. Two threads are enough for each pair of operations to interleave;
the concurrent run leaves out removal and promotion, and has the one memory tier of the default
configuration (`config.cpp:10`), because `IndexedIsStored` does not survive them: a promotion takes no
account of a concurrent write, and two tiers may both take a block. `TierAccounting` is proved
for all of them. Two workers are needed
for one id to be taken for another; one block is enough, as the two indexes never relate
two blocks. Three inodes give a directory with a subdirectory and a file in it, or a
rename between two directories; with `Batch = 2` the third id needs a second
reservation, and after a crash one id is left to be given out. `inode_tree` assumes that
reservations of ids are committed and read back (`CounterFails = FALSE`); `inode_ids` shows what happens
otherwise. In `inode_tree`, `TreeIsSound` and `ImplementsFileTree` are about clients behind
FUSE, the other properties about both kinds. Two movers and two tasks let one thread sleep while the other takes its
task, and two callers let WaitAll or Stop run against a submission. Pages of two bytes and
files of three and two give a full page, a short one and an empty one; a cache of two pages
for four keys evicts; four calls are a rewrite, its readers and another invalidation. Blocks
of three bytes are the shortest that a read can begin behind the end of, past the position where
the length is zero; with two indexes a file has blocks of its own up to six bytes, and an offset of seven
is in the second byte of the first block again. Contents of one and four bytes give a write within a block and
one across a border with a short last block. A worker of six bytes fills up, and evicts. Two commands of two clients
overlap in every way; properties about one command alone compare with the state when it
began, which may be the result of any other. Faults and losses are bounded by one: each
failure path is taken, alone.

**Fairness.** `Cluster!Fairness` is weak fairness of the loops the processes run (heartbeat,
check, registration), of the master coming up again, of time, and of the execution of a
call that is not lost. Nothing is assumed of clients, crashes or losses. In `DataMover`,
`FairSpec` is weak fairness of each thread's steps, once it is in the loop or in a call: the
operating system schedules it. Nothing is assumed of callers that are not in a call, nor of
spurious wake-ups. `FairLocksSpec`, for the violated run, grants the code more: a thread that
waits for the mutex gets it in the end; the calls hang all the same. The other runs check
safety only.

**Deadlock** is checked in `block_store_seq`, `cluster`, `inode_tree` and `inode_ids`. The others
stop at a bound on calls or bytes, `data_mover` with its threads asleep or joined.

## 4. What is proved

`BlockStore_proofs`, for any threads, blocks, tiers, capacities, spans, watermarks,
failures and crashes:

* `TypesHold`: `Spec => []TypeOK`, including that no handle promises more bytes than lie
  behind it.
* `AccountingHolds`: `Spec => []TierAccounting`: a tier's byte counter is the number of
  bytes handed out, and never exceeds the capacity, in any interleaving.

The inductive invariant is `IInv == TiersInv /\ MetaOK /\ MapOK /\ ThOK`. Accounting alone
is not inductive: `Release` subtracts the capacity of a handle, which must be one of the
bytes counted, and a tier's set of handles must be finite for the count to be a number;
`TiersInv` adds both, and the thread variables' types are needed for the tier and the
size an allocation uses.

`Cluster_proofs`, for any workers, blocks, time-outs, crashes and restarts:

* `TypesHold`: `Spec => []TypeOK`.
* `IndexesNeverDisagree`: `Spec => []IndexesAgree`. It holds of the tables alone: each of
  the four operations of `BlockMaster` keeps it, `RemoveBlockLocation`, which the program
  never calls, included.
* `IdsStayOwn`: `Spec => []IdsAreOwn`. The invariant adds that ids below the next one are
  the only ones in use, and that every id held by a process, a report under way or a
  location is the master's id for that address until the master restarts.

`DataMover_proofs`, for any finite set of mover threads that is not empty, any callers and any
bound on tasks and spurious wake-ups:
`TypesHold`, `TasksStayInOnePlace` (`InOnePlace`), `WorkIsAlwaysSeen` (`WorkIsSeen`),
`WaitAllWaitsForAll` (`WaitAllIsABarrier`) and `StopWaitsForMovers` (`StopIsFinal`). The
inductive invariant ties the parts together: the mutex is held exactly by the thread whose
program counter says so; `active_tasks_` is the number of threads between taking a task and
counting it off; every task that has left the queue is finished or with exactly one thread; and
what a mover has found out about the queue stays true while it holds the mutex, so that one
about to sleep knows the queue to be empty. The barrier follows
because queue and counter are both looked at under the mutex that `Take` holds, and a task is
finished before it is counted off.

`PageStore_proofs`, for any threads, files, contents, page size and cache size: `TypesHold`,
`LruStaysSound` (`LruIsSound`), `PagesStayTracked` (`CachedIsTracked`), `StalePagesRaced`
(`StaleOnlyIfRaced`) and `ReadsStayExact` (`ReadCachedIsExact`). The lemmas about the list (moving an entry to the back, removing one,
dropping the front) carry that it names each key once; from it follows that the map is
finite and its size the list's length. Staleness is not inductive as stated: the invariant
adds what a reader carries between fetch and store (the page as it is, or a key that is
unsure), and that a page covered by a pending invalidation is in the index when it runs.
That a read of a clean file (`Clean`: never rewritten, no page of it written to the cache) is
exact is an invariant of its loop (`Exact`): the bytes so far are those of the file from the
offset on, the page asked for next is the one of the next byte, and every page of the file that
is cached or on its way is the file's own. `CopyLengths` and `CopyBytes` are one turn of the loop:
the position within the page, a page that ends before it, a short page, a full buffer.

`InodeTree_proofs` and `SoundTree_proofs`, for any names, depth of paths, sizes, batch of ids, failed commits and crashes:

* `TypesHold`: `Spec => []TypeOK`, for both kinds of clients.
* `IdsHold` (`IdsAreUnique`), `MemoryHolds` (`MemoryMatchesStore`), for both kinds of clients, and
  `TreeHolds` (`TreeIsSound`), behind FUSE. They assume `~CounterFails`: a reservation of ids is
  committed when it is asked for, and read back on a restart. The code goes on without, and the violated run `inode_ids`
  shows that ids are then given out again.

The invariant has five parts, each inductive with those before it. `Types`; `Numbers`: an id
given out is below the next one and below the bound in the store, and the bound in memory is
the stored one while ids are left in the batch; `Ids`: whatever is used as an id was given
out, so that the next id is new to every table; `Mem`: the directories in memory are the
store's, with the same entries; `Sound`: the store is a tree. `Mem` is not inductive without `Ids`:
a directory made under an id in use would take over its entries. The hard steps of `Sound` are
`Delete`, which takes what it finds from memory (`Subtree`) out of the store, and `Rename`: the
tree has no cycle afterwards because the new parent is not below the inode that moves, which is
what the kernel sees to. That no directory is below itself is stated as: no set of inodes other
than the root is closed under parents. Induction over numbers is `SetInduction`, about sets instead of
predicates, from the library's fact that `<` is well-founded; walks along a path
(`WalkStep`) and paths (`PathInduction`, below) rest on it.

`FileTree_proofs`: `TreeIsImplemented`, that `Spec => ImplementsFileTree`, from the same assumption. The
mapping takes the store alone: a path exists when the edges lead along it. `ViewHolds` shows that the
bound on the length of paths in `StoredPaths` leaves none out, since a path passes an edge once.
Then each commit is one step of `FileTree` at the path of its inode (`CreateStep`, `UnlinkStep`,
`MoveStep`, `ResizeStep`), and everything else, a crash and a recovery included, leaves the tree.
For a move, the paths through the moved edge are shown to be exactly the ones below the
new name, by induction on paths (`PathInduction`).

`FileSystem_proofs`, for any clients, workers, paths, contents that are sequences of non-zero bytes,
block size, number of block indexes and capacity, and any bound on calls and losses: `TypesHold` (`TypeOK`) and
`BytesAreOwn` (`NoForeignBytes`). What a client has received says nothing of what it will receive, so the
invariant `Inv` speaks of the workers: every byte they hold is zero or was written to that inode at its
position (`Genuine`), in blocks of at most the block size, within the capacity (`Storage`); an
inode id has one name and is below the next one (`Namespace`), so that blocks left behind by a
deleted file are never those of a new one; a location names a worker; and a client's record, a late
request included, is of the call it began with (`ClientsOK`). A position stands for all those a multiple
of `FileLimit` away (`Folded`), and `PlacesDiffer` and `StoredAt` are the arithmetic of it: two positions have the same
place in the same block only if they are that far apart. `DiesOK` is the death of a worker. The steps that matter are `WriteBlkOK`
and `LateWriteOK` (what is stored is what was sent, at its position, or zeros where the block is
new), and `ReadBlkOK`. Two `CASE` expressions of an earlier form of the module had arms that
overlap, which TLC takes in order and TLA+ does not; the proof did not go through, and they are
alternatives with guards of their own now.

The assumptions are the named `ASSUME`s of the modules, which TLC evaluates on each run.

Only model-checked are:

* liveness (`DownIsNoticed`, `EveryTaskRuns`), which is out of the prover's reach;
* what recursive operators compute (the policies' reference in `CacheManager`, and so the runs
  of `BlockStore` that compare with them): a module with a recursive operator cannot be proved about;
* `ImplementsCache`, `IndexConsistent`, `PolicyOffersCached` and `TotalIsExact`, which hold between the calls
  of one caller only, and `IndexedIsStored`, which holds of several only with one tier and without removal and
  promotion;
* `ReadsAreExact` and `UpdatesAreExact`, about whole commands that go from block to block and server to server;
* `Transfer`.

## 5. Not modelled

* The journal, which nothing calls, and MountTable, whose `Resolve` has no caller in the
  program: neither has an effect on another part.
* Configuration, status, logging and metrics: no state a property depends on. The encoding of
  inodes (`inode_entry.h`) is taken to be lossless.
* The worker's `ReadPage`: its PageStore has no fetcher, so that it fails unless the page was
  written, and nothing writes pages. `GetWorkerStatus`, `ListStatus`, `stat`, `ls` and the
  like only read. `UntrackFile` and `Clear` of PageStore have no caller.
* Errors of the disk itself under StorageTier (failed `pread`, `pwrite`, `malloc`), and what a
  crash of the machine takes from a log that was not synced.
* Widths of integers in `FileSystem`: block indexes are `uint32_t` before the mask, which matters from 2^58
  bytes on, and inode ids are taken to fit into 40 bits.
* Directories in `FileSystem`: a deleted directory leaves the locations of its files' blocks,
  as does a file whose size was never set; they lead to no other file (`NoForeignBytes`
  covers the latter), as ids are not reused.
* FUSE's table of open files, which is written and never read, and the kernel's own caches.
