# LazyFS: a TLA+ model of the page cache, the files, their names and the faults

LazyFS is a FUSE file system that keeps every write in its own page cache until
the application calls `fsync`, so that a crash or a *clear-cache* command loses
exactly the data that was not synced, and that injects such losses where a user
asks for them. What makes it useful is a contract:
readers see what was written, `fsync` makes it durable, everything else is lost
on demand, and the tool can say in advance what would be lost. The modules here
state that contract and check that the code keeps it.

## Inventory

| Component | State | Operations | Interacts with |
|---|---|---|---|
| `CustomCacheEngine`, `Page`, `BlockOffsets` (`libs/libpcache/src/engine`) | preallocated pages, the free list, per owner a page set, an ordered block map and a list of pages with space, the LRU list | `allocate_blocks`, `get_blocks`, `sync_pages`, `remove_cached_blocks`, `get_dirty_blocks_info`, eviction | called by `Cache` under the engine lock; writes the underlying file on sync |
| `Cache`, `Item`, `Data`, `BlockInfo` (`libs/libpcache/src`) | per inode: block table, readable offsets, sync flag, metadata; the path to inode map; one lock per item | `put_data_blocks`, `get_data_blocks`, `sync_owner`, `remove_cached_item`, `rename_item`, `clear_all_cache`, `report_unsynced_data` | called by the handlers; calls the engine |
| data path (`lfs_write`, `lfs_read`, `lfs_truncate`, `lfs_fsync` in `lazyfs/src/lazyfs.cpp`) | none of its own; size in the item, bytes in cache and file below | block loop with read-modify-write, sparse fill, write-through | cache, underlying file, fault triggers |
| names (`lfs_getattr`, `lfs_create`, `lfs_link`, `lfs_unlink`, `lfs_rename`, `lfs_recursive_rename`) | the path to inode map, the link count of each item | look up, create, link, unlink, rename a file or a directory | cache items, underlying directory; every other handler begins with `lfs_getattr` |
| fault injection (`lazyfs.cpp`, `faults.cpp`) | fault tables, operation counters, the pending write | crash, clear, torn-seq and torn-op triggers inside the handlers | handlers; ends the process or clears the cache |
| fault commands (`fht_worker` in `main.cpp`) | the FIFO, the buffer of a read, the notifier | clear, checkpoint, usage, report, add faults | command lock, cache, fault tables |
| configuration (`config.cpp`) | constants, the injections | parse, validate | everything; fills the fault tables |
| FUSE wrapper and pass-through handlers | none | forward a system call | kernel |

What is hard about this code:

* **Redundant state.** Five structures say where a block is, and three flags say
  that it is unsynced. Each operation updates its own subset.
* **A full cache.** The cache fills in the middle of a write; part of the data is
  then below and part in the cache.
* **Byte arithmetic.** Partial blocks at both ends of a write, sparse writes, a
  file below that is shorter or longer than the cached size, lengths and last
  indexes that differ by one.
* **Failure.** A crash or a clear may come between any two operations, a crash
  also between the system calls of one fsync.
* **Interleaving.** Handlers release the item lock between reading the size and
  using it, and check a block and fetch it in two lock sections. An item is
  created in one section and gets its size in the next. Handlers of several files
  share the fault tables and one pending write.
* **Two ideas of a file.** The kernel below decides what a name leads to; the map
  of paths, the link counts and the items follow it in later steps, and inode
  numbers are used again.
* **Commands without boundaries.** What users write to the FIFO between two reads
  of the worker arrives as one buffer and is parsed as one command.
* **Handlers inside handlers.** A sparse write, a growing truncate and an open with
  `O_TRUNC` run another handler with its own triggers and counts, under the lock that
  they hold.
* **Counting.** A fault is promised at an exact call; the counters are read at
  other points of the call than the ones where they are incremented.

What makes each component correct: the engine's structures agree and no page is
lost or shared; an item that says it is synced is synced, and the report lists
every loss; the data path is a POSIX file whose only way to the disk is fsync; a
path maps to the item of the inode it names; a fault does what its parameters say,
when they say it, and leaves the rest alone; every command and every call ends.

## Modules

| Module | What it is |
|---|---|
| `BlockStore` | abstract: a bounded store of blocks with a volatile and a durable content |
| `PageCache` | `Cache` items and `CustomCacheEngine`: the detailed model |
| `MCPageCache` | instances of `PageCache` for TLC |
| `PageCacheProofs` | theorems about the invariants of `PageCache`, in the configuration of the README and in every configuration, and that it implements `BlockStore` |
| `FileBytes` | byte sequences and `pread`, `pwrite`, `ftruncate` of the underlying file system (external) |
| `PosixFile` | abstract: one file with a volatile and a durable content, as POSIX describes it |
| `LazyFile` | the data path of one file, byte by byte, with fsync in steps |
| `LazyFileProofs` | theorems about `LazyFile`: reads, writes, syncs, and that it implements `PosixFile` |
| `NamedFiles` | abstract: names that lead to files with a content and a durable content |
| `CacheNames`, `MCCacheNames` | the path to inode map, the items and their links, handlers cut at their lock sections |
| `CacheNamesProofs` | theorems about the path to inode map of `CacheNames` |
| `CacheLinksProofs` | theorems about the link counts of its items |
| `CacheFilesProofs` | theorems about its data: syncs, and that it implements `NamedFiles` |
| `TornSeq`, `MCTornSeq` | the torn-seq fault: several files, their handlers interleaved |
| `TornSeqProofs` | theorems about `TornSeq` |
| `TornOp` | the torn-op fault: the check of its parameters, the counter and the offset arithmetic |
| `FaultCommands`, `MCFaultCommands` | the injections of the configuration file, the FIFO and its worker, the crash faults; composed with `TornOp` |
| `FaultCommandsProofs` | theorems about `FaultCommands` and `TornOp` |
| `ClearFault`, `MCClearFault` | the clear-cache fault, the command lock and the FIFO worker |
| `ClearFaultProofs` | theorems about `ClearFault` |

### PageCache

State: `contents`, `blocks`, `data_synced` are the items; `page` is the array of
pages (owner, dirty flag, slot of each block, free slots, data); `free_pages`,
`mapped`, `owner_pages`, `ordered`, `owner_free`, `lru` are the members of
`CustomCacheEngine`; `disk` is the underlying file system; `reply` is what the
last read returned; `terminated` says that an exception ended the process.

| Action | Code |
|---|---|
| `PutHit`, `PutThrows` | `allocate_blocks`, block already cached; `.at ()` may throw |
| `PutOwnerPage`, `PutFreePage`, `PutEvict` | `_get_next_free_page`: a page of the owner with space, a free page, the least recently used page; then `get_allocate_free_offset`, `update_block_data`, `_update_owner_pages`, and `set_block_page_id` of the item |
| `PutFull`, `WriteThrough` | no page: the item forgets the block, `lfs_write` calls `pwrite` |
| `CreateItem` | `lfs_getattr` of a file without an item |
| `ReadHit`, `ReadMiss`, `GetStale` | `lfs_read` of one block, `get_data_blocks`, `get_blocks` |
| `SyncOwner` | `sync_owner` and `sync_pages` |
| `RemoveItem`, `ClearAll` | `remove_cached_item`, `clear_all_cache` |

Abstractions. The content of a block is one value; bytes are the subject of
`LazyFile`. The free list is a vector used as a stack; the model counts how often
a page is in it and takes any free page. `Page::sync_data`, called on eviction,
opens the inode number as a path: the open fails and nothing is written. With
more than one block per page, `get_block_data` copies the requested length minus
the slot's offset, so a block in the second slot reads as whatever the caller's
buffer held: any value. Eviction is modelled for one block per page.
`rename_owner_pages` has no caller and `truncate_cached_blocks` is not reached
(`lfs_truncate` calls `truncate_item` with the path, under which there is never
an item), so neither is an action. A call is atomic: the item lock is held over
it, a page has one owner, and the free list is protected by the engine lock.

### LazyFile

State: `size` (cached metadata), `blk` (the cached blocks: bytes, last readable
byte, dirty flag), `disk` (the file below), `others` (pages in use by other
files), and of a `sync_pages` at work `syncing` and `todo`, the blocks it still
has to write.

| Action | Code |
|---|---|
| `Write` | `lfs_write`: the fill of a gap, then the block loop |
| `TruncateGrow`, `TruncateShrink` | `lfs_truncate` |
| `SyncStart`, `SyncBlock`, `SyncEnd` | `sync_pages`: the dirty pages are collected and marked clean; `pwritev`; `ftruncate` |
| `ClearCache`, `Crash` | `command_fault_clear_cache`; the kill of `trigger_crash_fault` in another handler, followed by a restart |
| `OtherFiles` | pages taken and given back by other files |

`lfs_read` changes nothing, so it is an operator, checked in every state for every
offset and length. The kernel holds the inode lock over a write, a truncate and an
fsync of one file: a write and a truncate are atomic and exclude a sync, a read and
a kill come between the steps of a sync. A clear waits for the command lock, which
the sync's handler holds shared; a kill waits for nothing. `SyncBlock` writes one
block where the code writes a run of them with one `pwritev`: a kill may end such a
call between two blocks, so the model has every state that a run has. `PosixFile`
has fsync as the only way to the disk, so the refinement is checked where every
block has a page; where the cache is full and writes go through, `WriteIsExact` and
`FsyncIsExact` say what each call does instead. `PosixFile` has no choice in a write or
a truncate: their bytes, zeros in a gap, and every other byte as it was; and
`CallsArePosix` says that each step of the code is the call of its own name with its
own arguments, not just some call. `FsyncPart` makes the content durable from its
beginning on. A crash in the middle of a sync may
bring back bytes past the end of the content (an earlier, longer version of a block
is written before `ftruncate` cuts it); `PosixFile` leaves open what these are. Not
modelled: `direct_io` (a handler that forwards), system calls that fail, and the
split of a run of more than `IOV_MAX` blocks, which changes none of the states.

### CacheNames

State: `dir` (the names of the directory below), `disk` (per inode, size and a tag
that stands for its data), `mapping` (`Cache::file_inode_mapping`), `item`
(`Cache::contents`: links, size, tag, dirty) and `call`, per FUSE thread the
handler it runs, where it is, and the values it read in an earlier lock section.

| Action | Code |
|---|---|
| `BeginGetAttr`, `BeginWrite`, `BeginFsync`, `BeginNames` | the kernel's lookup, then `lfs_getattr` up to the search for the item |
| `BeginCreate` | `lfs_create` up to `lfs_getattr` |
| `GetAttr`, `GetAttrNew`, `GetAttrFill` | the three lock sections of `lfs_getattr`: map and search, `put_data_blocks`, `update_content_metadata` |
| `CreateItem`; `WriteSize`, `WritePut`, `WriteStore`; `SyncOwner` | the rest of `lfs_create`, `lfs_write`, `lfs_fsync` |
| `Link`, `LinkName`; `Unlink`; `Rename`; `RenameDir` | `lfs_link` in two steps, `lfs_unlink`, `lfs_rename`, `lfs_recursive_rename` |
| `Clear`, `Checkpoint` | `clear_all_cache`, `full_checkpoint` |

What the kernel and libfuse hold over a call is in the guards, named in the comments
there. The map is a hash table: `first` in `Clear` and `Checkpoint` stands for the
order of a walk over it, any order. A write replaces the tag of the whole file; its
bytes are the subject of `LazyFile`.

The handlers and commands have no guard that the code, the kernel or libfuse does not
provide. What the code needs and nothing provides is stated apart, under "What is
assumed" in the module, where calls begin and are scheduled, and each assumption is
dropped with a member of `Disturbances`:

| Assumption | Without it |
|---|---|
| `item_at_rest`: no call looks for the item of a file while another makes it; `one_name`: a file is written and synced under one name at a time | `race` |
| `other_file`: a link of a file is not renamed over another link of it | `relink` |
| `below`: unlink and rename of the file system below succeed | `fail` |
| `nobody_waits`: no clear comes between a lookup and the call it is for | `clear` |

Each disturbance is a behaviour of the real system. `MappedToOwnInode` needs only the
last two assumptions: it is proved without the first two, and `CacheNamesOverlap.cfg`
checks it (`NamesInv`) without them. The other properties of `CacheNames` need each of
the four: TLC refutes `ItemCountsLinks`, `SyncIsExact` and `FilesSpec` under every single
disturbance. `names_race` shows the one that an application meets most easily. The
others are listed under "Disagreements without a run".

### TornSeq

State: the members of `ReorderF` per file (`persist`, `occurrence`, `counter`,
`group_counter`), `pending_write` and `injecting_fault` of `LazyFS`,
`crash_faults` (the files with an entry under "after write"), `pc` per file, what
the fault has written (`persisted`), and `runs`, a history of the writes between
fsyncs from which the properties count groups for themselves. A write is
`CountWrite` (`get_and_update_reorder_fault`), `CountGroup` (the section under
`write_lock`), `PersistWrite` (the rest of `persist_write`) and `Trigger`
(`trigger_crash_fault`); an fsync is `RestartCounter` and `ForgetPending`. The
kernel holds the inode lock over a write and over an fsync, so a file has one
handler at a time. Every call of `lfs_write` counts, the fill of a sparse write
too. The calls of `pwrite` succeed. `configured` is the sort in the configuration
parser. The report that `trigger_crash_fault` logs is left out.

### FaultCommands and TornOp

`TornOp`: `valid` is `SplitWriteF::validate`, `split_write` the counter and the
pieces that the code writes (`custom_piece`, `equal_piece` are the two branches of
the offset arithmetic; the running offset of the code's loop is the recursive function
`bytes_before`); `part` says, independently, what a part is.

`FaultCommands` EXTENDS it. State: `fifo` and `worker` (the loop of `fht_worker`),
the tables `fault`, `seqs`, `clears` (`faults`) and `crash` (`crash_faults_before_map`
and `crash_faults_after_map`), `terminated` (an uncaught exception), `killed` and
`killer`, `unsynced`, `hosts` (the calls that run `lfs_write` inside), the history
`done` of handlers run, and of a user who waits for a notice `awaiting` and `leftover`.

| Action | Code |
|---|---|
| `load_config` (in `Init`) | `Config::load_config`: per kind the keys, the checks and the one-per-file rule |
| `OpenFifos` | `open` of the two FIFOs; the notifier's waits for a reader |
| `ReadCrash`, `ReadTornOp`, `ReadTornSeq`, `ReadClear`, `ReadCheckpoint`, `ReadOther` | one `read` and the branch of `fht_worker` for its buffer, with `add_crash_fault`, `add_torn_op_fault`, `add_torn_seq_fault` |
| `Clear`, `Checkpoint`, `Notify` | `command_fault_clear_cache`, `command_checkpoint`, which wait for the calls under way; the notice |
| `Call` | a handler: `trigger_crash_fault` before, the work with `split_write`, `trigger_crash_fault` after |
| `BeginHost`, `Fill`, `EndHost` | a sparse write, or a truncate that makes its file longer: its first trigger, the whole `lfs_write` that it runs for the missing bytes, its own work and last trigger |
| `Send` | a user's `echo` (external) |

A command is a record of its keys and values instead of a string; `cut` says what the
newline and the next command do to the last value of the one before, and `value`
that a later key overrides an earlier one. A regular expression is the set of paths
it matches, or `BadRgx`, one that does not parse: the worker throws for it as `from`, a
handler as `to`. `stoi` throws above `MaxInt`. `load_config` takes the injections one
after the other and drops those of a file that has one: `load_*` say the outcome, the
first usable injection of a file.

### ClearFault

State: `counter` of the `ClearF`, per FUSE thread `pc`, the `role` of its call and
what runs `nested` in it, `shared` (the threads that hold `cache_command_lock` shared),
`worker`. A matching call is `BeginMatching` (first trigger), `Enter` (lock), `GetAttr`
(`lfs_getattr`, which takes the lock shared once more), `Work`, `EndTrigger` (second
trigger), `Return`. A sparse write runs `lfs_write` inside, with both triggers and under
its own shared lock (`BeginNested`, `ReturnNested`); so does a growing truncate, and an
open with `O_TRUNC` runs `lfs_truncate` (`BeginHost`). `Clear` is
`command_fault_clear_cache` in a handler, `BeginCommand` and `RunCommand` the worker. An
exclusive section is one step. `fault` is the configured `ClearF`; its operation is one
that the kernel serialises and that runs no other (fsync), one that it does not (read),
write and truncate, which run inside others, or unlink, which passes "before" to its
second trigger too. Calls succeed: handlers that return early on an error skip the
second trigger.

## Runs

| Run | Shows |
|---|---|
| `cache_one_block` | recommended configuration, 2 files of 2 blocks, 3 pages: structures agree (`TablesAgree`), pages are free or owned once (`FreeXorOwned`), the report lists every block a crash loses (`LossIsReported`), a set sync flag means durable (`SyncFlagMeansDurable`), no exception (`NeverThrows`), the inductive invariant (`EngineInv`, `TypeOK` in it), and the cache implements `BlockStore` (`StoreSpec`) |
| `cache_eviction` | 2 pages for 4 blocks with eviction: pages are free or owned once, no entry leads to a block that is not cached and the LRU list has each used page once (`PagesInv`, inductive, with `TypeOK`, `FreeXorOwned` and `LruListsUsedPages` in it), and who reads an evicted block gets what the disk has of it, never another block (`EvictionShowsTheDisk`) |
| `cache_two_blocks` | 2 pages of 2 slots, 2 files of 3 blocks: slots hold one block each, also where a full page is offered again (`SlotsHoldOneBlock`) |
| `file_is_posix` | a page for each block, 2 blocks: what differs from the disk is in a dirty block or still to be written, also when a crash comes between the steps of an fsync (`UnsyncedIsDirty`, by the inductive invariant `FileInv`, `TypeOK` in it); `LazyFile` implements `PosixFile` with fsync as the only way to the disk (`PosixSpec`), each call as the POSIX call of its name and arguments (`CallsArePosix`): no byte beside a write, no stale byte in a gap or after a truncate and a regrowth |
| `file_full_cache` | 2 pages, a competing file, 3 blocks: reads return the content (`ReadsReturnContent`); whatever write comes next gives the file its bytes and changes below nothing but bytes of the write (`WriteIsExact`); an fsync leaves exactly the content below, and readers of uncached blocks do not see it at work (`FsyncIsExact`) |
| `cache_names` | 3 names in 2 directories, 2 inode numbers, 2 threads, no disturbance: the map leads to a file's own inode (`MappedToOwnInode`), an item counts the names of its file (`ItemCountsLinks`), a file below changes only into what its readers see and an fsync leaves it so (`SyncIsExact`), and the names and contents implement `NamedFiles` (`FilesSpec`), by the inductive invariant `FilesInv` (with `LinksInv`, `NamesInv` and `TypeOK` in it) |
| `names_race` | violated: an fsync between the creation of an item and its size truncates a synced file (`SyncIsExact`) |
| `torn_seq` | every list of up to 3 writes and 0, occurrence 0 to 2, 3 runs of up to 3 writes, and two files that interleave and do not list the first write: counters, pending write and persisted writes agree with the history of writes (`TornInv`, inductive, `TypeOK` in it), only the listed writes of the right group are persisted (`OnlyTargetPersisted`), all of them before the crash (`TornAsConfigured`), and the crash comes (`FaultFires`) |
| `fault_commands` | every two commands, in one buffer or in two, after every injection: a crash comes only where a user asked for it (`CrashAsAsked`), a torn write is the one asked for and has its parts, the rest of an uneven division at the part that is listed last (`TornAsAsked`), no byte outside the buffer is written (`WithinWrite`), a configured fault is not displaced (`ConfiguredFaultFires`), an exception ends the process only if a command was sent that has in itself what the code throws for, whatever it met in a buffer (`NoNewException`), a notice comes after its clear (`NoticeMeansCleared`) and does come (`ClearIsAnswered`) |
| `crash_two_paths` | violated: a crash fault for a rename ignores the source it was given (`TwoPathsAsAsked`) |
| `clear_fault` | 3 threads, 3 calls, 1 command; timing before on calls that overlap or nest, without a crash where no trigger comes under the lock (fsync, read); timing after with a crash on fsync and write: injected once (`InjectedOnce`), at the configured run of the handler (`InjectedAfterOccurrence`) and without fail (`FaultInjected`); calls return (`CallsReturn`) although they take the command lock more than once, commands run (`CommandsRun`) |
| `clear_fault_hangs` | violated: a fault without a crash, with timing after, waits for the lock of its own handler (`CallsReturn`) |

Bounds. Two owners are needed for a page to change hands, two blocks per owner
for an owner to lose one page and keep another, and fewer pages than blocks for
the cache to fill; three blocks per file with two slots per page make a page
overflow. Two contents tell a stale block from a fresh one. `IO_BLOCK_SIZE = 2`
gives a first, a last and a whole block; with `MaxSize = 5` the third block is
partial at the end of the file; `file_is_posix`, whose properties try every write and
content, has two blocks; `MaxWrite` 2 and 3 let a write cover parts of two
and of three blocks. Byte 0 equals the fill byte and byte 1 does not.

Three writes in a run and three runs let a group end before its last listed write,
a run stay at one write and a later group follow; two files are enough for one to
take the other's pending write. Sizes up to 7 in up to 3 parts divide with every
rest, and are smaller than the number of parts too. Faults outside the accepted
parameters are among the ones given, so that the check of the parameters matters.

Three names in two directories give a rename within and across directories, a
directory renamed onto another, two links of one file and a third name to move over
one of them. Two inode numbers make a number free for reuse while the other is in
use. Two threads suffice for every pair of lock sections to interleave; a third would
only repeat one of them, since a race needs one to create an item and one to use it.
`MCCacheNames` uses the symmetry of threads and of inode numbers, which no definition
tells apart.

Commands that meet in a buffer act on each other only through the last value of the
one before and the keys of the one after, so two commands of any two kinds show every
meeting; three of a kind check that a buffer is cleared. `MaxCalls = 2` runs of handlers before
the last call begins put a call, or the two halves of a sparse write, before and after
each command. `MaxInt` is above every number of the commands but the two that are there
to exceed it. Three threads allow one to clear, one to hold the lock and one to arrive.

Fairness. `TornSeq` and `ClearFault` assume that a handler that has begun goes on
when it can (weak fairness of its steps): FUSE runs it on a thread that only waits
for locks. `FaultCommands` assumes that the FIFO worker runs (weak fairness of `Worker`) and
that a sparse write which has begun goes on (`GoOn`; a clear waits for it), but not that
anybody opens the notifier. No call of the application is assumed.
`cache_command_lock` prefers
readers (the default of glibc), so a command may wait as long as calls overlap;
`CallsReturn` and `CommandsRun` are about finitely many calls (`MaxCalls`). The
other modules have safety properties only.

Deadlock is checked except where a run allows the process to end (an exception, a
crash fault), where its calls are bounded, or where it has no such question.

## Proofs

`PageCacheProofs` proves, for any sets of owners, blocks, pages and contents,
from the named assumptions of `PageCache` and `OneBlockNoEviction` (one block per
page, `apply_eviction` off):

* `EngineInvariant`: `Spec => []EngineInv`;
* `BlockTablesAgree`, `SyncedIsDurable`, `EveryLossIsReported`,
  `NoOperationThrows`: the properties of `cache_one_block`.

None of those properties is inductive alone. `LossIsReported` needs the flags to
agree (`FlagsAgree`: the page's dirty flag is the opposite of the block's synced
flag, a dirty page makes its item unsynced, a clean page equals the disk); that
survives a sync only if the sync visits every cached block, which is
`TablesAgree`; that survives an allocation only if a free page is empty and
nobody's (`FreeXorOwned`, `PagesHoldOneBlock`); and a removal only if no item
keeps a block of a page it lost (`OwnersHaveItems`). `EngineInv` is their
conjunction with `TypeOK`. There is one lemma per action; `RemoveInv` serves
removal and clear, and `Disabled` shows which actions the configuration rules out.

From the named assumptions alone, for any number of blocks per page, with eviction
and without, it proves

* `PagesInvariant`: `Spec => []PagesInv`, and from it `TypeCorrect`;
* `PagesAreFreeOrOwned` (`FreeXorOwned`), `SlotsAreExclusive` (`SlotsHoldOneBlock`),
  `LruIsComplete` (`LruListsUsedPages`);
* `EvictedReadsTheDisk` (`EvictionShowsTheDisk`), for one block per page, which is
  where the model has eviction.

`PagesInv` keeps what survives when the block tables do not agree any more. A page that
is listed as having space left belongs to the owner that is asking, and a page of nobody
is as `reset` left it (`PagesHaveOwners`): so a slot that is handed out holds no block.
The LRU list has no page twice (`LruHasNoCopies`; the length of the list, in
`LruListsUsedPages`, is not inductive), and an entry of the ordered map leads to a
block that is cached where it says (`EntriesAreCached`; eviction takes too many entries
out, never too few). Every allocation shares the lemma `StoreInv`: what a page must be
like to be taken (`MayTake`), and that the free list has it no more. With two blocks
per page `EntriesAreCached` is false, since a block without a slot has an entry.

From `EngineInv` it proves, for finitely many pages, `PageCacheImplementsStore`:
`Spec => StoreSpec`, in the configuration of the README. The mapping reads the volatile
content of a block off its page and the durable one off the disk. A put, a
write-through, a sync, a removal and a clear each map to the operation of the store
with that name, the reads to a stutter; what `EngineInv` says of the page that a
block is on is what makes each of them change that block and no other. That the
pages are finite is used to count them: the store's bound on its blocks.

`LazyFileProofs` proves, for any size of blocks, of the cache and of the file, any bytes
and any pages that other files take,

* `FileInvariant`: `Spec => []FileInv`, and from it `TypeCorrect` and
  `UnsyncedBytesAreDirty` (`UnsyncedIsDirty`);
* `ReadsAreExact` (`ReadsReturnContent`), `WritesAreExact` (`WriteIsExact`),
  `FsyncsAreExact` (`FsyncIsExact`);
* `CallsImplementPosix` (`CallsArePosix`) and, from it,
  `FileImplementsPosix`: `Spec => PosixSpec`, if there is a page for every block of the
  file whatever other files take (`PageForEveryBlock`, as in `file_is_posix`): a block
  without a page is written below at once.

`UnsyncedIsDirty` speaks of the bytes that the cache and the disk both have; it is lost
when the disk is too short for a byte that it alone should have. `FileInv` therefore says
that a byte in no page, or in a page that was written, is below, and that the disk reaches
that far (`CleanIsBelow`), and that a page has the bytes of the file readable
(`BytesReadable`), since the readable offset decides how much a sync writes of the last
block of a run. `SyncTakesAll` holds because no write comes between the blocks of a sync.
A write is followed through its two block loops: `Covered` says which bytes of a
block a call has, `PutBlock` and `PwriteBlock` what a block then holds in the cache or
below, `WriteBlocks` that a loop gives the file the bytes of its buffer and leaves the
others, or makes them zeros past the old end, and `LfsWrite` joins the fill of a gap and
the write. A sync takes the least block that is left, so the file below has no hole before
what it writes (`SyncBlockIsPart`). The block loops of the model are recursive functions;
the proofs derive that they exist (`Recursion`) and go through them by `Induction`, both
from `WFMin` of the library.

`CacheNamesProofs` proves, for any finite set of names, any inode numbers and any
threads, however calls overlap and whatever is renamed (the disturbances `race` and
`relink`), if unlink and rename below succeed and no clear comes between a lookup and
its call:

* `NamesInvariant`: `Spec => []NamesInv`;
* `PathsLeadToOwnInode`: the map never leads a path to another file's inode.

`MappedToOwnInode` is not inductive: an `lfs_unlink` that finds no item leaves its
entry in the map, an `lfs_rename` whose old path has no entry leaves the new path's
entry as it is, and an `lfs_link` may enter a name that another call has looked up
by then. `NamesInv` says why none of this happens. From its `lfs_getattr` on, a call
that changes names has the entry of its name in the map, and an unlink has the item
too (`finds_name`); its names stay what they are below (`keeps_name`), because one
call changes names at a time (`OneChangesNames`) and a name that is removed or
renamed has no other call; and a name that is being linked has no call before
`lfs_link` returns (`NewNameUnused`). The data steps share one lemma (`DataStep`),
`lfs_getattr` has its own (`LooksUp`), and each step that changes names one.

`CacheLinksProofs` and `CacheFilesProofs` go on from there, under all the assumptions of
the table above (`Disturbances = {}`), which the code does not ensure:

* `LinksInvariant`, `ItemsCountLinks` (`ItemCountsLinks`): an item counts the names of
  its file;
* `FilesInvariant`, `SyncsAreExact` (`SyncIsExact`): a file below changes only into what
  its readers see, and an fsync that returns left it so;
* `CacheImplementsFiles`: `Spec => FilesSpec`.

`ItemCountsLinks` is false in the middle of a call, so it counts the names without the
one that is under way. It survives `lfs_getattr` because the count that the call read
below is still that of the file (`counts_links`), and because one call at a time makes
the item of a file (`OneMakesItem`). `FilesInv` adds what a call that works on the data
of a file knows: it is alone there (`OneDataCall`: the kernel's inode lock for one name, the
assumption `one_name` for the others), the file has
its item, and the size that it read is the item's (`data_call`); an item that is not
dirty shows the file below (`clean`). In the refinement a create takes effect when it
begins, a link with `LinkName`, a write with `WritePut`; renames, unlinks, syncs,
checkpoints and clears are one step of `NamedFiles` each, and every other lock section
changes neither the names nor what a reader sees (`SameFiles`). The names are
finite because they are counted (`IsFiniteSet(Paths)`).

`FaultCommandsProofs` proves, for any files, paths, injections, calls and commands with
keys that the parsers know (`FaultCommandsAssumption`: `CommandOK`), however many of them
a read takes from the FIFO:

* `Notice` (`NoticeMeansCleared`), `NoNewExceptions` (`NoNewException`);
* `CrashesAsAsked` (of calls on one path: `crash_two_paths` refutes it for rename),
  `TearsAsAsked`, `TearsWithinWrite`, `ConfiguredFaultsFire`: the other safety
  properties of `fault_commands`; `TypeCorrect`.

`TornAsAsked` excludes commands that end with their file and are sent with torn-op
commands that have other keys: those may meet in one buffer and mix.
`ConfiguredFaultFires` counts the runs of `lfs_write`, those that fill a gap too;
counted as the application issues writes it is false (`IssuedWriteIsTorn`, below).

`FifoInv` says that what is in the FIFO was sent. `NoticeInv` adds where a clear may be
while a user waits for its notice: last in the FIFO, or read with nothing behind it.
`CrashInv` traces a crash fault to a command, also when the keys of two commands met in
one buffer: the one whose key won was complete, so it named its operation itself. `TornInv`
traces a fault of the table to its injection or command, and says that its parameters
were checked; from that the arithmetic lemmas (`Pieces`, `TearWrites`) derive that the
pieces of `split_write` are exactly the parts that were asked for, with the rest of an
uneven division, and lie in the buffer. `ConfiguredInv` adds that no command
replaced a fault of the configuration file and that its counter is the number of runs of
`lfs_write`. A call that runs another handler is in `hosts` between its triggers
(`HostsInv`), and each run of a handler inside or outside one shares its lemmas.
`bytes_before` and `without` (the LRU list of `PageCache` without some pages) are
recursive functions: their existence and their values at every number are derived in
the proofs from `WFMin` of the library, with sets for the induction hypothesis.

`TornSeqProofs` proves, for any files of which one has a fault, or whose lists do not
hold the first write (`Alone`), and for any occurrence and number of writes and syncs:

* `TornInvariant`: `Spec => []TornInv`;
* `OnlyTheTargetIsTorn`, `KilledIsTornAsConfigured`: the two safety properties of
  `torn_seq`.

The code knows three counters and one pending write; the properties speak of the
history of writes. `TornInv` relates them: `follows_runs` ties the counters to the
history, `PendingIsFirst` the pending write to the first write of the run under way,
and `persisted_so_far` the writes on the disk to the listed ones up to the current
number. `SortAssumption` states what the proof needs of `std::sort`, that the last
number of the list is the largest (TLC evaluates it for the configured lists): the
sort itself is a recursive operator of the community modules. Two faults of
which one lists the first write share the pending write and break `TornAsConfigured`,
hence `Alone`.

`ClearFaultProofs` proves, for any threads and any occurrence:

* `FaultIsInjectedOnce`, for faults with timing before, or after with a crash
  (`Expected`): an injection leaves the counter past the occurrence, or ends the
  process, so there is no second one (`OnceInv`);
* `AfterIsInjectedOnTime`, on fsync and write (`Serialised`), sparse writes and growing
  truncates included: the begun and finished runs of the handler differ by the one or,
  inside a sparse write, the two under way, and a handler that found the fault at its
  end has ended the process (`SerialInv`).

Unlink is excluded from both, as its second trigger counts too. `TypeCorrect` holds for
every fault: a call counts at most twice (`CountsInv`, over the calls that have still to
work and to end), which bounds the counter by the number of calls.

Only model-checked:

* liveness (`FaultFires`, `FaultInjected`, `CallsReturn`, `CommandsRun`,
  `ClearIsAnswered`): fairness is out of the prover's reach;
* with several blocks per page, what `EvictionShowsTheDisk` says (a sync may write
  anything for a block without a slot).

The violated properties are refuted on a run, not proved false.

## Configurations beside the runs

Seven configurations are no runs of their own: each asks a question of a run above
once more, of other faults or calls. TLC refutes the property of the first six and
finds no error in the last.

| Configuration | Module | Shows |
|---|---|---|
| `ClearFaultHangsNested.cfg` | `MCClearFault` | `CallsReturn` is violated: with timing before and no crash, the inner `lfs_write` of a sparse write waits for the lock of the outer one (`lazyfs.cpp:1032`, `211`) |
| `ClearFaultHangsUnlink.cfg` | `MCClearFault` | `CallsReturn` is violated: with timing before and no crash, the second trigger of unlink waits for the lock of its handler (`lazyfs.cpp:2169`) |
| `ClearFaultSparse.cfg`, `ClearFaultUnlinkAfter.cfg` | `MCClearFault` | `InjectedByThen` is violated: a fault with timing after never comes if the configured write is sparse, since its inner write moves the counter on (`lazyfs.cpp:189`, `1032`), and never comes on unlink, which passes "before" twice (`2169`); `README.md:137` of the repository promises it |
| `FaultCommandsIssued.cfg` | `MCFaultCommands` | `IssuedWriteIsTorn` is violated: the run of `lfs_write` that fills a gap counts as a write (`lazyfs.cpp:1280`), so the write that a torn-op fault names may pass whole; `README.md:136` speaks of the write issued |
| `CacheNamesCheckpoint.cfg` | `MCCacheNames` | `CheckpointWritesAll` is violated: a checkpoint misses the unsynced data of a file whose looked-up link was unlinked or renamed over (`cache.cpp:559`), where `README.md:185` says all unsynced data |
| `CacheNamesOverlap.cfg` | `MCCacheNames` | `NamesInv` and `MappedToOwnInode` hold with the disturbances `race` and `relink`, for 2 names |

## Disagreements without a run

Met while modelling, besides the violated runs and configurations:

* `lfs_truncate` calls `truncate_item` with a path where an inode is expected, so
  cached blocks are never truncated (the size hides them: `file_is_posix`).
* With several blocks per page, a full page is offered again and a block that got
  no slot is reported as allocated (`custom_cache.cpp:128`).
* A write to a full cache that does not evict goes to the file below
  (`lazyfs.cpp:1165`), though `README.md:16` says that the cache "only flushes data
  if explicitly requested by the application".
* `add_torn_seq_fault` does not sort the list, which `config.cpp:197` calls
  necessary: a list out of order from the FIFO ends the process early.
* `split_write` adds the bytes that an uneven division leaves to the last persisted
  part, where its message (`lazyfs.cpp:641`) says the last part.
* `command_unsynced_data_report` reports only the paths that it is told to exclude
  (`lazyfs.cpp:369`, `lazyfs.hpp:218`).
* A clear-cache fault with timing before comes before call n + 1
  (`lazyfs.cpp:191`); with timing after it may be skipped or come early when
  matching calls overlap (`lazyfs.cpp:189`).
* Eviction drops unsynced data of a file that is still open: `Page::sync_data` opens
  the inode number as a path (`page.cpp:155`), though `README.md:129` describes
  eviction as that of a page cache.
* With several blocks per page, a sync writes only the first dirty block of a page
  and then marks the item as synced (`custom_cache.cpp:491`).
* Two files whose torn-seq lists hold the first write take it from each other: there
  is one pending write (`lazyfs.cpp:541`).
* A torn-seq injection with a 0 in its list or occurrence 0 is accepted, as a second
  variable `errors` hides the first (`config.cpp:205`); it never crashes or crashes
  on another write.
* An unlink or a rename that fails below has changed the map and the item already
  (`lazyfs.cpp:1707`; `CacheNames` with the disturbance `fail`).
* A rename of one link of a file over another does nothing below and takes a link from
  the item (`cache.cpp:397`; `relink`).
* A clear between the kernel's lookup and the unlink leaves the name in the map: the
  unlink finds no item and erases nothing (`cache.cpp:456`; `clear`). The next file
  with that name then goes to the old inode number.
* Writes through two links of one file at once store a size computed from what each
  read before (`lazyfs.cpp:1241`; `race`).
* Commands that meet in one buffer: of two crash commands the later keys win, so one
  fault with the keys of both is added; two exact commands are taken for an unknown
  one, and neither is carried out nor answered (`main.cpp:60`).
* A crash command without an operation passes the parser and throws in
  `add_crash_fault`, as does one with a bad regular expression as `from`: the process
  ends (`lazyfs.cpp:228`). A bad `to` throws later, in the first rename
  (`lazyfs.cpp:140`), and a number that is too large for `stoi` in the worker
  (`lazyfs.cpp:247`). One without timing is taken for "after".
* The worker reads no command until somebody opens the notifier (`main.cpp:46`).

## Not modelled

* What happens inside the lock of an item: the table of item locks, read without the
  cache mutex (`cache.cpp:163`), and the list of crash faults, read while the worker
  appends to it (`lazyfs.cpp:228`), are data races whose outcome the language does not
  define; the models take both for what they are meant to be.
* Errors of system calls below, except for unlink and rename: `sync_pages` ignores
  them (`custom_cache.cpp:549`), so a failed fsync is taken for a successful one.
* A torn-seq and a torn-op fault on one file at once; commands longer than the buffer
  of a read; the matching of regular expressions; the order in which a handler tries
  the crash faults, when one of them fires and another throws: either may come first;
  the sum of `parts_bytes` past the largest `int`.
* Times in the metadata, `direct_io`, and handlers that only forward a call.

`hazards` in `PROJECT.json` says where each of these bites.

## Plan

Left to do:

1. System calls that fail in `sync_pages`, `lfs_write` and `lfs_truncate`.
2. `LazyFile` over `CacheNames`: two links of one file, byte by byte.
3. Theorems about faults that meet: a torn-seq and a torn-op fault on one file, once
   they are composed.
