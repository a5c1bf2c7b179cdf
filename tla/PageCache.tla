------------------------------ MODULE PageCache ------------------------------
(***************************************************************************)
(* The page cache of LazyFS: libpcache's Cache items, CustomCacheEngine,   *)
(* Page and BlockOffsets.  A block of a file is cached in a slot of a      *)
(* page; five structures have to agree on it: the item's block table, the  *)
(* page's own table, the owner's page set, the owner's ordered block map   *)
(* and the list of free pages.  Two dirty indicators per page and block,   *)
(* and one per item, decide what a sync writes and what a report shows.    *)
(*                                                                         *)
(* An action is one call of the file-system layer for one block (the only  *)
(* way lfs_write and lfs_read call the cache).  The item lock, held over   *)
(* each call, makes it atomic for its owner; a page belongs to one owner,  *)
(* so calls for different owners meet only in the free list, which the     *)
(* engine lock protects.                                                   *)
(***************************************************************************)
EXTENDS Integers, FiniteSets, SequencesExt

CONSTANTS
    Owners,              \* content ids: the inode numbers of the files
    Blocks,              \* block numbers of a file
    Pages,               \* the CACHE_NR_PAGES preallocated page ids
    Values,              \* the contents a block can have
    Zero,                \* the content of a block of zeros
    BLOCKS_PER_PAGE,     \* CACHE_PAGE_SIZE / IO_BLOCK_SIZE
    APPLY_LRU_EVICTION,  \* the apply_eviction option
    NONE,                \* the owner of a page nobody owns
    NoPage               \* page id -1

Slots == 0 .. (BLOCKS_PER_PAGE - 1)

\* Offset (-1, -1) of a block that is not in the page.
NoSlot == -1

\* Eviction is modelled for one block per page only.
ASSUME PageCacheAssumption ==
    /\ Blocks \subseteq Nat
    /\ Zero \in Values
    /\ BLOCKS_PER_PAGE \in Nat \ {0}
    /\ APPLY_LRU_EVICTION \in BOOLEAN
    /\ NONE \notin Owners
    /\ NoPage \notin Pages
    /\ APPLY_LRU_EVICTION => BLOCKS_PER_PAGE = 1

\* The configuration that the README recommends.
OneBlockNoEviction == BLOCKS_PER_PAGE = 1 /\ ~APPLY_LRU_EVICTION

VARIABLES
    contents,     \* Cache: the content ids that have an item
    blocks,       \* Item/Data: the page each block was last stored in
    data_synced,  \* Item: nothing was written since the last sync
    page,         \* search_index: the pages
    free_pages,   \* engine: how many times a page is in the free list
    mapped,       \* engine: the keys of the three owner_* maps
    owner_pages,  \* engine: owner_pages_mapping
    ordered,      \* engine: owner_ordered_pages_mapping
    owner_free,   \* engine: owner_free_pages_mapping
    lru,          \* engine: lru_main_vector, most recent first
    disk,         \* the underlying file system
    reply,        \* the content returned by the last read
    terminated    \* an uncaught std::out_of_range ended the process

itemVars == <<contents, blocks, data_synced>>
engineVars == <<free_pages, mapped, owner_pages, ordered, owner_free>>
vars == <<contents, blocks, data_synced, page, free_pages, mapped, owner_pages,
          ordered, owner_free, lru, disk, reply, terminated>>

-----------------------------------------------------------------------------

\* A page as Page::reset leaves it; reset itself keeps the owner.
ResetPage(owner) ==
    [owner |-> owner, dirty |-> FALSE, off |-> [b \in Blocks |-> NoSlot],
     free |-> Slots, data |-> [s \in Slots |-> Zero]]

Page == [owner : Owners \cup {NONE}, dirty : BOOLEAN,
         off : [Blocks -> Slots \cup {NoSlot}],
         free : SUBSET Slots, data : [Slots -> Values]]

NoEntry == [page |-> NoPage, off |-> NoSlot, synced |-> FALSE]

Entry == [page : Pages \cup {NoPage}, off : Slots \cup {NoSlot}, synced : BOOLEAN]

NoBlocks == [b \in Blocks |-> NoPage]

NoEntries == [b \in Blocks |-> NoEntry]

TypeOK ==
    /\ contents \subseteq Owners
    /\ blocks \in [Owners -> [Blocks -> Pages \cup {NoPage}]]
    /\ data_synced \in [Owners -> BOOLEAN]
    /\ page \in [Pages -> Page]
    /\ free_pages \in [Pages -> Nat]
    /\ mapped \subseteq Owners
    /\ owner_pages \in [Owners -> SUBSET Pages]
    /\ ordered \in [Owners -> [Blocks -> Entry]]
    /\ owner_free \in [Owners -> Seq(Pages)]
    /\ lru \in Seq(Pages)
    /\ disk \in [Owners -> [Blocks -> Values]]
    /\ reply \in Values
    /\ terminated \in BOOLEAN

Init ==
    /\ contents = {}
    /\ blocks = [o \in Owners |-> NoBlocks]
    /\ data_synced = [o \in Owners |-> TRUE]
    /\ page = [p \in Pages |-> ResetPage(NONE)]
    /\ free_pages = [p \in Pages |-> 1]
    /\ mapped = {}
    /\ owner_pages = [o \in Owners |-> {}]
    /\ ordered = [o \in Owners |-> NoEntries]
    /\ owner_free = [o \in Owners |-> <<>>]
    /\ lru = <<>>
    /\ disk = [o \in Owners |-> [b \in Blocks |-> Zero]]
    /\ reply = Zero
    /\ terminated = FALSE

-----------------------------------------------------------------------------
(* Helpers of the engine.                                                  *)

contains_block(p, b) == page[p].off[b] # NoSlot

is_block_cached(o, b) ==
    LET p == blocks[o][b]
    IN  p # NoPage /\ page[p].owner = o /\ contains_block(p, b)

has_empty_pages == \E p \in Pages : free_pages[p] > 0

\* get_engine_usage () == 100, as lfs_write asks before it writes.
cache_full == ~has_empty_pages /\ ~APPLY_LRU_EVICTION

\* The pages of a list that are not in S, in their order.
without(list, S) ==
    LET kept[n \in Nat] ==
            IF n = 0 THEN <<>>
            ELSE IF list[n] \in S THEN kept[n - 1] ELSE Append(kept[n - 1], list[n])
    IN  kept[Len(list)]

\* The visited page moves to the front of the LRU list.
lru_visit(p) == IF APPLY_LRU_EVICTION THEN <<p>> \o without(lru, {p}) ELSE lru

lru_forget(S) == IF APPLY_LRU_EVICTION THEN without(lru, S) ELSE lru

\* The bookkeeping of a block stored in page p for owner new, over the maps
\* pages and ord.  A previous owner of the page loses it.
update_owner_pages(new, p, b, off, has_free_space, pages, ord) ==
    LET old    == page[p].owner
        moved  == old # new /\ old \in mapped
        pages1 == IF moved THEN [pages EXCEPT ![old] = @ \ {p}] ELSE pages
        ord1   == IF moved THEN [ord EXCEPT ![old][b] = NoEntry] ELSE ord
        gone   == IF moved /\ pages1[old] = {} THEN {old} ELSE {}
    IN  /\ mapped' = (mapped \ gone) \cup {new}
        /\ owner_pages' = [pages1 EXCEPT ![new] = @ \cup {p}]
        /\ ordered' = [o \in Owners |->
              CASE o = new -> IF ord1[new][b] = NoEntry
                              THEN [ord1[new] EXCEPT ![b] =
                                      [page |-> p, off |-> off, synced |-> FALSE]]
                              ELSE ord1[new]
                [] o # new /\ o \in gone -> NoEntries
                [] OTHER -> ord1[o]]
        /\ owner_free' = [o \in Owners |->
              CASE o = new /\ has_free_space -> Append(owner_free[o], p)
                [] o # new /\ o \in gone -> <<>>
                [] OTHER -> owner_free[o]]

\* Faulty variants: the item does not learn the page; its sync flag stays.
record_block_no_page(o, b, p) ==
    /\ contents' = contents \cup {o}
    /\ blocks' = blocks
    /\ data_synced' = [data_synced EXCEPT ![o] = FALSE]

record_block_still_synced(o, b, p) ==
    /\ contents' = contents \cup {o}
    /\ blocks' = [blocks EXCEPT ![o][b] = p]
    /\ data_synced' = data_synced

\* The item side of a successful allocation.
record_block(o, b, p) ==
    /\ contents' = contents \cup {o}
    /\ blocks' = [blocks EXCEPT ![o][b] = p]
    /\ data_synced' = [data_synced EXCEPT ![o] = FALSE]

\* Faulty variant: the slot that is used stays in the page's free slots.
free_slots_kept(pg, off) == pg.free

\* The slots of a page that are left once the block has taken slot off.
free_slots_left(pg, off) == pg.free \ {off}

\* Store content v of block b in page p, whose state is pg.  A page without
\* a free slot stores nothing, and the allocation is reported as done.
store_block(o, b, v, p, pg, pages, ord) ==
    /\ \E off \in IF pg.free = {} THEN {NoSlot} ELSE pg.free :
          LET at   == IF pg.off[b] = NoSlot THEN off ELSE pg.off[b]
              left == free_slots_left(pg, off)
          IN  /\ page' = [page EXCEPT ![p] =
                    [owner |-> o, dirty |-> TRUE,
                     off   |-> [pg.off EXCEPT ![b] = at], free |-> left,
                     data  |-> IF at = NoSlot THEN pg.data
                                              ELSE [pg.data EXCEPT ![at] = v]]]
              /\ update_owner_pages(o, p, b, off, left # {}, pages, ord)
    /\ record_block(o, b, p)
    /\ lru' = lru_visit(p)
    /\ UNCHANGED <<disk, reply, terminated>>

-----------------------------------------------------------------------------
(* lfs_write, for one block: put_data_blocks and allocate_blocks, and the  *)
(* pwrite that replaces them when the block cannot be cached.              *)

\* Faulty variant: the block keeps its synced flag.
PutHitStillSynced(o, b, v) ==
    /\ is_block_cached(o, b)
    /\ o \in mapped /\ ordered[o][b] # NoEntry
    /\ LET p == blocks[o][b]
       IN  page' = [page EXCEPT ![p].dirty = TRUE, ![p].data[page[p].off[b]] = v]
    /\ record_block(o, b, blocks[o][b])
    /\ UNCHANGED <<engineVars, lru, disk, reply, terminated>>

\* The block is cached: its content is replaced in place.
PutHit(o, b, v) ==
    /\ is_block_cached(o, b)
    /\ o \in mapped /\ ordered[o][b] # NoEntry
    /\ LET p == blocks[o][b]
       IN  page' = [page EXCEPT ![p].dirty = TRUE, ![p].data[page[p].off[b]] = v]
    /\ ordered' = [ordered EXCEPT ![o][b].synced = FALSE]
    /\ record_block(o, b, blocks[o][b])
    /\ UNCHANGED <<free_pages, mapped, owner_pages, owner_free, lru, disk,
                   reply, terminated>>

\* The block is cached but its owner's ordered map lost it: .at () throws.
PutThrows(o, b, v) ==
    /\ is_block_cached(o, b)
    /\ ~(o \in mapped /\ ordered[o][b] # NoEntry)
    /\ LET p == blocks[o][b]
       IN  page' = [page EXCEPT ![p].dirty = TRUE, ![p].data[page[p].off[b]] = v]
    /\ terminated' = TRUE
    /\ UNCHANGED <<itemVars, engineVars, lru, disk, reply>>

\* A page of the owner is listed as having space left.  The code pops a copy
\* of the list, so the page stays listed.
PutOwnerPage(o, b, v) ==
    /\ ~is_block_cached(o, b)
    /\ o \in mapped /\ owner_free[o] # <<>>
    /\ LET p == Last(owner_free[o])
       IN  store_block(o, b, v, p, page[p], owner_pages, ordered)
    /\ UNCHANGED free_pages

\* The block goes to an empty page.
PutFreePage(o, b, v) ==
    /\ ~is_block_cached(o, b)
    /\ ~(o \in mapped /\ owner_free[o] # <<>>)
    /\ \E p \in Pages :
          /\ free_pages[p] > 0
          /\ free_pages' = [free_pages EXCEPT ![p] = @ - 1]
          /\ store_block(o, b, v, p, page[p], owner_pages, ordered)

\* Faulty variant: the page that is reset still knows the old owner's blocks.
PutEvictOffsetsKept(o, b, v) ==
    /\ APPLY_LRU_EVICTION
    /\ ~is_block_cached(o, b)
    /\ ~(o \in mapped /\ owner_free[o] # <<>>)
    /\ ~has_empty_pages
    /\ lru # <<>>
    /\ LET p   == Last(lru)
           old == page[p].owner
           ord == IF old \in mapped
                  THEN [ordered EXCEPT ![old] = [c \in Blocks |->
                           IF contains_block(p, c) THEN NoEntry ELSE @[c]]]
                  ELSE ordered
           pgs == IF old \in mapped THEN [owner_pages EXCEPT ![old] = @ \ {p}]
                                    ELSE owner_pages
       IN  store_block(o, b, v, p, [ResetPage(old) EXCEPT !.off = page[p].off], pgs, ord)
    /\ UNCHANGED free_pages

\* The least recently used page is taken from its owner.  Page::sync_data
\* opens the owner's inode number as a path, so nothing reaches the disk.
PutEvict(o, b, v) ==
    /\ APPLY_LRU_EVICTION
    /\ ~is_block_cached(o, b)
    /\ ~(o \in mapped /\ owner_free[o] # <<>>)
    /\ ~has_empty_pages
    /\ lru # <<>>
    /\ LET p   == Last(lru)
           old == page[p].owner
           ord == IF old \in mapped
                  THEN [ordered EXCEPT ![old] = [c \in Blocks |->
                           IF contains_block(p, c) THEN NoEntry ELSE @[c]]]
                  ELSE ordered
           pgs == IF old \in mapped THEN [owner_pages EXCEPT ![old] = @ \ {p}]
                                    ELSE owner_pages
       IN  store_block(o, b, v, p, ResetPage(old), pgs, ord)
    /\ UNCHANGED free_pages

\* No page for the block: the item forgets it and the content is written to
\* the underlying file system.
PutFull(o, b, v) ==
    /\ ~APPLY_LRU_EVICTION
    /\ ~is_block_cached(o, b)
    /\ ~(o \in mapped /\ owner_free[o] # <<>>)
    /\ ~has_empty_pages
    /\ contents' = contents \cup {o}
    /\ blocks' = [blocks EXCEPT ![o][b] = NoPage]
    /\ disk' = [disk EXCEPT ![o][b] = v]
    /\ UNCHANGED <<data_synced, page, engineVars, lru, reply, terminated>>

\* lfs_write saw a full cache before its loop and does not ask for a page.
WriteThrough(o, b, v) ==
    /\ cache_full
    /\ ~is_block_cached(o, b)
    /\ disk' = [disk EXCEPT ![o][b] = v]
    /\ UNCHANGED <<itemVars, page, engineVars, lru, reply, terminated>>

-----------------------------------------------------------------------------
(* lfs_getattr creates an item without blocks; lfs_read, for one block.    *)

CreateItem(o) ==
    /\ o \notin contents
    /\ contents' = contents \cup {o}
    /\ UNCHANGED <<blocks, data_synced, page, engineVars, lru, disk, reply, terminated>>

\* Page::get_block_data copies IO_BLOCK_SIZE - offset bytes: only the first
\* slot of a page is read, the rest of the caller's buffer is uninitialized.
ReadHit(o, b) ==
    /\ o \in contents
    /\ is_block_cached(o, b)
    /\ LET p == blocks[o][b]
           s == page[p].off[b]
       IN  /\ reply' \in IF s = 0 THEN {page[p].data[s]} ELSE Values
           /\ lru' = lru_visit(p)
    /\ UNCHANGED <<itemVars, page, engineVars, disk, terminated>>

ReadMiss(o, b) ==
    /\ ~is_block_cached(o, b)
    /\ reply' = disk[o][b]
    /\ UNCHANGED <<itemVars, page, engineVars, lru, disk, terminated>>

\* get_data_blocks finds that the page was taken by another block: the item
\* forgets the block.
GetStale(o, b) ==
    /\ o \in contents
    /\ blocks[o][b] # NoPage
    /\ ~is_block_cached(o, b)
    /\ blocks' = [blocks EXCEPT ![o][b] = NoPage]
    /\ UNCHANGED <<contents, data_synced, page, engineVars, lru, disk, reply, terminated>>

-----------------------------------------------------------------------------
(* sync_owner, remove_cached_item and clear_all_cache.                     *)

\* Faulty variant: the last block of the map, which ends the last run, is not
\* written.
flushed_blocks_but_last(o) ==
    {b \in Blocks :
        /\ ordered[o][b] # NoEntry
        /\ page[ordered[o][b].page].dirty
        /\ \E c \in Blocks : c > b /\ ordered[o][c] # NoEntry}

\* The blocks sync_pages writes: it clears a page's dirty flag at the first
\* block that it meets in the page.
flushed_blocks(o) ==
    {b \in Blocks :
        /\ ordered[o][b] # NoEntry
        /\ page[ordered[o][b].page].dirty
        /\ \A c \in Blocks : c < b => ordered[o][c].page # ordered[o][b].page}

\* Faulty variant: the page stays dirty after it was written.
synced_page_dirty(p) == page[p]

synced_page(p) == [page[p] EXCEPT !.dirty = FALSE]

SyncOwner(o) ==
    /\ o \in contents
    /\ LET F == flushed_blocks(o)
           P == {ordered[o][b].page : b \in F}
       IN  /\ \E junk \in Values :
                 disk' = [disk EXCEPT ![o] = [b \in Blocks |->
                            IF b \notin F THEN @[b]
                            ELSE IF ordered[o][b].off = NoSlot THEN junk
                            ELSE page[ordered[o][b].page].data[ordered[o][b].off]]]
           /\ page' = [p \in Pages |-> IF p \in P THEN synced_page(p) ELSE page[p]]
           /\ ordered' = [ordered EXCEPT ![o] = [b \in Blocks |->
                             IF b \in F THEN [@[b] EXCEPT !.synced = TRUE] ELSE @[b]]]
    /\ data_synced' = [data_synced EXCEPT ![o] = TRUE]
    /\ UNCHANGED <<contents, blocks, free_pages, mapped, owner_pages, owner_free,
                   lru, reply, terminated>>

\* Faulty variant: the pages of a removed owner are lost.
times_freed_never(S, p) == 0

\* How often page p is put in the free list when the owners in S are removed.
times_freed(S, p) == Cardinality({o \in S : p \in owner_pages[o]})

\* Faulty variant: Page::reset alone, which keeps the owner.
released_page_owned(p) == ResetPage(page[p].owner)

\* The page of a removed owner: Page::reset and change_owner.
released_page(p) == ResetPage(NONE)

\* remove_cached_blocks for every owner in S: their pages become free.
remove_cached_blocks(S) ==
    LET released == UNION {owner_pages[o] : o \in S}
    IN  /\ free_pages' = [p \in Pages |-> free_pages[p] + times_freed(S, p)]
        /\ page' = [p \in Pages |-> IF p \in released THEN released_page(p) ELSE page[p]]
        /\ lru' = lru_forget(released)
        /\ mapped' = mapped \ S
        /\ owner_pages' = [o \in Owners |-> IF o \in S THEN {} ELSE owner_pages[o]]
        /\ ordered' = [o \in Owners |-> IF o \in S THEN NoEntries ELSE ordered[o]]
        /\ owner_free' = [o \in Owners |-> IF o \in S THEN <<>> ELSE owner_free[o]]

delete_items(S) ==
    /\ contents' = contents \ S
    /\ blocks' = [o \in Owners |-> IF o \in S THEN NoBlocks ELSE blocks[o]]
    /\ data_synced' = [o \in Owners |-> IF o \in S THEN TRUE ELSE data_synced[o]]

\* The last link of the file is removed: lfs_unlink, or lfs_rename over it.
\* A later file with the same inode number starts empty.
RemoveItem(o) ==
    /\ o \in contents
    /\ remove_cached_blocks({o})
    /\ delete_items({o})
    /\ disk' = [disk EXCEPT ![o] = [b \in Blocks |-> Zero]]
    /\ UNCHANGED <<reply, terminated>>

\* The clear-cache command and the clear faults, under the command lock.
ClearAll ==
    /\ contents # {}
    /\ remove_cached_blocks(contents)
    /\ delete_items(contents)
    /\ UNCHANGED <<disk, reply, terminated>>

-----------------------------------------------------------------------------

Put(o, b, v) ==
    \/ PutHit(o, b, v)
    \/ PutThrows(o, b, v)
    \/ PutOwnerPage(o, b, v)
    \/ PutFreePage(o, b, v)
    \/ PutEvict(o, b, v)
    \/ PutFull(o, b, v)
    \/ WriteThrough(o, b, v)

Next ==
    /\ ~terminated
    /\ \/ \E o \in Owners, b \in Blocks, v \in Values : Put(o, b, v)
       \/ \E o \in Owners, b \in Blocks :
             ReadHit(o, b) \/ ReadMiss(o, b) \/ GetStale(o, b)
       \/ \E o \in Owners :
             CreateItem(o) \/ SyncOwner(o) \/ RemoveItem(o)
       \/ ClearAll

Spec == Init /\ [][Next]_vars

-----------------------------------------------------------------------------
(* Properties.                                                             *)

\* What a reader of block b is to get.
view(o, b) ==
    IF is_block_cached(o, b)
    THEN page[blocks[o][b]].data[page[blocks[o][b]].off[b]]
    ELSE disk[o][b]

\* report_unsynced_data with get_dirty_blocks_info: the blocks of o that the
\* unsynced-data report lists.
dirty_blocks_info(o) ==
    IF o \notin contents \/ data_synced[o] THEN {}
    ELSE {b \in Blocks : ordered[o][b] # NoEntry /\ ~ordered[o][b].synced}

\* No page is lost or handed out twice: a page is in the free list once and
\* owned by nobody, or not there and in the page set of exactly its owner.
FreeXorOwned ==
    \A p \in Pages :
        /\ free_pages[p] = IF page[p].owner = NONE THEN 1 ELSE 0
        /\ \A o \in Owners : p \in owner_pages[o] <=> page[p].owner = o

\* The blocks of a page do not overlay each other: two blocks have different
\* slots, and a free slot has no block.
SlotsHoldOneBlock ==
    \A p \in Pages : \A b, c \in Blocks :
        contains_block(p, b) =>
            /\ page[p].off[b] \notin page[p].free
            /\ page[p].off[b] = page[p].off[c] => b = c

\* The item's block table, the engine's ordered map and the page agree on
\* where every cached block is; so a block is never cached in two pages and
\* sync_pages, which walks only the ordered map, misses none.
TablesAgree ==
    \A o \in Owners, b \in Blocks :
        /\ ordered[o][b] # NoEntry <=> is_block_cached(o, b)
        /\ is_block_cached(o, b) =>
              /\ ordered[o][b].page = blocks[o][b]
              /\ ordered[o][b].off = page[blocks[o][b]].off[b]
        /\ \A p \in Pages :
              page[p].owner = o /\ contains_block(p, b) => blocks[o][b] = p

\* Whatever a crash would lose is in the unsynced-data report: a block whose
\* cached content is not on the disk is listed for its file.
LossIsReported ==
    \A o \in Owners, b \in Blocks :
        view(o, b) # disk[o][b] => b \in dirty_blocks_info(o)

\* An item whose sync flag is set has nothing to lose: since the sync that
\* set the flag, the disk has every block as a reader sees it.
SyncFlagMeansDurable ==
    \A o \in Owners, b \in Blocks : data_synced[o] => view(o, b) = disk[o][b]

\* The engine finds every block of the owner it needs: no call ends in an
\* uncaught std::out_of_range.
NeverThrows == ~terminated

\* With eviction there is always a page to evict: the LRU list has each page
\* in use exactly once, so its back is never read when it is empty.
LruListsUsedPages ==
    APPLY_LRU_EVICTION =>
        /\ \A p \in Pages : page[p].owner # NONE <=> p \in ToSet(lru)
        /\ Len(lru) = Cardinality(ToSet(lru))

\* What a reader sees changes by a write to the block, a clear of the cache or the
\* end of the file, or because the block was evicted: then it becomes what the disk
\* has of it, never the content of another block or file, or one half synced.
EvictionShowsTheDisk ==
    [][\A o \in Owners, b \in Blocks :
          view(o, b)' # view(o, b) =>
              \/ \E v \in Values : Put(o, b, v)
              \/ ClearAll \/ RemoveItem(o)
              \/ view(o, b)' = disk[o][b]]_vars

\* What holds in every configuration and makes the invariants about pages and the
\* LRU list inductive: only an owner that the engine knows has pages, a page of
\* nobody is empty, a page that is listed as having space left is its owner's, and an
\* entry of the ordered map has a page.
PagesHaveOwners ==
    /\ \A p \in Pages : page[p].owner = NONE => page[p] = ResetPage(NONE)
    /\ \A p \in Pages : page[p].owner # NONE => page[p].owner \in mapped
    /\ \A o \in Owners : ToSet(owner_free[o]) \subseteq owner_pages[o]
    /\ BLOCKS_PER_PAGE = 1 => \A o \in Owners : owner_free[o] = <<>>
    /\ \A o \in Owners, b \in Blocks : ordered[o][b] # NoEntry => ordered[o][b].page \in Pages

LruHasNoCopies ==
    /\ \A i, j \in 1 .. Len(lru) : lru[i] = lru[j] => i = j
    /\ ~APPLY_LRU_EVICTION => lru = <<>>

\* Eviction takes entries out of the ordered map, and some too many, but leaves no
\* entry of a block that is not where it says.
EntriesAreCached ==
    \A o \in Owners, b \in Blocks :
        ordered[o][b] # NoEntry =>
            /\ is_block_cached(o, b)
            /\ ordered[o][b].page = blocks[o][b]
            /\ ordered[o][b].off = page[blocks[o][b]].off[b]

PagesInv ==
    /\ TypeOK
    /\ FreeXorOwned
    /\ SlotsHoldOneBlock
    /\ LruListsUsedPages
    /\ PagesHaveOwners
    /\ LruHasNoCopies
    /\ BLOCKS_PER_PAGE = 1 => EntriesAreCached

\* The strengthening that makes the invariants above inductive when pages hold
\* one block and nothing is evicted (the configuration of the README).
\* A page is empty and nobody's, or holds one block of its owner.
PagesHoldOneBlock ==
    \A p \in Pages :
        \/ page[p] = ResetPage(NONE)
        \/ /\ page[p].owner \in mapped
           /\ page[p].free = {}
           /\ \E b \in Blocks : \A c \in Blocks : contains_block(p, c) <=> c = b

\* Only an owner with an item has engine state; nobody has a page with space
\* left; the LRU list is not used.
OwnersHaveItems ==
    /\ mapped \subseteq contents
    /\ \A o \in Owners :
          /\ o \notin mapped => owner_pages[o] = {} /\ ordered[o] = NoEntries
          /\ o \notin contents => blocks[o] = NoBlocks /\ data_synced[o]
          /\ owner_free[o] = <<>>
          /\ \A b \in Blocks : blocks[o][b] # NoPage => is_block_cached(o, b)
    /\ lru = <<>>

\* The page's dirty flag and the synced flag of its block are opposites, a
\* dirty page makes its item unsynced, and a clean page is on the disk.
FlagsAgree ==
    \A o \in Owners, b \in Blocks :
        is_block_cached(o, b) =>
            LET pg == page[blocks[o][b]]
            IN  /\ pg.dirty <=> ~ordered[o][b].synced
                /\ pg.dirty => ~data_synced[o]
                /\ ~pg.dirty => pg.data[pg.off[b]] = disk[o][b]

EngineInv ==
    /\ TypeOK
    /\ FreeXorOwned
    /\ TablesAgree
    /\ PagesHoldOneBlock
    /\ OwnersHaveItems
    /\ FlagsAgree
    /\ NeverThrows

\* The page cache implements the abstract block store.
held == {x \in Owners \X Blocks : is_block_cached(x[1], x[2])}

Store == INSTANCE BlockStore WITH
            Capacity <- Cardinality(Pages),
            held     <- held,
            volatile <- [o \in Owners |-> [b \in Blocks |-> view(o, b)]],
            durable  <- disk

StoreSpec == Store!Spec
=============================================================================
