------------------------------ MODULE LazyFile ------------------------------
(***************************************************************************)
(* The data path of LazyFS for one file, byte by byte: lfs_write with its  *)
(* sparse fill, its read-modify-write of uncached blocks and its fallback  *)
(* to pwrite, lfs_truncate, lfs_read, and fsync down to the pwritev and    *)
(* ftruncate of sync_pages.  The cache has one block per page and does not *)
(* evict (PageCache shows what it then promises: BlockStore).              *)
(*                                                                         *)
(* The kernel serialises the writes, truncates and syncs of one inode: a   *)
(* write or a truncate is one action.  A sync is a step for every block,   *)
(* because reads and the end of the process may come between them.         *)
(***************************************************************************)
EXTENDS FileBytes, FiniteSets, SequencesExt

CONSTANTS
    IO_BLOCK_SIZE,    \* bytes of a block
    CACHE_NR_PAGES,   \* pages of the cache, one block each
    MaxOthers,        \* bound on the pages other files use at a time
    Bytes,            \* the values of a byte
    MaxSize,          \* bound on the size of the file
    MaxWrite          \* bound on the length of one write

ASSUME LazyFileAssumption ==
    /\ IO_BLOCK_SIZE \in Nat \ {0}
    /\ CACHE_NR_PAGES \in Nat
    /\ MaxOthers \in 0 .. CACHE_NR_PAGES
    /\ NUL \in Bytes
    /\ MaxSize \in Nat \ {0}
    /\ MaxWrite \in Nat

VARIABLES
    size,     \* Metadata::size of the cached item
    blk,      \* the cached blocks of the file: page content and flags
    disk,     \* the file on the underlying file system
    others,   \* the pages used by other files
    syncing,  \* whether a sync_pages of the file is at work
    todo      \* the blocks it still has to write

vars == <<size, blk, disk, others, syncing, todo>>

Blocks == 0 .. ((MaxSize - 1) \div IO_BLOCK_SIZE)

Index == 0 .. (IO_BLOCK_SIZE - 1)

NotCached == [data |-> <<>>, to |-> -1, dirty |-> FALSE]

\* A block in a page: its bytes, the last readable one and the dirty flag.
Cached == [data : [Index -> Bytes], to : Index, dirty : BOOLEAN]

TypeOK ==
    /\ size \in 0 .. MaxSize
    /\ blk \in [Blocks -> Cached \cup {NotCached}]
    /\ disk \in Seq(Bytes) /\ Len(disk) <= MaxSize
    /\ others \in 0 .. MaxOthers
    /\ syncing \in BOOLEAN
    /\ todo \subseteq {b \in Blocks : syncing /\ blk[b] # NotCached /\ ~blk[b].dirty}

Init ==
    /\ size = 0
    /\ blk = [b \in Blocks |-> NotCached]
    /\ disk = <<>>
    /\ others = 0
    /\ syncing = FALSE
    /\ todo = {}

-----------------------------------------------------------------------------

cached_blocks(bl) == {b \in Blocks : bl[b] # NotCached}

free_pages(bl) == CACHE_NR_PAGES - others - Cardinality(cached_blocks(bl))

\* The bytes of block b that a call for n bytes at off covers.
blk_readable_from(b, off) ==
    IF b = off \div IO_BLOCK_SIZE THEN off % IO_BLOCK_SIZE ELSE 0

blk_readable_to(b, off, n) ==
    IF b = (off + n - 1) \div IO_BLOCK_SIZE
    THEN (off + n - 1) % IO_BLOCK_SIZE ELSE IO_BLOCK_SIZE - 1

\* Faulty variant: an uncached block is not read before it is written.
block_below_skipped(b, dk, file_size_before) == <<>>

\* The bytes that an uncached block inside the file has on the file below.
block_below(b, dk, file_size_before) ==
    IF file_size_before > b * IO_BLOCK_SIZE
    THEN pread(dk, IO_BLOCK_SIZE, b * IO_BLOCK_SIZE) ELSE <<>>

\* Faulty variants: the last write decides; a count is taken for an index.
readable_to_last(to, old, below) == to

readable_to_count(to, old, below) ==
    larger(to, IF old # NotCached THEN old.to ELSE Len(below))

\* The last readable byte never moves back.
readable_to(to, old, below) ==
    larger(to, IF old # NotCached THEN old.to ELSE Len(below) - 1)

\* Block b once the write of buf at off is in the cache.  The bytes that neither
\* the page, the file below nor the write supplies are zeros.
put_block(b, old, dk, buf, off, file_size_before) ==
    LET from  == blk_readable_from(b, off)
        to    == blk_readable_to(b, off, Len(buf))
        below == block_below(b, dk, file_size_before)
    IN  [data  |-> [i \in Index |->
                      IF from <= i /\ i <= to THEN buf[b * IO_BLOCK_SIZE + i - off + 1]
                      ELSE IF old # NotCached THEN old.data[i]
                      ELSE IF i < Len(below) THEN below[i + 1] ELSE NUL],
         to    |-> readable_to(to, old, below),
         dirty |-> TRUE]

\* Faulty variant: a block without a page is dropped.
pwrite_block_dropped(dk, b, buf, off) == dk

\* The part of a write that is in block b, written to the file below.
pwrite_block(dk, b, buf, off) ==
    LET from == blk_readable_from(b, off)
        to   == blk_readable_to(b, off, Len(buf))
        at   == b * IO_BLOCK_SIZE + from
    IN  pwrite(dk, SubSeq(buf, at - off + 1, at - off + 1 + to - from), at)

\* The file below once the block loop has written the blocks of S there: before[b]
\* is what it is when the loop comes to block b.
pwrite_blocks(S, dk, buf, off) ==
    LET before[b \in Nat] ==
            IF b = 0 THEN dk
            ELSE IF b - 1 \in S THEN pwrite_block(before[b - 1], b - 1, buf, off)
            ELSE before[b - 1]
    IN  before[(off + Len(buf) - 1) \div IO_BLOCK_SIZE + 1]

\* The block loop of lfs_write: cached blocks are updated in place, uncached
\* ones take free pages in block order, the rest is written below.
write_blocks(bl, dk, buf, off, file_size_before) ==
    LET last    == off + Len(buf) - 1
        range   == (off \div IO_BLOCK_SIZE) .. (last \div IO_BLOCK_SIZE)
        free    == free_pages(bl)
        missing == {b \in range : bl[b] = NotCached}
        failed  == {b \in missing : Cardinality({c \in missing : c < b}) >= free}
    IN  [blk  |-> [b \in Blocks |->
                     IF b \in range \ failed
                     THEN put_block(b, bl[b], dk, buf, off, file_size_before)
                     ELSE bl[b]],
         disk |-> pwrite_blocks(failed, dk, buf, off)]

-----------------------------------------------------------------------------

\* The blocks and the file below after lfs_write.  A write that starts past the
\* end of the file first writes zeros from the old end; both parts use the size
\* read before.
lfs_write(off, buf) ==
    LET filled == IF size < off
                  THEN write_blocks(blk, disk, zeros(off - size), size, size)
                  ELSE [blk |-> blk, disk |-> disk]
    IN  write_blocks(filled.blk, filled.disk, buf, off, size)

Write(off, buf) ==
    /\ ~syncing
    /\ size' = larger(size, off + Len(buf))
    /\ LET written == lfs_write(off, buf)
       IN  blk' = written.blk /\ disk' = written.disk
    /\ UNCHANGED <<others, syncing, todo>>

\* Faulty variant: the bytes between the old and the new end are not written.
grow_unfilled(n) ==
    /\ ~syncing
    /\ n > size
    /\ size' = n
    /\ UNCHANGED <<blk, disk, others, syncing, todo>>

\* lfs_truncate to a larger size writes zeros from the old end.
TruncateGrow(n) ==
    /\ ~syncing
    /\ n > size
    /\ size' = n
    /\ LET written == lfs_write(size, zeros(n - size))
       IN  blk' = written.blk /\ disk' = written.disk
    /\ UNCHANGED <<others, syncing, todo>>

\* lfs_truncate to a smaller size: truncate_item is called with the path and
\* finds no content under it, so only the size changes.
TruncateShrink(n) ==
    /\ ~syncing
    /\ n < size
    /\ size' = n
    /\ UNCHANGED <<blk, disk, others, syncing, todo>>

\* Faulty variant: the index of the last readable byte taken for a length.
iov_len_short(b) == IF b + 1 \in todo THEN IO_BLOCK_SIZE ELSE blk[b].to

\* How much of a block pwritev writes: of the last block of a run only the
\* readable bytes.
iov_len(b) == IF b + 1 \in todo THEN IO_BLOCK_SIZE ELSE blk[b].to + 1

dirty_blocks == {b \in Blocks : blk[b] # NotCached /\ blk[b].dirty}

\* sync_pages takes the dirty blocks and marks their pages clean before it
\* writes anything.
SyncStart ==
    /\ ~syncing
    /\ syncing' = TRUE
    /\ todo' = dirty_blocks
    /\ blk' = [b \in Blocks |->
                  IF b \in dirty_blocks THEN [blk[b] EXCEPT !.dirty = FALSE] ELSE blk[b]]
    /\ UNCHANGED <<size, disk, others>>

\* Faulty variant: the blocks are written from the last to the first.
next_block_last == CHOOSE b \in todo : \A c \in todo : c <= b

\* The blocks are written in the order of the engine's ordered map.
next_block == CHOOSE b \in todo : \A c \in todo : b <= c

\* pwritev: the next block reaches the file below.  The process may be killed
\* before any block.
SyncBlock ==
    /\ todo # {}
    /\ LET b == next_block
       IN  /\ disk' = pwrite(disk, [i \in 1 .. iov_len(b) |-> blk[b].data[i - 1]],
                             b * IO_BLOCK_SIZE)
           /\ todo' = todo \ {b}
    /\ UNCHANGED <<size, blk, others, syncing>>

\* The file below gets the cached size, and the sync returns.
SyncEnd ==
    /\ syncing
    /\ todo = {}
    /\ disk' = ftruncate(disk, size)
    /\ syncing' = FALSE
    /\ UNCHANGED <<size, blk, others, todo>>

\* What is left after the cache is gone: the next lfs_getattr takes the size
\* from the underlying file.
LoseCache ==
    /\ blk' = [b \in Blocks |-> NotCached]
    /\ size' = Len(disk)
    /\ others' = 0
    /\ syncing' = FALSE
    /\ todo' = {}
    /\ UNCHANGED disk

\* The clear-cache command waits for the sync, which holds the command lock.
ClearCache == ~syncing /\ LoseCache

\* A crash fault of another thread kills the process at any point of a sync.
Crash == syncing /\ LoseCache

\* Other files take and give back pages; a sync holds the lock of the engine.
OtherFiles ==
    /\ ~syncing
    /\ others' \in 0 .. smaller(MaxOthers, CACHE_NR_PAGES - Cardinality(cached_blocks(blk)))
    /\ others' # others
    /\ UNCHANGED <<size, blk, disk, syncing, todo>>

Next ==
    \/ \E off \in 0 .. MaxSize : \E n \in 1 .. smaller(MaxWrite, MaxSize - off) :
          \E buf \in [1 .. n -> Bytes] : Write(off, buf)
    \/ \E n \in 0 .. MaxSize : TruncateGrow(n) \/ TruncateShrink(n)
    \/ SyncStart
    \/ SyncBlock
    \/ SyncEnd
    \/ ClearCache
    \/ Crash
    \/ OtherFiles

Spec == Init /\ [][Next]_vars

-----------------------------------------------------------------------------
(* lfs_read returns without changing the state: what it returns is an      *)
(* operator, checked in every state for every request.                     *)

\* The bytes of block b that a read of n bytes at off gets.
chunk(b, n, off) ==
    LET from == blk_readable_from(b, off)
        to   == blk_readable_to(b, off, n)
    IN  IF b \in Blocks /\ blk[b] # NotCached
        THEN [i \in 1 .. (smaller(blk[b].to, to) - from + 1) |-> blk[b].data[from + i - 1]]
        ELSE IF size > b * IO_BLOCK_SIZE
        THEN pread(disk, to - from + 1, b * IO_BLOCK_SIZE + from)
        ELSE <<>>

\* The chunks of the blocks up to the end of the file, one after the other; before[b]
\* is what the loop has when it comes to block b.
lfs_read(n, off) ==
    LET first == off \div IO_BLOCK_SIZE
        last  == (off + n - 1) \div IO_BLOCK_SIZE
        before[b \in Nat] ==
            IF b <= first THEN <<>>
            ELSE IF (b - 1) * IO_BLOCK_SIZE <= size THEN before[b - 1] \o chunk(b - 1, n, off)
            ELSE before[b - 1]
    IN  IF off > size - 1 THEN <<>> ELSE before[last + 1]

-----------------------------------------------------------------------------
(* Properties.                                                             *)

\* The content of a file of n bytes as its blocks and the file below define it.
content_of(bl, dk, n) ==
    [i \in 1 .. n |->
        LET b == (i - 1) \div IO_BLOCK_SIZE
        IN  IF bl[b] # NotCached THEN bl[b].data[(i - 1) % IO_BLOCK_SIZE]
            ELSE IF i <= Len(dk) THEN dk[i] ELSE NUL]

content == content_of(blk, disk, size)

\* Every read returns the bytes of the file at its offset, all that it asks
\* for up to the end of the file (the kernel cuts the reply at the size that
\* lfs_getattr gave it).
ReadsReturnContent ==
    LET c == content
    IN  \A off \in 0 .. MaxSize - 1, n \in 1 .. MaxSize :
            IsPrefix(pread(c, n, off), lfs_read(n, off))

\* A byte that the loss of the cache would change is in a block that the next
\* fsync will write, or that the fsync at work is still to write.
UnsyncedIsDirty ==
    \A i \in 1 .. smaller(size, Len(disk)) :
        LET b == (i - 1) \div IO_BLOCK_SIZE
        IN  content[i] # disk[i] => blk[b].dirty \/ b \in todo

\* The strengthening that makes UnsyncedIsDirty inductive, and of which the other
\* properties follow.  Every byte of the file that is in a page is readable there.
BytesReadable ==
    \A b \in cached_blocks(blk) :
        /\ b * IO_BLOCK_SIZE + blk[b].to < MaxSize
        /\ \A i \in Index : b * IO_BLOCK_SIZE + i < size => i <= blk[b].to

\* What is in no page, or in a page that was written, is on the file below, a byte past
\* its end too: the file below is never too short for what it alone has.
CleanIsBelow ==
    \A i \in 1 .. size :
        LET b == (i - 1) \div IO_BLOCK_SIZE
        IN  ~blk[b].dirty /\ b \notin todo => i <= Len(disk) /\ content[i] = disk[i]

\* A sync has every block to write that is not below.
SyncTakesAll == syncing => dirty_blocks = {}

FileInv ==
    /\ TypeOK
    /\ BytesReadable
    /\ CleanIsBelow
    /\ SyncTakesAll

\* Whatever write comes next, the file then has its bytes, zeros in a gap before
\* them and the old bytes everywhere else.  The file below has changed, if at
\* all, only where the write or the gap is, and only to the new bytes; a block
\* written past its end leaves a hole.
WriteIsExact ==
    ~syncing =>
    \A off \in 0 .. MaxSize : \A n \in 1 .. smaller(MaxWrite, MaxSize - off) :
        \A buf \in [1 .. n -> Bytes] :
            LET c == pwrite(content, buf, off)
                w == lfs_write(off, buf)
            IN  /\ content_of(w.blk, w.disk, larger(size, off + n)) = c
                /\ Len(w.disk) <= larger(Len(disk), off + n)
                /\ \A i \in 1 .. Len(w.disk) :
                      \/ i <= Len(disk) /\ w.disk[i] = disk[i]
                      \/ i > Len(disk) /\ w.disk[i] = NUL
                      \/ smaller(off, size) < i /\ i <= off + n /\ w.disk[i] = c[i]

\* While an fsync is at work its readers see one content, although the blocks
\* that have no page are read from the file that it is changing, and when it
\* returns the file below has exactly that content: nothing that was written is
\* missing, nothing that was truncated is left.
FsyncIsExact ==
    [][/\ SyncBlock => content' = content
       /\ SyncEnd => content' = content /\ disk' = content]_vars

\* The file behaves as POSIX says, with fsync as the only way to the disk: a write
\* or a truncate changes only the content, and an fsync that a crash interrupts
\* leaves a prefix of the content before the rest of what was there.
Posix == INSTANCE PosixFile WITH
            volatile <- content,
            durable  <- disk

PosixSpec == Posix!Spec

\* Each call is the POSIX call of its name with its own arguments: what lfs_write of
\* buf at off does to the file is a write of buf at off and nothing else (no byte
\* beside it, no stale byte in a gap or after a truncate and a regrowth), and the
\* calls on other files change neither content.
CallsArePosix ==
    [][/\ \A off \in 0 .. MaxSize : \A n \in 1 .. smaller(MaxWrite, MaxSize - off) :
             \A buf \in [1 .. n -> Bytes] : Write(off, buf) => Posix!Write(off, buf)
       /\ \A n \in 0 .. MaxSize : TruncateGrow(n) \/ TruncateShrink(n) => Posix!Truncate(n)
       /\ SyncStart => Posix!FsyncStart
       /\ SyncBlock => Posix!FsyncPart
       /\ SyncEnd => Posix!FsyncEnd
       /\ ClearCache \/ Crash => Posix!Lose
       /\ OtherFiles => UNCHANGED Posix!vars]_vars
=============================================================================
