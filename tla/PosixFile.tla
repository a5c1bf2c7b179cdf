----------------------------- MODULE PosixFile -----------------------------
(***************************************************************************)
(* What LazyFS promises about one file: the POSIX meaning of write,        *)
(* truncate and fsync over a volatile content, which every reader sees,    *)
(* and a durable content, which a crash or a cleared cache falls back to.  *)
(***************************************************************************)
EXTENDS FileBytes

CONSTANTS
    Bytes,      \* the values of a byte
    MaxSize,    \* bound on the size of the file
    MaxWrite    \* bound on the length of one write

VARIABLES
    volatile,   \* the content the application sees
    durable,    \* the content on the underlying file system
    syncing     \* whether an fsync is at work

vars == <<volatile, durable, syncing>>

Init ==
    /\ durable = <<>>
    /\ volatile = durable
    /\ syncing = FALSE

\* A write of buf at offset off: its bytes, zeros in a gap between the old end of
\* the file and off, and every other byte as it was.
Write(off, buf) ==
    /\ ~syncing
    /\ volatile' = pwrite(volatile, buf, off)
    /\ UNCHANGED <<durable, syncing>>

Truncate(n) ==
    /\ ~syncing
    /\ volatile' = ftruncate(volatile, n)
    /\ UNCHANGED <<durable, syncing>>

FsyncStart ==
    /\ syncing' = TRUE
    /\ UNCHANGED <<volatile, durable>>

\* The content becomes durable from its beginning: up to some byte k the durable
\* content is the content, and from there to the end of the content it is what it
\* was.  Past the end, bytes that were truncated may come back until the fsync
\* returns.
FsyncPart ==
    /\ syncing
    /\ Len(durable') >= Len(durable)
    /\ \E k \in 0 .. smaller(Len(durable'), Len(volatile)) :
          \A i \in 1 .. smaller(Len(durable'), Len(volatile)) :
             IF i <= k THEN durable'[i] = volatile[i]
             ELSE i <= Len(durable) /\ durable'[i] = durable[i]
    /\ UNCHANGED <<volatile, syncing>>

FsyncEnd ==
    /\ syncing
    /\ durable' = volatile
    /\ syncing' = FALSE
    /\ UNCHANGED volatile

\* A crash, or the clear-cache command: what was not synced is lost.
Lose ==
    /\ volatile' = durable
    /\ syncing' = FALSE
    /\ UNCHANGED durable

Next ==
    \/ \E off \in 0 .. MaxSize : \E n \in 1 .. smaller(MaxWrite, MaxSize - off) :
          \E buf \in [1 .. n -> Bytes] : Write(off, buf)
    \/ \E n \in 0 .. MaxSize : Truncate(n)
    \/ FsyncStart
    \/ FsyncPart
    \/ FsyncEnd
    \/ Lose

Spec == Init /\ [][Next]_vars
=============================================================================
