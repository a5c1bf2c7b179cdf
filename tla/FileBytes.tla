----------------------------- MODULE FileBytes -----------------------------
(***************************************************************************)
(* The contents of a file as a sequence of bytes, and what the system      *)
(* calls that LazyFS issues on the underlying file system do to it.        *)
(* Offsets count from 0, as in the calls; byte i is element i + 1.         *)
(***************************************************************************)
EXTENDS Integers, Sequences

\* The byte of a hole, of an extended file and of a page after memset.
NUL == 0

larger(a, b) == IF a > b THEN a ELSE b
smaller(a, b) == IF a < b THEN a ELSE b

zeros(n) == [i \in 1 .. n |-> NUL]

\* pwrite (2): the bytes of buf at offset off; a gap before them reads as zeros.
pwrite(s, buf, off) ==
    IF buf = <<>> THEN s
    ELSE [i \in 1 .. larger(Len(s), off + Len(buf)) |->
             IF off < i /\ i <= off + Len(buf) THEN buf[i - off]
             ELSE IF i <= Len(s) THEN s[i] ELSE NUL]

\* pread (2): at most n bytes from offset off, fewer at the end of the file.
pread(s, n, off) == SubSeq(s, off + 1, smaller(off + n, Len(s)))

\* ftruncate (2).
ftruncate(s, n) == [i \in 1 .. n |-> IF i <= Len(s) THEN s[i] ELSE NUL]
=============================================================================
