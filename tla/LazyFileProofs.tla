--------------------------- MODULE LazyFileProofs ---------------------------
(***************************************************************************)
(* Proofs about LazyFile for every size of blocks, of the cache and of the *)
(* file, and any bytes.                                                    *)
(***************************************************************************)
EXTENDS LazyFile, FiniteSetTheorems, WellFoundedInduction, TLAPS

-----------------------------------------------------------------------------
(* Numbers, induction and recursion.                                       *)

LEMMA Induction ==
    ASSUME NEW S, 0 \in S, \A n \in Nat : n \in S => n + 1 \in S
    PROVE  Nat \subseteq S
<1>. DEFINE T == Nat \ S
<1>. SUFFICES ASSUME T # {} PROVE FALSE
  OBVIOUS
<1>1. IsWellFoundedOn(OpToRel(<, Nat), Nat)
  BY NatLessThanWellFounded, Zenon
<1>2. PICK x \in T : \A y \in T : ~ (<<y, x>> \in OpToRel(<, Nat))
  <2>1. T \subseteq Nat
    OBVIOUS
  <2>. HIDE DEF T
  <2>. QED
  BY <1>1, <2>1, WFMin, Zenon
<1>3. \A y \in T : ~ (y < x)
  BY <1>2 DEF OpToRel
<1>4. x # 0 /\ x - 1 \in Nat
  OBVIOUS
<1>5. x - 1 \in S
  BY <1>3, <1>4
<1>. QED
  BY <1>4, <1>5

\* A function is defined by its value at 0 and what each value makes of the last.
unfolds(f, z, G) == f[0] = z /\ \A n \in Nat : f[n + 1] = G[n + 1][f[n]]

LEMMA Recursion ==
    ASSUME NEW T, NEW z \in T, NEW G \in [Nat -> [T -> T]]
    PROVE  \E f \in [Nat -> T] : unfolds(f, z, G)
<1>. DEFINE upto(n, f) == f \in [0 .. n -> T] /\ f[0] = z
                          /\ \A k \in 0 .. n - 1 : f[k + 1] = G[k + 1][f[k]]
            I == {n \in Nat : \E f : upto(n, f)}
<1>0. \A n \in Nat, x \in T : G[n][x] \in T
  OBVIOUS
<1>1. 0 \in I
  <2>1. upto(0, [k \in 0 .. 0 |-> z])
    OBVIOUS
  <2>. QED
    BY <2>1
<1>2. ASSUME NEW n \in Nat, n \in I PROVE n + 1 \in I
  <2>1. PICK f : upto(n, f)
    BY <1>2
  <2>. DEFINE g == [k \in 0 .. n + 1 |-> IF k = n + 1 THEN G[n + 1][f[n]] ELSE f[k]]
  <2>2. upto(n + 1, g)
    <3>1. G[n + 1][f[n]] \in T
      BY <1>0, <2>1
    <3>2. g \in [0 .. n + 1 -> T] /\ g[0] = z
      <4>1. \A k \in 0 .. n + 1 : k # n + 1 => k \in 0 .. n /\ f[k] \in T
        BY <2>1
      <4>2. 0 \in 0 .. n + 1 /\ 0 # n + 1
        OBVIOUS
      <4>3. g \in [0 .. n + 1 -> T]
        BY <3>1, <4>1
      <4>. QED
        BY <2>1, <4>2, <4>3
    <3>3. ASSUME NEW k \in 0 .. (n + 1) - 1 PROVE g[k + 1] = G[k + 1][g[k]]
      <4>1. CASE k = n
        <5>1. n \in 0 .. n + 1 /\ n + 1 \in 0 .. n + 1 /\ n # n + 1
          OBVIOUS
        <5>2. g[n] = f[n] /\ g[n + 1] = G[n + 1][f[n]]
          BY <5>1
        <5>. HIDE DEF g
        <5>. QED
          BY <4>1, <5>2
      <4>2. CASE k # n
        <5>1. k \in 0 .. n - 1 /\ k + 1 # n + 1
          BY <4>2
        <5>2. g[k + 1] = f[k + 1] /\ g[k] = f[k]
          BY <5>1
        <5>. QED
          BY <2>1, <5>1, <5>2
      <4>. QED
        BY <4>1, <4>2
    <3>. QED
      BY <3>2, <3>3
  <2>3. \E e : upto(n + 1, e)
    <3>. HIDE DEF upto, g
    <3>. QED
      BY <2>2
  <2>. HIDE DEF upto
  <2>. QED
    BY <2>3
<1>3. \A n \in Nat : n \in I
  <2>. HIDE DEF I
  <2>. QED
    BY <1>1, <1>2, Induction
<1>4. PICK F : \A n \in Nat : upto(n, F[n])
  <2>1. \A n \in Nat : \E f : upto(n, f)
    BY <1>3
  <2>. DEFINE F == [n \in Nat |-> CHOOSE f : upto(n, f)]
  <2>2. \A n \in Nat : F[n] = CHOOSE f : upto(n, f)
    OBVIOUS
  <2>3. \A n \in Nat : upto(n, CHOOSE f : upto(n, f))
    <3>. TAKE n \in Nat
    <3>1. PICK f : upto(n, f)
      BY <2>1
    <3>. HIDE DEF upto
    <3>. QED
      BY <3>1
  <2>. HIDE DEF upto, F
  <2>. QED
    BY <2>2, <2>3
<1>5. \A n \in Nat : \A k \in 0 .. n - 1 : F[n][k + 1] = G[k + 1][F[n][k]]
  BY <1>4
<1>6. \A n \in Nat : F[n] \in [0 .. n -> T] /\ F[n][0] = z
  BY <1>4
<1>. HIDE DEF upto
<1>7. \A n \in Nat : \A k \in 0 .. n : F[n + 1][k] = F[n][k]
  <2>. TAKE n \in Nat
  <2>. DEFINE J == {k \in Nat : k <= n => F[n + 1][k] = F[n][k]}
  <2>1. 0 \in J
    <3>1. n + 1 \in Nat
      OBVIOUS
    <3>2. F[n + 1][0] = z /\ F[n][0] = z
      BY <1>6, <3>1
    <3>. QED
      BY <3>2
  <2>2. ASSUME NEW k \in Nat, k \in J PROVE k + 1 \in J
    <3>. SUFFICES ASSUME k + 1 <= n PROVE F[n + 1][k + 1] = F[n][k + 1]
      OBVIOUS
    <3>1. F[n + 1][k + 1] = G[k + 1][F[n + 1][k]] /\ F[n][k + 1] = G[k + 1][F[n][k]]
      <4>1. k \in 0 .. (n + 1) - 1 /\ k \in 0 .. n - 1
        OBVIOUS
      <4>. QED
        BY <1>5, <4>1
    <3>. QED
      BY <2>2, <3>1
  <2>3. Nat \subseteq J
    <3>. HIDE DEF J
    <3>. QED
      BY <2>1, <2>2, Induction
  <2>. QED
    BY <2>3
<1>. DEFINE h == [n \in Nat |-> F[n][n]]
<1>8. h \in [Nat -> T] /\ h[0] = z
  BY <1>6
<1>9. ASSUME NEW n \in Nat PROVE h[n + 1] = G[n + 1][h[n]]
  <2>1. F[n + 1][n + 1] = G[n + 1][F[n + 1][n]]
    BY <1>5
  <2>2. F[n + 1][n] = F[n][n]
    BY <1>7
  <2>. QED
    BY <2>1, <2>2
<1>. HIDE DEF h
<1>. QED
  BY <1>8, <1>9 DEF unfolds

LEMMA Times ==
    ASSUME NEW a \in Int, NEW b \in Int, NEW c \in Nat, a <= b
    PROVE  a * c <= b * c
OBVIOUS

LEMMA Division ==
    ASSUME NEW m \in Nat, NEW n \in Nat \ {0}
    PROVE  /\ m \div n \in Nat /\ m % n \in 0 .. n - 1
           /\ m = n * (m \div n) + (m % n)
OBVIOUS

\* i is in the k-th interval of length c.
LEMMA Quotient ==
    ASSUME NEW i \in Nat, NEW c \in Nat \ {0}, NEW k \in Int
    PROVE  i \div c = k <=> k * c <= i /\ i < k * c + c
OBVIOUS

-----------------------------------------------------------------------------
(* Blocks and bytes.                                                       *)

LEMMA BlockSize == IO_BLOCK_SIZE \in Nat \ {0}
BY LazyFileAssumption

\* The bytes before block b.
start(b) == b * IO_BLOCK_SIZE

\* Byte i, counted from 1, is in block b.
in_block(i, b) == start(b) < i /\ i <= start(b) + IO_BLOCK_SIZE

LEMMA Start ==
    ASSUME NEW b \in Int
    PROVE  start(b) \in Int /\ (b \in Nat => start(b) \in Nat)
BY BlockSize DEF start

LEMMA BlockOf ==
    ASSUME NEW i \in Nat \ {0}, NEW b \in Int
    PROVE  (i - 1) \div IO_BLOCK_SIZE = b <=> in_block(i, b)
<1>1. i - 1 \in Nat
  OBVIOUS
<1>2. (i - 1) \div IO_BLOCK_SIZE = b <=>
         start(b) <= i - 1 /\ i - 1 < start(b) + IO_BLOCK_SIZE
  BY <1>1, BlockSize, Quotient DEF start
<1>3. start(b) \in Int /\ IO_BLOCK_SIZE \in Int
  BY BlockSize DEF start
<1>. QED
  BY <1>2, <1>3 DEF in_block

\* A block comes before another with all its bytes.
LEMMA BlockOrder ==
    ASSUME NEW b \in Int, NEW c \in Int, b < c
    PROVE  start(b) + IO_BLOCK_SIZE <= start(c)
<1>1. (b + 1) * IO_BLOCK_SIZE <= c * IO_BLOCK_SIZE
  BY BlockSize, Times
<1>2. (b + 1) * IO_BLOCK_SIZE = b * IO_BLOCK_SIZE + IO_BLOCK_SIZE
  BY BlockSize
<1>. QED
  BY <1>1, <1>2 DEF start

\* The blocks that a call for n bytes at off covers.
covers(b, off, n) == b \in (off \div IO_BLOCK_SIZE) .. ((off + n - 1) \div IO_BLOCK_SIZE)

LEMMA Covered ==
    ASSUME NEW off \in Nat, NEW n \in Nat \ {0}, NEW b \in Int, covers(b, off, n)
    PROVE  /\ b \in Nat /\ start(b) \in Nat
           /\ blk_readable_from(b, off) \in Index /\ blk_readable_to(b, off, n) \in Index
           /\ off <= start(b) + blk_readable_from(b, off)
           /\ blk_readable_from(b, off) <= blk_readable_to(b, off, n)
           /\ start(b) + blk_readable_to(b, off, n) < off + n
           /\ \A i \in Int : in_block(i, b) /\ off < i /\ i <= off + n <=>
                  /\ start(b) + blk_readable_from(b, off) < i
                  /\ i <= start(b) + blk_readable_to(b, off, n) + 1
<1>. DEFINE B == IO_BLOCK_SIZE
            end == off + n - 1
            first == off \div B
            last == end \div B
            from == blk_readable_from(b, off)
            to == blk_readable_to(b, off, n)
<1>1. B \in Nat \ {0} /\ end \in Nat
  BY BlockSize
<1>. HIDE DEF B, end
<1>2. /\ first \in Nat /\ off % B \in 0 .. B - 1 /\ off = B * first + (off % B)
      /\ last \in Nat /\ end % B \in 0 .. B - 1 /\ end = B * last + (end % B)
  BY <1>1, Division
<1>3. B * first = first * B /\ B * last = last * B /\ b * B \in Int
  BY <1>1, <1>2
<1>4. first <= b /\ b <= last /\ b \in Nat
  BY <1>2 DEF covers, B, end
<1>5. /\ from = IF b = first THEN off % B ELSE 0
      /\ to = IF b = last THEN end % B ELSE B - 1
  BY DEF blk_readable_from, blk_readable_to, B, end
<1>. HIDE DEF first, last, from, to
<1>6. b # first => first * B + B <= b * B
  BY <1>2, <1>4, BlockOrder DEF B, start
<1>7. b # last => b * B + B <= last * B
  BY <1>2, <1>4, BlockOrder DEF B, start
<1>8. b * B \in Nat
  BY <1>1, <1>4
<1>9. PICK s \in Nat : s = b * B
  BY <1>8
<1>10. from \in 0 .. B - 1 /\ (b = first => off = s + from) /\ (b # first => from = 0 /\ off < s)
  BY <1>1, <1>2, <1>3, <1>5, <1>6, <1>9
<1>11. to \in 0 .. B - 1 /\ (b = last => end = s + to) /\ (b # last => to = B - 1 /\ s + B <= end)
  BY <1>1, <1>2, <1>3, <1>5, <1>7, <1>9
<1>12. end = off + n - 1
  BY DEF end
<1>13. /\ off <= s + from /\ from <= to /\ s + to < off + n
       /\ \A i \in Int : (s < i /\ i <= s + B) /\ off < i /\ i <= off + n <=>
              s + from < i /\ i <= s + to + 1
  BY <1>1, <1>10, <1>11, <1>12
<1>. QED
  BY <1>4, <1>8, <1>9, <1>10, <1>11, <1>13 DEF B, from, to, Index, in_block, start

-----------------------------------------------------------------------------
(* The calls on the file below.                                            *)

\* Byte i of a file, as a reader of enough bytes sees it.
byte_below(dk, i) == IF i <= Len(dk) THEN dk[i] ELSE NUL

\* w is s with the n bytes of buf written at off.
overwrites(w, s, buf, n, off) ==
    /\ Len(w) = larger(Len(s), off + n)
    /\ Len(w) \in Nat
    /\ \A i \in 1 .. Len(w) :
          w[i] = IF off < i /\ i <= off + n THEN buf[i - off] ELSE byte_below(s, i)

LEMMA Pwrite ==
    ASSUME NEW T, NUL \in T, NEW s \in Seq(T), NEW buf \in Seq(T), buf # <<>>,
           NEW off \in Nat
    PROVE  /\ pwrite(s, buf, off) \in Seq(T)
           /\ overwrites(pwrite(s, buf, off), s, buf, Len(buf), off)
<1>1. Len(s) \in Nat /\ Len(buf) \in Nat
  OBVIOUS
<1>2. PICK n \in Nat : n = larger(Len(s), off + Len(buf))
  BY <1>1 DEF larger
<1>. DEFINE f == [i \in 1 .. n |-> IF off < i /\ i <= off + Len(buf) THEN buf[i - off]
                                   ELSE IF i <= Len(s) THEN s[i] ELSE NUL]
<1>3. pwrite(s, buf, off) = f
  BY <1>2 DEF pwrite
<1>4. \A i \in 1 .. n : f[i] = IF off < i /\ i <= off + Len(buf) THEN buf[i - off]
                               ELSE IF i <= Len(s) THEN s[i] ELSE NUL
  OBVIOUS
<1>5. \A i \in 1 .. n : off < i /\ i <= off + Len(buf) => buf[i - off] \in T
  BY <1>1
<1>6. \A i \in 1 .. n : i <= Len(s) => s[i] \in T
  BY <1>1
<1>7. f \in [1 .. n -> T]
  BY <1>5, <1>6
<1>8. f \in Seq(T) /\ Len(f) = n
  <2>1. PICK g \in [1 .. n -> T] : g = f
    BY <1>7
  <2>2. g \in Seq(T) /\ Len(g) = n
    OBVIOUS
  <2>. QED
    BY <2>1, <2>2
<1>. HIDE DEF f
<1>. QED
  BY <1>2, <1>3, <1>4, <1>8 DEF byte_below, overwrites

\* The bytes of a write of n bytes at off.
of_write(i, off, n) == off < i /\ i <= off + n

LEMMA PwriteBlock ==
    ASSUME NEW d \in Seq(Bytes), NEW buf \in Seq(Bytes), buf # <<>>, NEW off \in Nat,
           NEW b \in Int, covers(b, off, Len(buf))
    PROVE  /\ pwrite_block(d, b, buf, off) \in Seq(Bytes)
           /\ Len(d) <= Len(pwrite_block(d, b, buf, off))
           /\ Len(pwrite_block(d, b, buf, off)) <= larger(Len(d), off + Len(buf))
           /\ \A i \in Nat \ {0} : in_block(i, b) /\ of_write(i, off, Len(buf)) =>
                 /\ i <= Len(pwrite_block(d, b, buf, off))
                 /\ pwrite_block(d, b, buf, off)[i] = buf[i - off]
           /\ \A i \in 1 .. Len(pwrite_block(d, b, buf, off)) :
                 ~ (in_block(i, b) /\ of_write(i, off, Len(buf))) =>
                    pwrite_block(d, b, buf, off)[i] = byte_below(d, i)
<1>. DEFINE from == blk_readable_from(b, off)
            to == blk_readable_to(b, off, Len(buf))
<1>1. Len(buf) \in Nat \ {0} /\ Len(d) \in Nat
  OBVIOUS
<1>2. PICK n \in Nat \ {0} : n = Len(buf)
  BY <1>1
<1>3. /\ start(b) \in Nat /\ from \in Nat /\ to \in Nat
      /\ off <= start(b) + from /\ from <= to
      /\ start(b) + to < off + n
      /\ \A i \in Int : in_block(i, b) /\ of_write(i, off, n) <=>
             start(b) + from < i /\ i <= start(b) + to + 1
  BY <1>2, Covered, BlockSize DEF Index, of_write
<1>. HIDE DEF from, to
<1>4. PICK at \in Nat : at = start(b) + from
  BY <1>3
<1>5. PICK len \in Nat \ {0} : len = to - from + 1
  BY <1>3
<1>6. /\ off <= at /\ at + len <= off + n
      /\ \A i \in Int : in_block(i, b) /\ of_write(i, off, n) <=> at < i /\ i <= at + len
  <2>1. PICK s \in Nat : s = start(b)
    BY <1>3
  <2>2. at = s + from /\ at + len = s + to + 1
    BY <1>3, <1>4, <1>5, <2>1
  <2>3. s + to < off + n /\ off <= s + from
    BY <1>3, <2>1
  <2>4. off <= at /\ at + len <= off + n
    BY SMTT(30), <1>3, <2>1, <2>2, <2>3
  <2>5. \A i \in Int : in_block(i, b) /\ of_write(i, off, n) <=> s + from < i /\ i <= s + to + 1
    BY <1>3, <2>1
  <2>. QED
    BY <2>2, <2>4, <2>5
<1>7. PICK part \in Seq(Bytes) :
         part = SubSeq(buf, at - off + 1, at - off + 1 + to - from)
  <2>1. PICK lo \in Nat \ {0} : lo = at - off + 1
    BY <1>6
  <2>2. PICK hi \in Nat : hi = at - off + 1 + to - from
    BY <1>3, <1>6
  <2>3. hi <= Len(buf)
    BY <1>2, <1>3, <1>5, <1>6, <2>2
  <2>4. SubSeq(buf, lo, hi) \in Seq(Bytes)
    BY <2>1, <2>2, <2>3
  <2>. QED
    BY <2>1, <2>2, <2>4
<1>8. Len(part) = len /\ \A k \in 1 .. len : part[k] = buf[at - off + k]
  <2>1. at - off + 1 + to - from = at - off + len
    BY <1>3, <1>5, <1>6
  <2>2. PICK lo \in Nat \ {0} : lo = at - off + 1
    BY <1>6
  <2>3. PICK hi \in Nat : hi = at - off + len
    BY <1>6
  <2>4. lo <= hi /\ hi <= Len(buf) /\ hi - lo + 1 = len
    BY <1>2, <1>6, <2>2, <2>3
  <2>5. part = SubSeq(buf, lo, hi)
    BY <1>7, <2>1, <2>2, <2>3
  <2>6. Len(part) = hi - lo + 1 /\ \A k \in 1 .. hi - lo + 1 : part[k] = buf[lo + k - 1]
    BY <2>4, <2>5
  <2>. QED
    BY <2>2, <2>4, <2>6, <1>6
<1>9. pwrite_block(d, b, buf, off) = pwrite(d, part, at)
  BY <1>4, <1>7 DEF pwrite_block, from, to, start
<1>10. part # <<>>
  BY <1>8
<1>11. PICK w \in Seq(Bytes) : w = pwrite(d, part, at)
  BY <1>10, Pwrite, LazyFileAssumption
<1>12. /\ Len(w) = larger(Len(d), at + len) /\ Len(w) \in Nat
       /\ \A i \in 1 .. Len(w) :
             w[i] = IF at < i /\ i <= at + len THEN part[i - at] ELSE byte_below(d, i)
  <2>1. NUL \in Bytes
    BY LazyFileAssumption
  <2>2. overwrites(w, d, part, Len(part), at)
    BY <1>10, <1>11, <2>1, Pwrite
  <2>. QED
    BY <1>8, <2>2 DEF overwrites
<1>13. \A i \in Nat \ {0} : at < i /\ i <= at + len => i <= Len(w) /\ w[i] = buf[i - off]
  <2>. TAKE i \in Nat \ {0}
  <2>. HAVE at < i /\ i <= at + len
  <2>1. i \in 1 .. Len(w)
    BY <1>1, <1>12 DEF larger
  <2>2. w[i] = part[i - at]
    BY <1>12, <2>1
  <2>3. i - at \in 1 .. len /\ at - off + (i - at) = i - off
    BY <1>6
  <2>. QED
    BY <1>8, <2>1, <2>2, <2>3
<1>14. Len(d) <= Len(w) /\ Len(w) <= larger(Len(d), off + n)
  BY <1>1, <1>6, <1>12 DEF larger
<1>15. \A i \in 1 .. Len(w) : ~ (at < i /\ i <= at + len) => w[i] = byte_below(d, i)
  BY <1>12
<1>. QED
  BY <1>2, <1>6, <1>9, <1>11, <1>13, <1>14, <1>15

\* D is the file dk once the blocks of S have been written to it.
has_blocks(D, dk, S, buf, off) ==
    /\ D \in Seq(Bytes)
    /\ Len(dk) <= Len(D) /\ Len(D) <= larger(Len(dk), off + Len(buf))
    /\ \A i \in Nat \ {0} :
          (i - 1) \div IO_BLOCK_SIZE \in S /\ of_write(i, off, Len(buf)) =>
             i <= Len(D) /\ D[i] = buf[i - off]
    /\ \A i \in 1 .. Len(D) :
          ~ ((i - 1) \div IO_BLOCK_SIZE \in S /\ of_write(i, off, Len(buf))) =>
             D[i] = byte_below(dk, i)

LEMMA HasBlocks ==
    ASSUME NEW dk \in Seq(Bytes), NEW d \in Seq(Bytes), NEW e \in Seq(Bytes),
           NEW S, NEW T, NEW buf \in Seq(Bytes), NEW off \in Nat,
           has_blocks(d, dk, S, buf, off), has_blocks(e, d, T, buf, off)
    PROVE  has_blocks(e, dk, S \cup T, buf, off)
<1>. DEFINE in(i, U) == (i - 1) \div IO_BLOCK_SIZE \in U /\ of_write(i, off, Len(buf))
<1>1. /\ Len(d) \in Nat /\ Len(e) \in Nat /\ Len(dk) \in Nat /\ off + Len(buf) \in Nat
      /\ \A i : in(i, S \cup T) <=> in(i, S) \/ in(i, T)
  OBVIOUS
<1>2. /\ Len(dk) <= Len(d) /\ Len(d) <= larger(Len(dk), off + Len(buf))
      /\ \A i \in Nat \ {0} : in(i, S) => i <= Len(d) /\ d[i] = buf[i - off]
      /\ \A i \in 1 .. Len(d) : ~ in(i, S) => d[i] = byte_below(dk, i)
  BY DEF has_blocks
<1>3. /\ Len(d) <= Len(e) /\ Len(e) <= larger(Len(d), off + Len(buf))
      /\ \A i \in Nat \ {0} : in(i, T) => i <= Len(e) /\ e[i] = buf[i - off]
      /\ \A i \in 1 .. Len(e) : ~ in(i, T) => e[i] = byte_below(d, i)
  BY DEF has_blocks
<1>4. SUFFICES /\ Len(dk) <= Len(e) /\ Len(e) <= larger(Len(dk), off + Len(buf))
               /\ \A i \in Nat \ {0} : in(i, S \cup T) => i <= Len(e) /\ e[i] = buf[i - off]
               /\ \A i \in 1 .. Len(e) : ~ in(i, S \cup T) => e[i] = byte_below(dk, i)
  BY DEF has_blocks
<1>. HIDE DEF in
<1>5. Len(dk) <= Len(e) /\ Len(e) <= larger(Len(dk), off + Len(buf))
  BY <1>1, <1>2, <1>3 DEF larger
<1>6. ASSUME NEW i \in Nat \ {0}, in(i, S \cup T) PROVE i <= Len(e) /\ e[i] = buf[i - off]
  <2>1. CASE in(i, T)
    BY <1>3, <2>1
  <2>2. CASE ~ in(i, T) /\ in(i, S)
    <3>1. i \in 1 .. Len(d) /\ i \in 1 .. Len(e) /\ d[i] = buf[i - off]
      BY <1>1, <1>2, <1>3, <2>2
    <3>. QED
      BY <1>3, <2>2, <3>1 DEF byte_below
  <2>. QED
    BY <1>1, <1>6, <2>1, <2>2
<1>7. ASSUME NEW i \in 1 .. Len(e), ~ in(i, S \cup T) PROVE e[i] = byte_below(dk, i)
  <2>1. ~ in(i, S) /\ e[i] = byte_below(d, i)
    BY <1>1, <1>3, <1>7
  <2>2. CASE i <= Len(d)
    <3>1. i \in 1 .. Len(d)
      BY <1>1, <2>2
    <3>. QED
      BY <1>2, <2>1, <2>2, <3>1 DEF byte_below
  <2>3. CASE ~ (i <= Len(d))
    BY <1>1, <1>2, <2>1, <2>3 DEF byte_below
  <2>. QED
    BY <2>2, <2>3
<1>. QED
  BY <1>5, <1>6, <1>7

LEMMA HasBlock ==
    ASSUME NEW d \in Seq(Bytes), NEW buf \in Seq(Bytes), buf # <<>>, NEW off \in Nat,
           NEW b \in Int, covers(b, off, Len(buf))
    PROVE  has_blocks(pwrite_block(d, b, buf, off), d, {b}, buf, off)
<1>1. PICK D : D = pwrite_block(d, b, buf, off)
  OBVIOUS
<1>2. \A i \in Nat \ {0} : (i - 1) \div IO_BLOCK_SIZE \in {b} <=> in_block(i, b)
  BY BlockOf
<1>3. /\ D \in Seq(Bytes)
      /\ Len(d) <= Len(D) /\ Len(D) <= larger(Len(d), off + Len(buf))
      /\ \A i \in Nat \ {0} : in_block(i, b) /\ of_write(i, off, Len(buf)) =>
            i <= Len(D) /\ D[i] = buf[i - off]
      /\ \A i \in 1 .. Len(D) : ~ (in_block(i, b) /\ of_write(i, off, Len(buf))) =>
            D[i] = byte_below(d, i)
  BY <1>1, PwriteBlock
<1>4. \A i \in 1 .. Len(D) : i \in Nat \ {0}
  BY <1>3
<1>. QED
  BY <1>1, <1>2, <1>3, <1>4 DEF has_blocks

all_covered(S, off, n) == \A b \in S : b \in Int /\ covers(b, off, n)

\* What the file below is before each block.
LEMMA PwriteBefore ==
    ASSUME NEW dk \in Seq(Bytes), NEW buf \in Seq(Bytes), buf # <<>>, NEW off \in Nat,
           NEW S, all_covered(S, off, Len(buf))
    PROVE  \E before :
              /\ before[0] = dk
              /\ \A b \in Nat : before[b + 1] = IF b \in S
                                               THEN pwrite_block(before[b], b, buf, off)
                                               ELSE before[b]
              /\ pwrite_blocks(S, dk, buf, off) =
                    before[(off + Len(buf) - 1) \div IO_BLOCK_SIZE + 1]
<1>. DEFINE R(f) == f = [b \in Nat |->
                           IF b = 0 THEN dk
                           ELSE IF b - 1 \in S THEN pwrite_block(f[b - 1], b - 1, buf, off)
                           ELSE f[b - 1]]
            G == [b \in Nat |-> [d \in Seq(Bytes) |->
                    IF b - 1 \in S THEN pwrite_block(d, b - 1, buf, off) ELSE d]]
            before == CHOOSE f : R(f)
<1>1. \A b \in Int, d \in Seq(Bytes) :
         b \in S => pwrite_block(d, b, buf, off) \in Seq(Bytes)
  BY PwriteBlock DEF all_covered
<1>2. \A b \in Nat, d \in Seq(Bytes) :
         G[b][d] = IF b - 1 \in S THEN pwrite_block(d, b - 1, buf, off) ELSE d
  OBVIOUS
<1>3. G \in [Nat -> [Seq(Bytes) -> Seq(Bytes)]]
  BY <1>1
<1>. HIDE DEF G
<1>4. PICK f \in [Nat -> Seq(Bytes)] : f[0] = dk /\ \A b \in Nat : f[b + 1] = G[b + 1][f[b]]
  <2>1. PICK V : V = Seq(Bytes)
    OBVIOUS
  <2>2. PICK z \in V : z = dk
    BY <2>1
  <2>3. PICK H \in [Nat -> [V -> V]] : H = G
    BY <1>3, <2>1
  <2>4. \E f \in [Nat -> V] : unfolds(f, z, H)
    BY <2>2, <2>3, Recursion
  <2>. QED
    BY <2>1, <2>2, <2>3, <2>4 DEF unfolds
<1>5. ASSUME NEW b \in Nat
      PROVE  f[b] = IF b = 0 THEN dk
                    ELSE IF b - 1 \in S THEN pwrite_block(f[b - 1], b - 1, buf, off)
                    ELSE f[b - 1]
  <2>1. CASE b = 0
    BY <1>4, <2>1
  <2>2. CASE b # 0
    <3>1. b - 1 \in Nat /\ (b - 1) + 1 = b
      BY <2>2
    <3>2. f[b] = G[b][f[b - 1]] /\ f[b - 1] \in Seq(Bytes)
      BY <1>4, <3>1
    <3>. QED
      BY <1>2, <2>2, <3>2
  <2>. QED
    BY <2>1, <2>2
<1>6. \E g : R(g)
  <2>1. R(f)
    BY <1>4, <1>5
  <2>. HIDE DEF R
  <2>. QED
    BY <2>1
<1>7. R(before)
  <2>. HIDE DEF R
  <2>. QED
    BY <1>6
<1>8. pwrite_blocks(S, dk, buf, off) = before[(off + Len(buf) - 1) \div IO_BLOCK_SIZE + 1]
  BY DEF pwrite_blocks
<1>. HIDE DEF before
<1>9. /\ before[0] = dk
      /\ \A b \in Nat : before[b + 1] = IF b \in S THEN pwrite_block(before[b], b, buf, off)
                                        ELSE before[b]
  <2>1. \A b \in Nat : before[b] = IF b = 0 THEN dk
                          ELSE IF b - 1 \in S THEN pwrite_block(before[b - 1], b - 1, buf, off)
                          ELSE before[b - 1]
    <3>1. before = [b \in Nat |->
                      IF b = 0 THEN dk
                      ELSE IF b - 1 \in S THEN pwrite_block(before[b - 1], b - 1, buf, off)
                      ELSE before[b - 1]]
      BY <1>7
    <3>. QED
      BY <3>1
  <2>2. \A b \in Nat : b + 1 \in Nat /\ b + 1 # 0 /\ (b + 1) - 1 = b
    OBVIOUS
  <2>. QED
    BY <2>1, <2>2
<1>. HIDE DEF R
<1>. QED
  BY <1>8, <1>9

LEMMA PwriteBlocks ==
    ASSUME NEW dk \in Seq(Bytes), NEW buf \in Seq(Bytes), buf # <<>>, NEW off \in Nat,
           NEW S, all_covered(S, off, Len(buf))
    PROVE  has_blocks(pwrite_blocks(S, dk, buf, off), dk, S, buf, off)
<1>. DEFINE last == (off + Len(buf) - 1) \div IO_BLOCK_SIZE
<1>9. PICK before :
         /\ before[0] = dk
         /\ \A b \in Nat : before[b + 1] = IF b \in S THEN pwrite_block(before[b], b, buf, off)
                                          ELSE before[b]
         /\ pwrite_blocks(S, dk, buf, off) = before[last + 1]
  BY PwriteBefore
<1>. DEFINE I == {b \in Nat : has_blocks(before[b], dk, {c \in S : c < b}, buf, off)}
<1>10. \A b \in S : b \in Nat /\ b < last + 1
  <2>. TAKE b \in S
  <2>1. Len(buf) \in Nat \ {0}
    OBVIOUS
  <2>2. b \in Int /\ covers(b, off, Len(buf))
    BY DEF all_covered
  <2>3. b \in Nat
    BY <2>1, <2>2, Covered
  <2>. QED
    BY <2>2, <2>3, BlockSize DEF covers
<1>. HIDE DEF last
<1>11. 0 \in I
  <2>1. {c \in S : c < 0} = {}
    BY <1>10
  <2>2. has_blocks(dk, dk, {}, buf, off)
    BY DEF has_blocks, larger, byte_below
  <2>. QED
    BY <1>9, <2>1, <2>2
<1>12. ASSUME NEW b \in Nat, b \in I PROVE b + 1 \in I
  <2>1. PICK d \in Seq(Bytes) : d = before[b]
    BY <1>12 DEF has_blocks
  <2>2. has_blocks(d, dk, {c \in S : c < b}, buf, off)
    BY <1>12, <2>1
  <2>. DEFINE upto(n) == {c \in S : c < n}
  <2>. SUFFICES has_blocks(before[b + 1], dk, upto(b + 1), buf, off)
    OBVIOUS
  <2>3. CASE b \in S
    <3>1. upto(b + 1) = upto(b) \cup {b}
      <4>1. \A c \in S : c < b + 1 <=> c < b \/ c = b
        BY <1>10
      <4>. QED
        BY <2>3, <4>1
    <3>2. PICK e : e = pwrite_block(d, b, buf, off)
      OBVIOUS
    <3>3. has_blocks(e, d, {b}, buf, off)
      BY <2>3, <3>2, HasBlock DEF all_covered
    <3>4. e \in Seq(Bytes)
      BY <3>3 DEF has_blocks
    <3>5. PICK U : U = upto(b)
      OBVIOUS
    <3>6. PICK V : V = {b}
      OBVIOUS
    <3>7. has_blocks(e, dk, U \cup V, buf, off)
      BY <2>2, <3>3, <3>4, <3>5, <3>6, HasBlocks
    <3>8. before[b + 1] = e
      BY <1>9, <2>1, <2>3, <3>2
    <3>9. upto(b + 1) = U \cup V
      BY <3>1, <3>5, <3>6
    <3>. HIDE DEF upto
    <3>. QED
      BY <3>7, <3>8, <3>9
  <2>4. CASE b \notin S
    <3>1. upto(b + 1) = upto(b)
      <4>1. \A c \in S : c < b + 1 <=> c < b
        BY <1>10, <2>4
      <4>. QED
        BY <4>1
    <3>2. before[b + 1] = d
      BY <1>9, <2>1, <2>4
    <3>3. has_blocks(d, dk, upto(b), buf, off)
      BY <2>2
    <3>. HIDE DEF upto
    <3>. QED
      BY <3>1, <3>2, <3>3
  <2>. QED
    BY <2>3, <2>4
<1>13. Nat \subseteq I
  <2>. HIDE DEF I
  <2>. QED
    BY <1>11, <1>12, Induction
<1>14. last + 1 \in Nat
  <2>. HIDE DEF I
  <2>1. PICK m \in Nat : m = off + Len(buf) - 1
    <3>1. PICK n \in Nat \ {0} : n = Len(buf)
      OBVIOUS
    <3>2. off + n - 1 \in Nat
      OBVIOUS
    <3>. QED
      BY <3>1, <3>2
  <2>2. m \div IO_BLOCK_SIZE \in Nat
    BY BlockSize, Division
  <2>. QED
    BY <2>1, <2>2 DEF last
<1>15. {c \in S : c < last + 1} = S
  BY <1>10
<1>16. last + 1 \in I
  BY <1>13, <1>14
<1>. QED
  BY <1>9, <1>15, <1>16

-----------------------------------------------------------------------------
(* The block loop of a write.                                              *)

LEMMA BlockBelow ==
    ASSUME NEW dk \in Seq(Bytes), NEW b \in Int, start(b) \in Nat, NEW before \in Nat
    PROVE  /\ block_below(b, dk, before) \in Seq(Bytes)
           /\ Len(block_below(b, dk, before)) \in 0 .. IO_BLOCK_SIZE
           /\ before <= start(b) => Len(block_below(b, dk, before)) = 0
           /\ before > start(b) =>
                 \A i \in Index :
                    /\ i < Len(block_below(b, dk, before)) <=> start(b) + i + 1 <= Len(dk)
                    /\ i < Len(block_below(b, dk, before)) =>
                          block_below(b, dk, before)[i + 1] = dk[start(b) + i + 1]
<1>1. PICK s \in Nat : s = start(b)
  OBVIOUS
<1>2. PICK B \in Nat \ {0} : B = IO_BLOCK_SIZE
  BY BlockSize
<1>3. PICK len \in Nat : len = Len(dk)
  OBVIOUS
<1>4. PICK e \in Nat : e = smaller(s + B, len)
  BY DEF smaller
<1>5. PICK p : p = SubSeq(dk, s + 1, e)
  OBVIOUS
<1>6. e <= len /\ e <= s + B /\ (e < s + B => e = len)
  BY <1>4 DEF smaller
<1>7. /\ p \in Seq(Bytes) /\ Len(p) = IF s + 1 <= e THEN e - s ELSE 0
      /\ \A k \in 1 .. Len(p) : p[k] = dk[s + k]
  <2>1. PICK lo \in Nat \ {0} : lo = s + 1
    OBVIOUS
  <2>2. CASE lo <= e
    <3>1. p = SubSeq(dk, lo, e) /\ e <= Len(dk)
      BY <1>3, <1>5, <1>6, <2>1
    <3>2. /\ SubSeq(dk, lo, e) \in Seq(Bytes) /\ Len(SubSeq(dk, lo, e)) = e - lo + 1
          /\ \A k \in 1 .. (e - lo + 1) : SubSeq(dk, lo, e)[k] = dk[lo + k - 1]
      BY <2>2, <3>1
    <3>3. e - lo + 1 = e - s
      BY <2>1
    <3>4. \A k \in 1 .. (e - s) : lo + k - 1 = s + k
      BY <2>1
    <3>. QED
      BY <2>1, <2>2, <3>1, <3>2, <3>3, <3>4
  <2>3. CASE ~ (lo <= e)
    <3>1. SubSeq(dk, lo, e) = <<>>
      BY <2>3
    <3>. QED
      BY <1>5, <2>1, <2>3, <3>1
  <2>. QED
    BY <2>2, <2>3
<1>8. block_below(b, dk, before) = IF before > s THEN p ELSE <<>>
  BY <1>1, <1>2, <1>3, <1>4, <1>5 DEF block_below, pread, start
<1>9. CASE before > s
  <2>1. Len(p) \in 0 .. B
    BY <1>6, <1>7
  <2>2. \A i \in 0 .. B - 1 : i < Len(p) <=> s + i + 1 <= len
    BY <1>6, <1>7
  <2>3. \A i \in 0 .. B - 1 : i < Len(p) => p[i + 1] = dk[s + i + 1]
    <3>. TAKE i \in 0 .. B - 1
    <3>. HAVE i < Len(p)
    <3>1. i + 1 \in 1 .. Len(p) /\ s + (i + 1) = s + i + 1
      BY <2>1
    <3>. QED
      BY <1>7, <3>1
  <2>4. block_below(b, dk, before) = p /\ Index = 0 .. B - 1
    BY <1>2, <1>8, <1>9 DEF Index
  <2>. HIDE DEF Index
  <2>5. /\ p \in Seq(Bytes) /\ Len(p) \in 0 .. IO_BLOCK_SIZE
        /\ ~ (before <= start(b))
        /\ \A i \in Index : /\ i < Len(p) <=> start(b) + i + 1 <= Len(dk)
                            /\ i < Len(p) => p[i + 1] = dk[start(b) + i + 1]
    BY <1>1, <1>2, <1>3, <1>7, <1>9, <2>1, <2>2, <2>3, <2>4
  <2>. QED
    BY <2>4, <2>5
<1>10. CASE ~ (before > s)
  BY <1>1, <1>2, <1>8, <1>10
<1>. QED
  BY <1>9, <1>10

\* p is block b, which was old, once the write of buf at off is in the cache.
is_put(p, b, old, dk, buf, off, before) ==
    /\ p \in Cached
    /\ p.dirty
    /\ \A i \in Index : of_write(start(b) + i + 1, off, Len(buf)) =>
          i <= p.to /\ p.data[i] = buf[start(b) + i + 1 - off]
    /\ \A i \in Index : ~ of_write(start(b) + i + 1, off, Len(buf)) =>
          p.data[i] = IF old # NotCached THEN old.data[i]
                      ELSE IF before > start(b)
                      THEN byte_below(dk, start(b) + i + 1) ELSE NUL
    /\ old # NotCached => old.to <= p.to
    /\ old = NotCached /\ before > start(b) =>
          \A i \in Index : start(b) + i + 1 <= Len(dk) => i <= p.to
    /\ \/ start(b) + p.to < off + Len(buf)
       \/ old # NotCached /\ p.to = old.to
       \/ start(b) + p.to < Len(dk)

LEMMA NotCachedIsNot == NotCached \notin Cached /\ NotCached.dirty = FALSE
BY DEF NotCached, Cached, Index

LEMMA PutBlock ==
    ASSUME NEW b \in Blocks, NEW old \in Cached \cup {NotCached}, NEW dk \in Seq(Bytes),
           NEW buf \in Seq(Bytes), buf # <<>>, NEW off \in Nat, NEW before \in Nat,
           covers(b, off, Len(buf))
    PROVE  is_put(put_block(b, old, dk, buf, off, before), b, old, dk, buf, off, before)
<1>. DEFINE from == blk_readable_from(b, off)
            to == blk_readable_to(b, off, Len(buf))
            below == block_below(b, dk, before)
            p == put_block(b, old, dk, buf, off, before)
            s == start(b)
            data == [i \in Index |->
                      IF from <= i /\ i <= to THEN buf[s + i - off + 1]
                      ELSE IF old # NotCached THEN old.data[i]
                      ELSE IF i < Len(below) THEN below[i + 1] ELSE NUL]
            ptop == readable_to(to, old, below)
<1>1. b \in Int
  BY DEF Blocks
<1>2. PICK n \in Nat \ {0} : n = Len(buf)
  OBVIOUS
<1>3. /\ s \in Nat /\ from \in Index /\ to \in Index
      /\ off <= s + from /\ from <= to /\ s + to < off + n
      /\ \A i \in Int : in_block(i, b) /\ of_write(i, off, n) <=>
                           s + from < i /\ i <= s + to + 1
  BY <1>1, <1>2, Covered DEF of_write
<1>4. p = [data |-> data, to |-> ptop, dirty |-> TRUE]
  BY DEF put_block, start
<1>5. /\ below \in Seq(Bytes) /\ Len(below) \in 0 .. IO_BLOCK_SIZE
      /\ before <= s => Len(below) = 0
      /\ before > s => \A i \in Index : /\ i < Len(below) <=> s + i + 1 <= Len(dk)
                                        /\ i < Len(below) => below[i + 1] = dk[s + i + 1]
  BY <1>1, <1>3, BlockBelow
<1>6. \A i \in Index :
         data[i] = IF from <= i /\ i <= to THEN buf[s + i - off + 1]
                   ELSE IF old # NotCached THEN old.data[i]
                   ELSE IF i < Len(below) THEN below[i + 1] ELSE NUL
  OBVIOUS
<1>7. ptop = larger(to, IF old # NotCached THEN old.to ELSE Len(below) - 1)
  BY DEF readable_to
<1>8. p.data = data /\ p.to = ptop /\ p.dirty
  BY <1>4
<1>9. data = [i \in Index |-> data[i]]
  OBVIOUS
<1>. HIDE DEF from, to, below, data, p, ptop
<1>10. PICK t \in Nat : t = s
  BY <1>3
<1>11. \A i \in Index : of_write(s + i + 1, off, n) <=> from <= i /\ i <= to
  <2>. TAKE i \in Index
  <2>1. i \in Nat /\ i < IO_BLOCK_SIZE
    BY BlockSize DEF Index
  <2>2. in_block(t + i + 1, b)
    BY <1>10, <2>1, BlockSize DEF in_block
  <2>3. of_write(t + i + 1, off, n) <=> t + from < t + i + 1 /\ t + i + 1 <= t + to + 1
    BY SMTT(30), <1>3, <1>10, <2>1, <2>2
  <2>4. PICK x \in Nat : x = from
    BY <1>3 DEF Index
  <2>5. PICK y \in Nat : y = to
    BY <1>3 DEF Index
  <2>6. t + x < t + i + 1 /\ t + i + 1 <= t + y + 1 <=> x <= i /\ i <= y
    BY <2>1
  <2>. QED
    BY <1>10, <2>3, <2>4, <2>5, <2>6
<1>12. old # NotCached => old \in Cached
  OBVIOUS
<1>13. old # NotCached => old.to \in Index /\ \A i \in Index : old.data[i] \in Bytes
  BY <1>12 DEF Cached
<1>14. \A i \in Index : i \in Nat
  BY DEF Index
<1>15. ASSUME NEW i \in Index, of_write(s + i + 1, off, n)
       PROVE  data[i] = buf[s + i + 1 - off] /\ data[i] \in Bytes
  <2>1. from <= i /\ i <= to /\ i \in Nat
    BY <1>11, <1>14, <1>15
  <2>2. data[i] = buf[t + i - off + 1]
    BY <1>6, <1>10, <2>1
  <2>3. t + i - off + 1 = t + i + 1 - off /\ t + i + 1 - off \in 1 .. n
    BY SMTT(30), <1>10, <1>15, <2>1 DEF of_write
  <2>. QED
    BY <1>2, <1>10, <2>2, <2>3
<1>16. ASSUME NEW i \in Index, ~ of_write(s + i + 1, off, n)
       PROVE  /\ data[i] = IF old # NotCached THEN old.data[i]
                           ELSE IF before > s THEN byte_below(dk, s + i + 1) ELSE NUL
              /\ data[i] \in Bytes
  <2>1. i \in Nat /\ ~ (from <= i /\ i <= to) /\ from \in Nat /\ to \in Nat
    BY <1>3, <1>11, <1>14, <1>16
  <2>2. CASE old # NotCached
    <3>1. data[i] = old.data[i]
      BY <1>6, <2>1, <2>2
    <3>. QED
      BY <1>13, <2>2, <3>1
  <2>3. CASE old = NotCached
    <3>1. data[i] = IF i < Len(below) THEN below[i + 1] ELSE NUL
      BY <1>6, <2>1, <2>3
    <3>2. data[i] = IF before > s THEN byte_below(dk, s + i + 1) ELSE NUL
      BY <1>5, <1>10, <2>1, <3>1 DEF byte_below
    <3>3. i < Len(below) => below[i + 1] \in Bytes
      BY <1>5, <2>1
    <3>. QED
      BY <2>3, <3>1, <3>2, <3>3, LazyFileAssumption
  <2>. QED
    BY <2>2, <2>3
<1>17. data \in [Index -> Bytes]
  <2>1. \A i \in Index : data[i] \in Bytes
    BY <1>15, <1>16
  <2>. QED
    BY <1>9, <2>1
<1>18. /\ ptop \in Index /\ to <= ptop
       /\ ptop = to \/ (old # NotCached /\ ptop = old.to)
                    \/ (old = NotCached /\ ptop = Len(below) - 1 /\ Len(below) > 0)
       /\ old # NotCached => old.to <= ptop
       /\ old = NotCached => Len(below) - 1 <= ptop
  <2>1. PICK B \in Nat \ {0} : B = IO_BLOCK_SIZE /\ Index = 0 .. B - 1
    BY BlockSize DEF Index
  <2>2. CASE old # NotCached
    <3>1. PICK k \in 0 .. B - 1 : k = old.to
      BY <1>13, <2>1, <2>2
    <3>2. ptop = larger(to, k)
      BY <1>7, <2>2, <3>1
    <3>. QED
      BY <1>3, <2>1, <2>2, <3>1, <3>2 DEF larger
  <2>3. CASE old = NotCached
    <3>1. PICK l \in 0 .. B : l = Len(below)
      BY <1>5, <2>1
    <3>2. ptop = larger(to, l - 1)
      BY <1>7, <2>3, <3>1
    <3>3. to \in 0 .. B - 1
      BY <1>3, <2>1
    <3>4. ptop \in 0 .. B - 1 /\ to <= ptop /\ l - 1 <= ptop /\ (ptop = to \/ (ptop = l - 1 /\ l > 0))
      BY <3>2, <3>3 DEF larger
    <3>. QED
      BY <2>1, <2>3, <3>1, <3>4
  <2>. QED
    BY <2>2, <2>3
<1>19. p \in Cached
  BY <1>4, <1>17, <1>18 DEF Cached
<1>20. old = NotCached /\ before > s => \A i \in Index : s + i + 1 <= Len(dk) => i <= ptop
  BY <1>5, <1>14, <1>18, BlockSize DEF Index
<1>21. \/ s + ptop < off + n
       \/ old # NotCached /\ ptop = old.to
       \/ s + ptop < Len(dk)
  <2>1. CASE ptop = to
    BY <1>3, <2>1
  <2>2. CASE old = NotCached /\ ptop = Len(below) - 1 /\ Len(below) > 0
    <3>1. before > t
      BY <1>5, <1>10, <2>2
    <3>2. s + ptop + 1 <= Len(dk)
      BY <1>5, <1>10, <1>18, <2>2, <3>1
    <3>3. Len(dk) \in Nat /\ ptop \in Nat
      BY <1>14, <1>18
    <3>. QED
      BY <1>10, <3>2, <3>3
  <2>. QED
    BY <1>18, <2>1, <2>2
<1>22. \A i \in Index : of_write(s + i + 1, off, n) => i <= ptop
  <2>. TAKE i \in Index
  <2>. HAVE of_write(s + i + 1, off, n)
  <2>1. i <= to
    BY <1>11
  <2>. QED
    BY <1>3, <1>14, <1>18, <2>1
<1>. QED
  BY <1>2, <1>8, <1>15, <1>16, <1>18, <1>19, <1>20, <1>21, <1>22 DEF is_put, p

LEMMA DivisionGrows ==
    ASSUME NEW i \in Nat, NEW j \in Nat, i <= j
    PROVE  /\ i \div IO_BLOCK_SIZE <= j \div IO_BLOCK_SIZE
           /\ i \div IO_BLOCK_SIZE \in Nat /\ j \div IO_BLOCK_SIZE \in Nat
<1>. DEFINE p == i \div IO_BLOCK_SIZE
            q == j \div IO_BLOCK_SIZE
<1>1. p \in Nat /\ q \in Nat
  BY BlockSize, Division
<1>2. p * IO_BLOCK_SIZE <= i /\ j < q * IO_BLOCK_SIZE + IO_BLOCK_SIZE
  BY <1>1, BlockSize, Quotient
<1>. HIDE DEF p, q
<1>. SUFFICES ASSUME q < p PROVE FALSE
  BY <1>1 DEF p, q
<1>3. start(q) + IO_BLOCK_SIZE <= start(p)
  BY <1>1, BlockOrder
<1>4. start(q) \in Nat /\ start(p) \in Nat
  BY <1>1, Start
<1>. QED
  BY <1>2, <1>3, <1>4, BlockSize DEF start

\* The block that has byte i, and the place of the byte in it.
blk_of(i) == (i - 1) \div IO_BLOCK_SIZE

idx_of(i) == (i - 1) % IO_BLOCK_SIZE

LEMMA Place ==
    ASSUME NEW i \in Nat \ {0}
    PROVE  /\ blk_of(i) \in Nat /\ idx_of(i) \in Index /\ idx_of(i) \in Nat
           /\ start(blk_of(i)) \in Nat
           /\ i = start(blk_of(i)) + idx_of(i) + 1
           /\ in_block(i, blk_of(i))
           /\ i <= MaxSize => blk_of(i) \in Blocks
<1>1. PICK m \in Nat : m = i - 1
  OBVIOUS
<1>2. /\ m \div IO_BLOCK_SIZE \in Nat /\ m % IO_BLOCK_SIZE \in 0 .. IO_BLOCK_SIZE - 1
      /\ m = IO_BLOCK_SIZE * (m \div IO_BLOCK_SIZE) + (m % IO_BLOCK_SIZE)
  BY BlockSize, Division
<1>3. blk_of(i) \in Nat /\ idx_of(i) \in 0 .. IO_BLOCK_SIZE - 1
  BY <1>1, <1>2 DEF blk_of, idx_of
<1>4. PICK b \in Nat : b = blk_of(i)
  BY <1>3
<1>5. PICK k \in 0 .. IO_BLOCK_SIZE - 1 : k = idx_of(i)
  BY <1>3
<1>6. start(b) \in Nat
  BY Start
<1>7. IO_BLOCK_SIZE * b = start(b)
  BY BlockSize DEF start
<1>8. i = start(b) + k + 1
  BY <1>1, <1>2, <1>4, <1>5, <1>6, <1>7 DEF blk_of, idx_of
<1>9. in_block(i, b)
  BY <1>6, <1>8, BlockSize DEF in_block
<1>10. i <= MaxSize => b \in Blocks
  <2>. HAVE i <= MaxSize
  <2>1. PICK e \in Nat : e = MaxSize - 1 /\ m <= e
    BY <1>1, LazyFileAssumption
  <2>2. b <= e \div IO_BLOCK_SIZE /\ e \div IO_BLOCK_SIZE \in Int
    <3>1. m \div IO_BLOCK_SIZE <= e \div IO_BLOCK_SIZE /\ e \div IO_BLOCK_SIZE \in Nat
      BY <2>1, DivisionGrows
    <3>. QED
      BY <1>1, <1>4, <3>1 DEF blk_of
  <2>. QED
    BY <2>1, <2>2 DEF Blocks
<1>. QED
  BY <1>4, <1>5, <1>6, <1>8, <1>9, <1>10, BlockSize DEF Index

\* The other way: byte k of block b.
LEMMA PlaceOf ==
    ASSUME NEW b \in Nat, NEW k \in Index
    PROVE  /\ start(b) + k + 1 \in Nat \ {0} /\ start(b) \in Nat /\ k \in Nat
           /\ k < IO_BLOCK_SIZE
           /\ blk_of(start(b) + k + 1) = b
           /\ idx_of(start(b) + k + 1) = k
<1>1. start(b) \in Nat /\ k \in Nat /\ k < IO_BLOCK_SIZE /\ IO_BLOCK_SIZE \in Nat
  BY Start, BlockSize DEF Index
<1>2. PICK i \in Nat \ {0} : i = start(b) + k + 1
  BY <1>1
<1>3. blk_of(i) = b
  BY <1>1, <1>2, BlockOf DEF blk_of, in_block
<1>4. i = start(b) + idx_of(i) + 1 /\ idx_of(i) \in Nat
  BY <1>2, <1>3, Place
<1>5. idx_of(i) = k
  BY <1>1, <1>2, <1>4
<1>. QED
  BY <1>1, <1>2, <1>3, <1>5

LEMMA CoveredInFile ==
    ASSUME NEW off \in Nat, NEW n \in Nat \ {0}, NEW b \in Int, covers(b, off, n),
           off + n <= MaxSize
    PROVE  b \in Blocks
<1>1. b \in Nat
  BY Covered
<1>2. PICK last \in Nat : last = off + n - 1
  OBVIOUS
<1>3. PICK e \in Nat : e = MaxSize - 1 /\ last <= e
  BY <1>2, LazyFileAssumption
<1>4. last \div IO_BLOCK_SIZE <= e \div IO_BLOCK_SIZE
      /\ last \div IO_BLOCK_SIZE \in Int /\ e \div IO_BLOCK_SIZE \in Int
  BY <1>3, DivisionGrows
<1>5. b <= last \div IO_BLOCK_SIZE
  <2>1. off \div IO_BLOCK_SIZE \in Int
    BY Division, BlockSize
  <2>. QED
    BY <1>2, <1>4, <2>1 DEF covers
<1>. QED
  BY <1>1, <1>3, <1>4, <1>5 DEF Blocks

\* A block with a byte of the write is one of the blocks of the write.
LEMMA WrittenIsCovered ==
    ASSUME NEW off \in Nat, NEW n \in Nat \ {0}, NEW i \in Nat \ {0}, of_write(i, off, n)
    PROVE  covers(blk_of(i), off, n)
<1>1. PICK m \in Nat : m = i - 1
  OBVIOUS
<1>2. PICK last \in Nat : last = off + n - 1
  OBVIOUS
<1>3. off <= m /\ m <= last
  BY <1>1, <1>2 DEF of_write
<1>4. /\ off \div IO_BLOCK_SIZE <= m \div IO_BLOCK_SIZE
      /\ m \div IO_BLOCK_SIZE <= last \div IO_BLOCK_SIZE
      /\ off \div IO_BLOCK_SIZE \in Int /\ m \div IO_BLOCK_SIZE \in Int
      /\ last \div IO_BLOCK_SIZE \in Int
  BY <1>3, DivisionGrows
<1>. QED
  BY <1>1, <1>2, <1>4 DEF covers, blk_of

\* The block loop wrote the blocks of F below and put the others of the write in the
\* cache.
is_written(W, F, bl, dk, buf, off, before) ==
    /\ \A b \in F : b \in Blocks /\ covers(b, off, Len(buf)) /\ bl[b] = NotCached
    /\ W.blk = [b \in Blocks |-> W.blk[b]]
    /\ \A b \in Blocks :
          IF covers(b, off, Len(buf)) /\ b \notin F
          THEN is_put(W.blk[b], b, bl[b], dk, buf, off, before)
          ELSE W.blk[b] = bl[b]
    /\ has_blocks(W.disk, dk, F, buf, off)

LEMMA BlocksAreWritten ==
    ASSUME NEW bl \in [Blocks -> Cached \cup {NotCached}], NEW dk \in Seq(Bytes),
           NEW buf \in Seq(Bytes), buf # <<>>, NEW off \in Nat, NEW before \in Nat,
           off + Len(buf) <= MaxSize
    PROVE  \E F : is_written(write_blocks(bl, dk, buf, off, before), F, bl, dk, buf, off, before)
<1>. DEFINE range == (off \div IO_BLOCK_SIZE) .. ((off + Len(buf) - 1) \div IO_BLOCK_SIZE)
            missing == {b \in range : bl[b] = NotCached}
            F == {b \in missing : Cardinality({c \in missing : c < b}) >= free_pages(bl)}
            W == write_blocks(bl, dk, buf, off, before)
            new == [b \in Blocks |-> IF b \in range \ F
                                     THEN put_block(b, bl[b], dk, buf, off, before)
                                     ELSE bl[b]]
<1>1. W = [blk |-> new, disk |-> pwrite_blocks(F, dk, buf, off)]
  BY DEF write_blocks
<1>2. F \subseteq missing /\ \A b \in missing : bl[b] = NotCached /\ b \in range
  OBVIOUS
<1>3. \A b : b \in range <=> covers(b, off, Len(buf))
  BY DEF covers
<1>4. \A b \in range : b \in Int
  OBVIOUS
<1>5. \A b \in Blocks : new[b] = IF b \in range \ F
                                 THEN put_block(b, bl[b], dk, buf, off, before)
                                 ELSE bl[b]
  OBVIOUS
<1>6. new = [b \in Blocks |-> new[b]]
  OBVIOUS
<1>. HIDE DEF range, missing, F, new, W
<1>7. PICK n \in Nat \ {0} : n = Len(buf)
  OBVIOUS
<1>8. \A b \in F : b \in Blocks /\ covers(b, off, n) /\ bl[b] = NotCached /\ b \in Int
  BY <1>2, <1>3, <1>4, <1>7, CoveredInFile
<1>9. all_covered(F, off, n)
  BY <1>8 DEF all_covered
<1>10. has_blocks(pwrite_blocks(F, dk, buf, off), dk, F, buf, off)
  BY <1>7, <1>9, PwriteBlocks
<1>11. ASSUME NEW b \in Blocks
       PROVE  IF covers(b, off, n) /\ b \notin F
              THEN is_put(new[b], b, bl[b], dk, buf, off, before)
              ELSE new[b] = bl[b]
  <2>1. CASE covers(b, off, n) /\ b \notin F
    <3>1. new[b] = put_block(b, bl[b], dk, buf, off, before)
      BY <1>3, <1>5, <1>7, <2>1
    <3>2. PICK old \in Cached \cup {NotCached} : old = bl[b]
      OBVIOUS
    <3>3. is_put(put_block(b, old, dk, buf, off, before), b, old, dk, buf, off, before)
      BY <1>7, <2>1, PutBlock
    <3>. QED
      BY <2>1, <3>1, <3>2, <3>3
  <2>2. CASE ~ (covers(b, off, n) /\ b \notin F)
    BY <1>3, <1>5, <1>7, <2>2
  <2>. QED
    BY <2>1, <2>2
<1>12. W.blk = new /\ W.disk = pwrite_blocks(F, dk, buf, off)
  BY <1>1
<1>13. is_written(W, F, bl, dk, buf, off, before)
  BY <1>6, <1>7, <1>8, <1>10, <1>11, <1>12 DEF is_written
<1>. QED
  BY <1>13 DEF W

-----------------------------------------------------------------------------
(* What a write makes of the bytes of the file.                            *)

\* Byte i of a file with the cached blocks bl and the file dk below.
byte_of(bl, dk, i) ==
    IF bl[blk_of(i)] # NotCached THEN bl[blk_of(i)].data[idx_of(i)] ELSE byte_below(dk, i)

\* The first n bytes are where the reads and the syncs look for them.
readable_up_to(bl, n) ==
    \A b \in Blocks : bl[b] # NotCached =>
        /\ start(b) + bl[b].to < MaxSize
        /\ \A i \in Index : start(b) + i < n => i <= bl[b].to

below_up_to(bl, dk, n) ==
    \A i \in 1 .. n : ~ bl[blk_of(i)].dirty => i <= Len(dk) /\ byte_of(bl, dk, i) = dk[i]

stored(bl, dk, n) ==
    /\ bl \in [Blocks -> Cached \cup {NotCached}]
    /\ dk \in Seq(Bytes)
    /\ Len(dk) <= MaxSize
    /\ readable_up_to(bl, n)
    /\ below_up_to(bl, dk, n)

\* The bytes of buf are at off, and the others as they were, or zeros past the end
\* that the file had before.
has_bytes(W, bl, dk, buf, off, before) ==
    \A i \in 1 .. MaxSize :
        IF of_write(i, off, Len(buf)) THEN byte_of(W.blk, W.disk, i) = buf[i - off]
        ELSE \/ byte_of(W.blk, W.disk, i) = byte_of(bl, dk, i)
             \/ i > before /\ byte_of(W.blk, W.disk, i) = NUL

\* What changed below is part of the write.
changes_below(D, dk, buf, off) ==
    /\ Len(dk) <= Len(D) /\ Len(D) <= larger(Len(dk), off + Len(buf))
    /\ \A i \in 1 .. Len(D) :
          \/ of_write(i, off, Len(buf)) /\ D[i] = buf[i - off]
          \/ D[i] = byte_below(dk, i)

LEMMA WrittenBytes ==
    ASSUME NEW bl \in [Blocks -> Cached \cup {NotCached}], NEW dk \in Seq(Bytes),
           NEW buf \in Seq(Bytes), buf # <<>>, NEW off \in Nat, NEW before \in Nat,
           off + Len(buf) <= MaxSize,
           NEW W, NEW F, is_written(W, F, bl, dk, buf, off, before)
    PROVE  has_bytes(W, bl, dk, buf, off, before)
<1>1. PICK n \in Nat \ {0} : n = Len(buf)
  OBVIOUS
<1>2. /\ \A b \in F : b \in Blocks /\ covers(b, off, n) /\ bl[b] = NotCached
      /\ \A b \in Blocks :
            IF covers(b, off, n) /\ b \notin F
            THEN is_put(W.blk[b], b, bl[b], dk, buf, off, before)
            ELSE W.blk[b] = bl[b]
      /\ has_blocks(W.disk, dk, F, buf, off)
  BY <1>1 DEF is_written
<1>3. SUFFICES ASSUME NEW i \in 1 .. MaxSize
               PROVE  IF of_write(i, off, n) THEN byte_of(W.blk, W.disk, i) = buf[i - off]
                      ELSE \/ byte_of(W.blk, W.disk, i) = byte_of(bl, dk, i)
                           \/ i > before /\ byte_of(W.blk, W.disk, i) = NUL
  BY <1>1 DEF has_bytes
<1>4. i \in Nat \ {0}
  BY LazyFileAssumption
<1>5. PICK b \in Blocks : b = blk_of(i)
  BY <1>4, Place
<1>6. PICK k \in Index : k = idx_of(i)
  BY <1>4, Place
<1>7. i = start(b) + k + 1 /\ start(b) \in Nat /\ k \in Nat
  BY <1>4, <1>5, <1>6, Place
<1>8. /\ byte_of(W.blk, W.disk, i) = IF W.blk[b] # NotCached THEN W.blk[b].data[k]
                                     ELSE byte_below(W.disk, i)
      /\ byte_of(bl, dk, i) = IF bl[b] # NotCached THEN bl[b].data[k] ELSE byte_below(dk, i)
  BY <1>5, <1>6 DEF byte_of
<1>9. /\ W.disk \in Seq(Bytes) /\ Len(dk) <= Len(W.disk)
      /\ b \in F /\ of_write(i, off, n) => i <= Len(W.disk) /\ W.disk[i] = buf[i - off]
      /\ i \in 1 .. Len(W.disk) /\ ~ of_write(i, off, n) => W.disk[i] = byte_below(dk, i)
  BY <1>1, <1>2, <1>4, <1>5 DEF has_blocks, blk_of
<1>10. CASE covers(b, off, n) /\ b \notin F
  <2>1. is_put(W.blk[b], b, bl[b], dk, buf, off, before)
    BY <1>2, <1>10
  <2>2. /\ W.blk[b] \in Cached
        /\ of_write(i, off, n) => W.blk[b].data[k] = buf[i - off]
        /\ ~ of_write(i, off, n) =>
              W.blk[b].data[k] = IF bl[b] # NotCached THEN bl[b].data[k]
                                 ELSE IF before > start(b) THEN byte_below(dk, i) ELSE NUL
    <3>1. /\ W.blk[b] \in Cached
          /\ of_write(start(b) + k + 1, off, n) =>
                W.blk[b].data[k] = buf[start(b) + k + 1 - off]
          /\ ~ of_write(start(b) + k + 1, off, n) =>
                W.blk[b].data[k] = IF bl[b] # NotCached THEN bl[b].data[k]
                                   ELSE IF before > start(b)
                                   THEN byte_below(dk, start(b) + k + 1) ELSE NUL
      BY <1>1, <2>1 DEF is_put
    <3>. QED
      BY <1>7, <3>1
  <2>3. W.blk[b] # NotCached
    BY <2>2, NotCachedIsNot
  <2>4. ~ (before > start(b)) => i > before
    BY <1>7
  <2>. QED
    BY <1>8, <2>2, <2>3, <2>4
<1>11. CASE ~ (covers(b, off, n) /\ b \notin F)
  <2>1. W.blk[b] = bl[b]
    BY <1>2, <1>11
  <2>2. CASE of_write(i, off, n)
    <3>1. covers(b, off, n)
      BY <1>4, <1>5, <2>2, WrittenIsCovered
    <3>2. b \in F /\ bl[b] = NotCached
      BY <1>2, <1>11, <3>1
    <3>. QED
      BY <1>8, <1>9, <2>1, <2>2, <3>2 DEF byte_below
  <2>3. CASE ~ of_write(i, off, n)
    <3>1. byte_below(W.disk, i) = byte_below(dk, i)
      BY <1>4, <1>9, <2>3 DEF byte_below
    <3>. QED
      BY <1>8, <2>1, <2>3, <3>1
  <2>. QED
    BY <2>2, <2>3
<1>. QED
  BY <1>10, <1>11

LEMMA WrittenIsStored ==
    ASSUME NEW bl, NEW dk, NEW buf \in Seq(Bytes), buf # <<>>, NEW off \in Nat,
           NEW n \in 0 .. MaxSize, stored(bl, dk, n), NEW before \in 0 .. n, off <= n,
           n <= larger(before, off + Len(buf)), off + Len(buf) <= MaxSize,
           NEW W, NEW F, is_written(W, F, bl, dk, buf, off, before)
    PROVE  /\ stored(W.blk, W.disk, larger(before, off + Len(buf)))
           /\ changes_below(W.disk, dk, buf, off)
<1>0. n \in Nat /\ n <= MaxSize /\ before \in Nat /\ before <= n /\ MaxSize \in Nat
  BY LazyFileAssumption
<1>1. PICK len \in Nat \ {0} : len = Len(buf)
  OBVIOUS
<1>2. /\ \A b \in F : b \in Blocks /\ covers(b, off, len) /\ bl[b] = NotCached
      /\ W.blk = [b \in Blocks |-> W.blk[b]]
      /\ \A b \in Blocks :
            IF covers(b, off, len) /\ b \notin F
            THEN is_put(W.blk[b], b, bl[b], dk, buf, off, before)
            ELSE W.blk[b] = bl[b]
      /\ has_blocks(W.disk, dk, F, buf, off)
  BY <1>1 DEF is_written
<1>3. /\ bl \in [Blocks -> Cached \cup {NotCached}]
      /\ dk \in Seq(Bytes) /\ Len(dk) <= MaxSize /\ Len(dk) \in Nat
      /\ readable_up_to(bl, n) /\ below_up_to(bl, dk, n)
  BY DEF stored
<1>4. PICK end \in Nat : end = larger(before, off + len) /\ end <= MaxSize
  BY <1>0, <1>1 DEF larger
<1>5. changes_below(W.disk, dk, buf, off)
  BY <1>1, <1>2 DEF has_blocks, changes_below
<1>6. W.disk \in Seq(Bytes) /\ Len(W.disk) \in Nat /\ Len(dk) <= Len(W.disk) /\ Len(W.disk) <= MaxSize
  <2>1. W.disk \in Seq(Bytes) /\ Len(dk) <= Len(W.disk) /\ Len(W.disk) <= larger(Len(dk), off + len)
    BY <1>1, <1>2 DEF has_blocks
  <2>. QED
    BY <1>1, <1>3, <2>1, LazyFileAssumption DEF larger
<1>7. W.blk \in [Blocks -> Cached \cup {NotCached}]
  <2>1. \A b \in Blocks : W.blk[b] \in Cached \cup {NotCached}
    BY <1>2, <1>3 DEF is_put
  <2>. QED
    BY <1>2, <2>1
\* What is not of the write and before the new end was before the old one.
<1>8. \A i \in Nat \ {0} : i <= end /\ ~ of_write(i, off, len) => i <= n
  BY <1>0, <1>1, <1>4 DEF of_write, larger
<1>9. readable_up_to(W.blk, end)
  <2>1. SUFFICES ASSUME NEW b \in Blocks, W.blk[b] # NotCached
                 PROVE  /\ start(b) + W.blk[b].to < MaxSize
                        /\ \A i \in Index : start(b) + i < end => i <= W.blk[b].to
    BY DEF readable_up_to
  <2>2. b \in Nat /\ start(b) \in Nat
    BY Start DEF Blocks
  <2>3. bl[b] # NotCached => /\ start(b) + bl[b].to < MaxSize
                             /\ \A i \in Index : start(b) + i < n => i <= bl[b].to
    BY <1>3 DEF readable_up_to
  <2>4. bl[b] \in Cached \cup {NotCached} /\ W.blk[b] \in Cached
    BY <1>3, <1>7, <2>1
  <2>5. CASE covers(b, off, len) /\ b \notin F
    <3>1. is_put(W.blk[b], b, bl[b], dk, buf, off, before)
      BY <1>2, <2>5
    <3>2. /\ \A i \in Index : of_write(start(b) + i + 1, off, len) => i <= W.blk[b].to
          /\ bl[b] # NotCached => bl[b].to <= W.blk[b].to
          /\ bl[b] = NotCached /\ before > start(b) =>
                \A i \in Index : start(b) + i + 1 <= Len(dk) => i <= W.blk[b].to
          /\ \/ start(b) + W.blk[b].to < off + len
             \/ bl[b] # NotCached /\ W.blk[b].to = bl[b].to
             \/ start(b) + W.blk[b].to < Len(dk)
      BY <1>1, <3>1 DEF is_put
    <3>3. W.blk[b].to \in Nat /\ (bl[b] # NotCached => bl[b].to \in Nat)
      BY <2>4 DEF Cached, Index
    <3>4. start(b) + W.blk[b].to < MaxSize
      <4>1. PICK t \in Nat : t = start(b) + W.blk[b].to
        BY SMTT(30), <2>2, <3>3
      <4>2. bl[b] # NotCached /\ W.blk[b].to = bl[b].to => t < MaxSize
        BY <2>3, <4>1
      <4>3. t < off + len \/ t < Len(dk) => t < MaxSize
        BY <1>0, <1>1, <1>3
      <4>. QED
        BY <3>2, <4>1, <4>2, <4>3
    <3>5. ASSUME NEW i \in Index, start(b) + i < end PROVE i <= W.blk[b].to
      <4>1. i \in Nat
        BY DEF Index
      <4>2. CASE of_write(start(b) + i + 1, off, len)
        BY <3>2, <4>2
      <4>3. CASE start(b) + i < off
        <5>1. PICK k \in Index : k = blk_readable_from(b, off)
          BY <2>2, <2>5, Covered
        <5>2. /\ k \in Nat /\ off <= start(b) + k /\ start(b) + k < off + len
          <6>1. PICK t \in Index : t = blk_readable_to(b, off, len)
            BY <2>2, <2>5, Covered
          <6>2. off <= start(b) + k /\ k <= t /\ start(b) + t < off + len
            BY <2>2, <2>5, <5>1, <6>1, Covered
          <6>3. k \in Nat /\ t \in Nat
            BY DEF Index
          <6>. QED
            BY <2>2, <6>2, <6>3
        <5>3. k <= W.blk[b].to
          <6>1. of_write(start(b) + k + 1, off, len)
            BY <2>2, <5>2 DEF of_write
          <6>. QED
            BY <3>2, <6>1
        <5>. QED
          BY SMTT(30), <2>2, <3>3, <4>1, <4>3, <5>2, <5>3
      <4>4. CASE ~ of_write(start(b) + i + 1, off, len) /\ off <= start(b) + i
        <5>1. off + len <= start(b) + i /\ start(b) + i < before /\ start(b) + i < n
          BY <1>0, <1>1,  <1>4, <2>2, <3>5, <4>1, <4>4 DEF of_write, larger
        <5>2. CASE bl[b] # NotCached
          BY SMTT(30), <2>3, <3>2, <3>3, <4>1, <5>1, <5>2
        <5>3. CASE bl[b] = NotCached
          <6>1. start(b) + i + 1 \in 1 .. n /\ blk_of(start(b) + i + 1) = b
            <7>1. start(b) + i + 1 \in 1 .. n
              BY <1>0, <2>2, <4>1, <5>1
            <7>. QED
              BY <2>2, <7>1, PlaceOf
          <6>2. ~ bl[b].dirty
            BY <5>3, NotCachedIsNot
          <6>3. start(b) + i + 1 <= Len(dk)
            BY <1>3, <6>1, <6>2 DEF below_up_to
          <6>4. before > start(b)
            BY <2>2, <4>1, <5>1
          <6>. QED
            BY <3>2, <5>3, <6>3, <6>4
        <5>. QED
          BY <5>2, <5>3
      <4>. QED
        BY <2>2, <4>1, <4>2, <4>3, <4>4
    <3>. QED
      BY <3>4, <3>5
  <2>6. CASE ~ (covers(b, off, len) /\ b \notin F)
    <3>1. W.blk[b] = bl[b]
      BY <1>2, <2>6
    <3>2. ~ covers(b, off, len)
      BY <1>2, <2>1, <2>6, <3>1
    <3>3. ASSUME NEW i \in Index, start(b) + i < end PROVE start(b) + i < n
      <4>1. /\ i \in Nat /\ start(b) + i + 1 \in Nat \ {0}
            /\ blk_of(start(b) + i + 1) = b
        BY <2>2, PlaceOf
      <4>2. PICK j \in Nat \ {0} : j = start(b) + i + 1
        BY <4>1
      <4>3. ~ of_write(j, off, len)
        BY <3>2, <4>1, <4>2, WrittenIsCovered
      <4>4. j <= end
        BY <2>2, <3>3, <4>1, <4>2
      <4>. QED
        BY <1>8, <2>2, <4>1, <4>2, <4>3, <4>4
    <3>. QED
      BY <2>1, <2>3, <3>1, <3>3
  <2>. QED
    BY <2>5, <2>6
<1>10. below_up_to(W.blk, W.disk, end)
  <2>1. SUFFICES ASSUME NEW i \in 1 .. end, ~ W.blk[blk_of(i)].dirty
                 PROVE  i <= Len(W.disk) /\ byte_of(W.blk, W.disk, i) = W.disk[i]
    BY DEF below_up_to
  <2>2. i \in Nat \ {0} /\ i <= MaxSize
    BY <1>0, <1>4
  <2>3. PICK b \in Blocks : b = blk_of(i)
    BY <2>2, Place
  <2>4. PICK k : k = idx_of(i)
    OBVIOUS
  <2>5. /\ byte_of(W.blk, W.disk, i) = IF W.blk[b] # NotCached THEN W.blk[b].data[k]
                                       ELSE byte_below(W.disk, i)
        /\ byte_of(bl, dk, i) = IF bl[b] # NotCached THEN bl[b].data[k] ELSE byte_below(dk, i)
    BY <2>3, <2>4 DEF byte_of
  <2>6. ~ (covers(b, off, len) /\ b \notin F)
    BY <1>2, <2>1, <2>3 DEF is_put
  <2>7. W.blk[b] = bl[b]
    BY <1>2, <2>6
  <2>8. /\ b \in F /\ of_write(i, off, len) => i <= Len(W.disk) /\ W.disk[i] = buf[i - off]
        /\ i \in 1 .. Len(W.disk) /\ ~ of_write(i, off, len) => W.disk[i] = byte_below(dk, i)
    BY <1>1, <1>2, <2>2, <2>3 DEF has_blocks, blk_of
  <2>9. CASE of_write(i, off, len)
    <3>1. b \in F
      BY <2>2, <2>3, <2>6, <2>9, WrittenIsCovered
    <3>2. W.blk[b] = NotCached /\ i <= Len(W.disk)
      BY <1>2, <2>7, <2>8, <2>9, <3>1
    <3>. QED
      BY <2>5, <3>2 DEF byte_below
  <2>10. CASE ~ of_write(i, off, len)
    <3>1. i \in 1 .. n
      BY <1>4, <1>8, <2>2, <2>10
    <3>2. i <= Len(dk) /\ byte_of(bl, dk, i) = dk[i]
      BY <1>3, <2>1, <2>3, <2>7, <3>1 DEF below_up_to
    <3>3. i <= Len(W.disk) /\ W.disk[i] = dk[i]
      BY <1>3, <1>6, <2>2, <2>8, <2>10, <3>2 DEF byte_below
    <3>. QED
      BY <2>5, <2>7, <3>2, <3>3 DEF byte_below
  <2>. QED
    BY <2>9, <2>10
<1>11. stored(W.blk, W.disk, end)
  BY <1>6, <1>7, <1>9, <1>10 DEF stored
<1>. QED
  BY <1>1, <1>4, <1>5, <1>11

LEMMA WriteBlocks ==
    ASSUME NEW bl, NEW dk, NEW buf \in Seq(Bytes), buf # <<>>, NEW off \in Nat,
           NEW n \in 0 .. MaxSize, stored(bl, dk, n), NEW before \in 0 .. n, off <= n,
           n <= larger(before, off + Len(buf)), off + Len(buf) <= MaxSize,
           NEW W, W = write_blocks(bl, dk, buf, off, before)
    PROVE  /\ stored(W.blk, W.disk, larger(before, off + Len(buf)))
           /\ has_bytes(W, bl, dk, buf, off, before)
           /\ changes_below(W.disk, dk, buf, off)
<1>1. bl \in [Blocks -> Cached \cup {NotCached}] /\ dk \in Seq(Bytes) /\ before \in Nat
  BY DEF stored
<1>2. PICK F : is_written(W, F, bl, dk, buf, off, before)
  BY <1>1, BlocksAreWritten
<1>3. has_bytes(W, bl, dk, buf, off, before)
  BY <1>1, <1>2, WrittenBytes
<1>. QED
  BY <1>2, <1>3, WrittenIsStored

LEMMA Zeros ==
    ASSUME NEW n \in Nat
    PROVE  /\ zeros(n) \in Seq(Bytes) /\ Len(zeros(n)) = n
           /\ \A i \in 1 .. n : zeros(n)[i] = NUL
           /\ n # 0 => zeros(n) # <<>>
<1>. DEFINE z == [i \in 1 .. n |-> NUL]
<1>1. z \in [1 .. n -> Bytes] /\ \A i \in 1 .. n : z[i] = NUL
  BY LazyFileAssumption
<1>2. zeros(n) = z
  BY DEF zeros
<1>. HIDE DEF z
<1>3. z \in Seq(Bytes) /\ Len(z) = n
  BY <1>1
<1>. QED
  BY <1>1, <1>2, <1>3

\* The file once its gap up to off has been filled.
is_filled(W, off) ==
    /\ stored(W.blk, W.disk, larger(size, off))
    /\ \A i \in 1 .. larger(size, off) :
          byte_of(W.blk, W.disk, i) = IF i <= size THEN byte_of(blk, disk, i) ELSE NUL
    /\ Len(disk) <= Len(W.disk) /\ Len(W.disk) <= larger(Len(disk), off)
    /\ \A i \in 1 .. Len(W.disk) :
          W.disk[i] = byte_below(disk, i) \/ (size < i /\ i <= off /\ W.disk[i] = NUL)

LEMMA Filled ==
    ASSUME size \in 0 .. MaxSize, stored(blk, disk, size), NEW off \in 0 .. MaxSize, NEW W,
           W = IF size < off THEN write_blocks(blk, disk, zeros(off - size), size, size)
               ELSE [blk |-> blk, disk |-> disk]
    PROVE  is_filled(W, off)
<1>1. /\ size \in Nat /\ MaxSize \in Nat /\ off \in Nat /\ size <= MaxSize
      /\ disk \in Seq(Bytes) /\ Len(disk) \in Nat
  BY LazyFileAssumption DEF stored
<1>2. CASE size < off
  <2>1. PICK n \in Nat \ {0} : n = off - size
    BY <1>1, <1>2
  <2>2. PICK buf \in Seq(Bytes) : buf = zeros(n) /\ Len(buf) = n /\ buf # <<>>
                                  /\ \A i \in 1 .. n : buf[i] = NUL
    BY Zeros
  <2>3. W = write_blocks(blk, disk, buf, size, size)
    BY <1>2, <2>1, <2>2
  <2>4. size + Len(buf) = off /\ larger(size, off) = off
    BY <1>1, <1>2, <2>1, <2>2 DEF larger
  <2>5. /\ stored(W.blk, W.disk, off)
        /\ has_bytes(W, blk, disk, buf, size, size)
        /\ changes_below(W.disk, disk, buf, size)
    <3>1. PICK s \in 0 .. MaxSize : s = size
      BY <1>1
    <3>2. stored(blk, disk, s) /\ s \in 0 .. s /\ s <= larger(s, s + Len(buf))
          /\ s + Len(buf) <= MaxSize /\ s \in Nat /\ s <= s
      BY <1>1, <2>2, <2>4, <3>1 DEF larger
    <3>3. W = write_blocks(blk, disk, buf, s, s)
      BY <2>3, <3>1
    <3>4. /\ stored(W.blk, W.disk, larger(s, s + Len(buf)))
          /\ has_bytes(W, blk, disk, buf, s, s)
          /\ changes_below(W.disk, disk, buf, s)
      BY <2>2, <3>2, <3>3, WriteBlocks
    <3>. QED
      BY <2>4, <3>1, <3>4
  <2>6. ASSUME NEW i \in 1 .. off
        PROVE  byte_of(W.blk, W.disk, i) = IF i <= size THEN byte_of(blk, disk, i) ELSE NUL
    <3>1. i \in 1 .. MaxSize
      BY <1>1
    <3>2. IF of_write(i, size, n) THEN byte_of(W.blk, W.disk, i) = buf[i - size]
          ELSE \/ byte_of(W.blk, W.disk, i) = byte_of(blk, disk, i)
               \/ i > size /\ byte_of(W.blk, W.disk, i) = NUL
      BY <2>2, <2>5, <3>1 DEF has_bytes
    <3>3. of_write(i, size, n) <=> ~ (i <= size)
      BY <1>1, <2>1 DEF of_write
    <3>4. ~ (i <= size) => buf[i - size] = NUL
      BY <1>1, <2>1, <2>2
    <3>. QED
      BY <3>2, <3>3, <3>4
  <2>7. ASSUME NEW i \in 1 .. Len(W.disk)
        PROVE  W.disk[i] = byte_below(disk, i) \/ (size < i /\ i <= off /\ W.disk[i] = NUL)
    <3>1. \/ of_write(i, size, n) /\ W.disk[i] = buf[i - size]
          \/ W.disk[i] = byte_below(disk, i)
      BY <2>2, <2>5 DEF changes_below
    <3>2. of_write(i, size, n) => size < i /\ i <= off /\ buf[i - size] = NUL
      BY <1>1, <2>1, <2>2 DEF of_write
    <3>. QED
      BY <3>1, <3>2
  <2>8. Len(disk) <= Len(W.disk) /\ Len(W.disk) <= larger(Len(disk), off)
    BY <2>4, <2>5 DEF changes_below
  <2>. QED
    BY <2>4, <2>5, <2>6, <2>7, <2>8 DEF is_filled
<1>3. CASE ~ (size < off)
  <2>1. W.blk = blk /\ W.disk = disk /\ larger(size, off) = size
    BY <1>1, <1>3 DEF larger
  <2>2. \A i \in 1 .. Len(disk) : disk[i] = byte_below(disk, i)
    BY DEF byte_below
  <2>3. Len(disk) <= larger(Len(disk), off)
    BY <1>1 DEF larger
  <2>4. \A i \in 1 .. size : i <= size
    BY <1>1
  <2>. QED
    BY <1>1, <2>1, <2>2, <2>3, <2>4 DEF is_filled
<1>. QED
  BY <1>2, <1>3

\* The file once buf has been written at off.
is_file_with(W, buf, off) ==
    /\ stored(W.blk, W.disk, larger(size, off + Len(buf)))
    /\ \A i \in 1 .. larger(size, off + Len(buf)) :
          byte_of(W.blk, W.disk, i) = IF of_write(i, off, Len(buf)) THEN buf[i - off]
                                      ELSE IF i <= size THEN byte_of(blk, disk, i) ELSE NUL
    /\ Len(disk) <= Len(W.disk) /\ Len(W.disk) <= larger(Len(disk), off + Len(buf))
    /\ \A i \in 1 .. Len(W.disk) :
          \/ of_write(i, off, Len(buf)) /\ W.disk[i] = buf[i - off]
          \/ W.disk[i] = byte_below(disk, i)
          \/ size < i /\ i <= off /\ W.disk[i] = NUL

LEMMA LfsWrite ==
    ASSUME size \in 0 .. MaxSize, stored(blk, disk, size), NEW off \in Nat,
           NEW buf \in Seq(Bytes), buf # <<>>, off + Len(buf) <= MaxSize
    PROVE  is_file_with(lfs_write(off, buf), buf, off)
<1>1. /\ size \in Nat /\ MaxSize \in Nat /\ size <= MaxSize
      /\ disk \in Seq(Bytes) /\ Len(disk) \in Nat
  BY LazyFileAssumption DEF stored
<1>2. PICK len \in Nat \ {0} : len = Len(buf)
  OBVIOUS
<1>3. off \in 0 .. MaxSize
  BY <1>1, <1>2
<1>4. PICK V : V = IF size < off THEN write_blocks(blk, disk, zeros(off - size), size, size)
                   ELSE [blk |-> blk, disk |-> disk]
  OBVIOUS
<1>5. is_filled(V, off)
  BY <1>3, <1>4, Filled
<1>6. PICK W : W = write_blocks(V.blk, V.disk, buf, off, size)
  OBVIOUS
<1>7. lfs_write(off, buf) = W
  BY <1>4, <1>6 DEF lfs_write
<1>8. PICK n \in 0 .. MaxSize : n = larger(size, off)
  BY <1>1, <1>3 DEF larger
<1>9. PICK end \in 0 .. MaxSize : end = larger(size, off + len)
  BY <1>1, <1>2 DEF larger
<1>10. PICK bl : bl = V.blk
  OBVIOUS
<1>11. PICK dk : dk = V.disk
  OBVIOUS
<1>12. /\ stored(bl, dk, n)
       /\ \A i \in 1 .. n : byte_of(bl, dk, i) = IF i <= size THEN byte_of(blk, disk, i) ELSE NUL
       /\ Len(disk) <= Len(dk) /\ Len(dk) <= larger(Len(disk), off)
       /\ \A i \in 1 .. Len(dk) :
             dk[i] = byte_below(disk, i) \/ (size < i /\ i <= off /\ dk[i] = NUL)
  BY <1>5, <1>8, <1>10, <1>11 DEF is_filled
<1>13. /\ stored(W.blk, W.disk, end)
       /\ has_bytes(W, bl, dk, buf, off, size)
       /\ changes_below(W.disk, dk, buf, off)
  <2>1. PICK s \in 0 .. n : s = size
    BY <1>1, <1>3, <1>8 DEF larger
  <2>2. off <= n /\ n <= larger(s, off + Len(buf))
    BY <1>1, <1>2, <1>8, <2>1 DEF larger
  <2>3. W = write_blocks(bl, dk, buf, off, s)
    BY <1>6, <1>10, <1>11, <2>1
  <2>4. /\ stored(W.blk, W.disk, larger(s, off + Len(buf)))
        /\ has_bytes(W, bl, dk, buf, off, s)
        /\ changes_below(W.disk, dk, buf, off)
    BY <1>12, <2>2, <2>3, WriteBlocks
  <2>. QED
    BY <1>2, <1>9, <2>1, <2>4
<1>14. Len(dk) \in Nat /\ Len(W.disk) \in Nat
  BY <1>12, <1>13 DEF stored
<1>15. ASSUME NEW i \in 1 .. end
       PROVE  byte_of(W.blk, W.disk, i) = IF of_write(i, off, len) THEN buf[i - off]
                                          ELSE IF i <= size THEN byte_of(blk, disk, i) ELSE NUL
  <2>1. i \in 1 .. MaxSize /\ i \in Nat
    BY <1>1
  <2>2. IF of_write(i, off, len) THEN byte_of(W.blk, W.disk, i) = buf[i - off]
        ELSE \/ byte_of(W.blk, W.disk, i) = byte_of(bl, dk, i)
             \/ i > size /\ byte_of(W.blk, W.disk, i) = NUL
    BY <1>2, <1>13, <2>1 DEF has_bytes
  <2>3. ~ of_write(i, off, len) => i \in 1 .. n
    BY <1>1, <1>8, <1>9, <2>1 DEF of_write, larger
  <2>4. i > size <=> ~ (i <= size)
    BY <1>1, <2>1
  <2>. QED
    BY <1>12, <2>2, <2>3, <2>4
<1>16. /\ Len(disk) <= Len(W.disk) /\ Len(W.disk) <= larger(Len(disk), off + len)
  <2>1. Len(dk) <= Len(W.disk) /\ Len(W.disk) <= larger(Len(dk), off + len)
    BY <1>2, <1>13 DEF changes_below
  <2>. QED
    BY <1>1, <1>12, <1>14, <2>1 DEF larger
<1>17. ASSUME NEW i \in 1 .. Len(W.disk)
       PROVE  \/ of_write(i, off, len) /\ W.disk[i] = buf[i - off]
              \/ W.disk[i] = byte_below(disk, i)
              \/ size < i /\ i <= off /\ W.disk[i] = NUL
  <2>1. \/ of_write(i, off, len) /\ W.disk[i] = buf[i - off]
        \/ W.disk[i] = byte_below(dk, i)
    BY <1>2, <1>13 DEF changes_below
  <2>2. byte_below(dk, i) = byte_below(disk, i) \/ (size < i /\ i <= off /\ byte_below(dk, i) = NUL)
    <3>1. CASE i <= Len(dk)
      <4>1. i \in 1 .. Len(dk)
        BY <1>14, <3>1
      <4>. QED
        BY <1>12, <3>1, <4>1 DEF byte_below
    <3>2. CASE ~ (i <= Len(dk))
      BY <1>1, <1>12, <1>14, <3>2 DEF byte_below
    <3>. QED
      BY <3>1, <3>2
  <2>. QED
    BY <2>1, <2>2
<1>18. is_file_with(W, buf, off)
  BY <1>2, <1>9, <1>13, <1>15, <1>16, <1>17 DEF is_file_with
<1>. QED
  BY <1>7, <1>18

-----------------------------------------------------------------------------
(* The invariant.                                                          *)

\* CleanIsBelow, for any n bytes and any blocks that are still to be written.
below_or_todo(bl, dk, n, t) ==
    \A i \in 1 .. n :
        ~ bl[blk_of(i)].dirty /\ blk_of(i) \notin t => i <= Len(dk) /\ byte_of(bl, dk, i) = dk[i]

no_dirty(bl) == \A b \in Blocks : bl[b] # NotCached => ~ bl[b].dirty

\* FileInv as a predicate of the values of the variables.
good(n, bl, dk, o, s, t) ==
    /\ n \in 0 .. MaxSize
    /\ bl \in [Blocks -> Cached \cup {NotCached}]
    /\ dk \in Seq(Bytes)
    /\ Len(dk) <= MaxSize
    /\ o \in 0 .. MaxOthers
    /\ s \in BOOLEAN
    /\ t \subseteq {b \in Blocks : s /\ bl[b] # NotCached /\ ~ bl[b].dirty}
    /\ readable_up_to(bl, n)
    /\ below_or_todo(bl, dk, n, t)
    /\ s => no_dirty(bl)

LEMMA ContentOf ==
    ASSUME NEW bl, NEW dk, NEW n
    PROVE  content_of(bl, dk, n) = [i \in 1 .. n |-> byte_of(bl, dk, i)]
BY DEF content_of, byte_of, byte_below, blk_of, idx_of

LEMMA FileInvIsGood == FileInv <=> good(size, blk, disk, others, syncing, todo)
<1>1. content = [i \in 1 .. size |-> byte_of(blk, disk, i)]
  BY ContentOf DEF content
<1>2. \A i \in 1 .. size : content[i] = byte_of(blk, disk, i)
  BY <1>1
<1>3. CleanIsBelow <=> below_or_todo(blk, disk, size, todo)
  <2>. HIDE DEF content
  <2>. QED
    BY <1>2 DEF CleanIsBelow, below_or_todo, blk_of
<1>4. BytesReadable <=> readable_up_to(blk, size)
  BY DEF BytesReadable, readable_up_to, cached_blocks, start
<1>5. SyncTakesAll <=> (syncing => no_dirty(blk))
  BY DEF SyncTakesAll, no_dirty, dirty_blocks
<1>. QED
  BY <1>3, <1>4, <1>5 DEF FileInv, TypeOK, good

LEMMA NextFileInvIsGood ==
    FileInv' <=> good(size', blk', disk', others', syncing', todo')
<1>1. content' = [i \in 1 .. size' |-> byte_of(blk', disk', i)]
  BY ContentOf DEF content
<1>2. \A i \in 1 .. size' : content'[i] = byte_of(blk', disk', i)
  BY <1>1
<1>3. CleanIsBelow' <=> below_or_todo(blk', disk', size', todo')
  BY <1>2 DEF CleanIsBelow, below_or_todo, blk_of
<1>4. BytesReadable' <=> readable_up_to(blk', size')
  BY DEF BytesReadable, readable_up_to, cached_blocks, start
<1>5. SyncTakesAll' <=> (syncing' => no_dirty(blk'))
  BY DEF SyncTakesAll, no_dirty, dirty_blocks
<1>. QED
  BY <1>3, <1>4, <1>5 DEF FileInv, TypeOK, good

\* Between the syncs, the invariant is what a write relies on and restores.
LEMMA GoodIsStored ==
    ASSUME NEW n, NEW bl, NEW dk, NEW o, NEW t
    PROVE  good(n, bl, dk, o, FALSE, t) <=>
              n \in 0 .. MaxSize /\ stored(bl, dk, n) /\ o \in 0 .. MaxOthers /\ t = {}
BY DEF good, stored, below_up_to, below_or_todo

LEMMA GoodTypes ==
    ASSUME good(size, blk, disk, others, syncing, todo)
    PROVE  /\ size \in Nat /\ size <= MaxSize /\ MaxSize \in Nat
           /\ blk \in [Blocks -> Cached \cup {NotCached}]
           /\ disk \in Seq(Bytes) /\ Len(disk) \in Nat /\ Len(disk) <= MaxSize
           /\ others \in 0 .. MaxOthers
           /\ syncing \in BOOLEAN
           /\ \A b \in todo : b \in Blocks /\ b \in Nat /\ syncing /\ blk[b] \in Cached
                              /\ ~ blk[b].dirty
           /\ ~ syncing => todo = {} /\ stored(blk, disk, size)
<1>1. MaxSize \in Nat
  BY LazyFileAssumption
<1>2. ~ syncing => todo = {} /\ stored(blk, disk, size)
  BY DEF good, stored, below_or_todo, below_up_to
<1>3. \A b \in todo : b \in Blocks /\ b \in Nat /\ syncing /\ blk[b] \in Cached /\ ~ blk[b].dirty
  BY DEF good, Blocks
<1>. QED
  BY <1>1, <1>2, <1>3 DEF good

LEMMA InitIsGood == Init => FileInv
<1>. SUFFICES ASSUME Init PROVE good(size, blk, disk, others, syncing, todo)
  BY FileInvIsGood
<1>1. MaxSize \in Nat /\ MaxOthers \in Nat
  BY LazyFileAssumption
<1>2. \A b \in Blocks : blk[b] = NotCached
  BY DEF Init
<1>3. readable_up_to(blk, size)
  BY <1>2 DEF readable_up_to
<1>4. below_or_todo(blk, disk, size, todo)
  BY DEF below_or_todo, Init
<1>5. blk \in [Blocks -> Cached \cup {NotCached}]
  BY DEF Init
<1>6. disk \in Seq(Bytes) /\ Len(disk) = 0
  BY DEF Init
<1>7. size = 0 /\ others = 0 /\ syncing = FALSE /\ todo = {}
  BY DEF Init
<1>8. size \in 0 .. MaxSize /\ others \in 0 .. MaxOthers /\ Len(disk) <= MaxSize
  BY <1>1, <1>6, <1>7
<1>9. syncing \in BOOLEAN /\ (syncing => no_dirty(blk))
  BY <1>7
<1>10. todo \subseteq {b \in Blocks : syncing /\ blk[b] # NotCached /\ ~ blk[b].dirty}
  BY <1>7
<1>. QED
  BY <1>3, <1>4, <1>5, <1>6, <1>8, <1>9, <1>10 DEF good

LEMMA WriteStaysGood ==
    ASSUME good(size, blk, disk, others, syncing, todo),
           NEW off \in Nat, NEW buf \in Seq(Bytes), buf # <<>>, off + Len(buf) <= MaxSize,
           Write(off, buf)
    PROVE  good(size', blk', disk', others', syncing', todo')
<1>1. ~ syncing /\ others' = others /\ syncing' = syncing /\ todo' = todo
      /\ size' = larger(size, off + Len(buf))
  BY DEF Write
<1>2. PICK W : W = lfs_write(off, buf)
  OBVIOUS
<1>3. blk' = W.blk /\ disk' = W.disk
  BY <1>2 DEF Write
<1>4. is_file_with(W, buf, off)
  BY <1>1, <1>2, GoodTypes, LfsWrite DEF good
<1>5. stored(blk', disk', size')
  BY <1>1, <1>3, <1>4 DEF is_file_with
<1>6. size' \in 0 .. MaxSize
  BY <1>1, GoodTypes DEF larger
<1>7. others' \in 0 .. MaxOthers /\ todo' = {} /\ syncing' = FALSE
  BY <1>1, GoodTypes
<1>. QED
  BY <1>5, <1>6, <1>7, GoodIsStored

LEMMA TruncateGrowStaysGood ==
    ASSUME good(size, blk, disk, others, syncing, todo),
           NEW n \in 0 .. MaxSize, TruncateGrow(n)
    PROVE  good(size', blk', disk', others', syncing', todo')
<1>1. ~ syncing /\ others' = others /\ syncing' = syncing /\ todo' = todo
      /\ size' = n /\ n > size
  BY DEF TruncateGrow
<1>2. PICK len \in Nat \ {0} : len = n - size
  BY <1>1, GoodTypes
<1>3. PICK buf \in Seq(Bytes) : buf = zeros(len) /\ Len(buf) = len /\ buf # <<>>
  BY Zeros
<1>4. PICK W : W = lfs_write(size, buf)
  OBVIOUS
<1>5. blk' = W.blk /\ disk' = W.disk
  BY <1>2, <1>3, <1>4 DEF TruncateGrow
<1>6. size + Len(buf) = n /\ larger(size, size + Len(buf)) = n
  BY <1>1, <1>2, <1>3, GoodTypes DEF larger
<1>7. is_file_with(W, buf, size)
  <2>1. PICK off \in Nat : off = size
    BY GoodTypes
  <2>2. is_file_with(lfs_write(off, buf), buf, off)
    BY <1>1, <1>3, <1>6, <2>1, GoodTypes, LfsWrite DEF good
  <2>. QED
    BY <1>4, <2>1, <2>2
<1>8. stored(blk', disk', size')
  BY <1>1, <1>5, <1>6, <1>7 DEF is_file_with
<1>9. others' \in 0 .. MaxOthers /\ todo' = {} /\ syncing' = FALSE
  BY <1>1, GoodTypes
<1>10. size' \in 0 .. MaxSize
  BY <1>1
<1>. QED
  BY <1>8, <1>9, <1>10, GoodIsStored

LEMMA TruncateShrinkStaysGood ==
    ASSUME good(size, blk, disk, others, syncing, todo),
           NEW n \in 0 .. MaxSize, TruncateShrink(n)
    PROVE  good(size', blk', disk', others', syncing', todo')
<1>1. /\ ~ syncing /\ syncing' = syncing /\ others' = others /\ todo' = todo
      /\ blk' = blk /\ disk' = disk /\ size' = n /\ n < size
  BY DEF TruncateShrink
<1>2. \A i \in Int : i < n => i < size
  BY <1>1, GoodTypes
<1>3. readable_up_to(blk, n)
  <2>1. ASSUME NEW b \in Blocks, NEW i \in Index, start(b) + i < n PROVE start(b) + i < size
    <3>1. start(b) + i \in Int
      BY Start DEF Blocks, Index
    <3>. QED
      BY <1>2, <2>1, <3>1
  <2>2. readable_up_to(blk, size)
    BY DEF good
  <2>. QED
    BY <2>1, <2>2 DEF readable_up_to
<1>4. below_or_todo(blk, disk, n, todo)
  <2>1. \A i \in 1 .. n : i \in 1 .. size
    BY <1>1, GoodTypes
  <2>. QED
    BY <2>1 DEF good, below_or_todo
<1>. QED
  BY <1>1, <1>3, <1>4 DEF good

LEMMA SyncStartStaysGood ==
    ASSUME good(size, blk, disk, others, syncing, todo), SyncStart
    PROVE  good(size', blk', disk', others', syncing', todo')
<1>. DEFINE D == dirty_blocks
<1>1. /\ size' = size /\ disk' = disk /\ others' = others /\ syncing' = TRUE /\ todo' = D
      /\ ~ syncing /\ todo = {}
      /\ blk' = [b \in Blocks |-> IF b \in D THEN [blk[b] EXCEPT !.dirty = FALSE] ELSE blk[b]]
  BY GoodTypes DEF SyncStart
<1>2. \A b : b \in D <=> b \in Blocks /\ blk[b] # NotCached /\ blk[b].dirty
  BY DEF dirty_blocks
<1>3. \A b \in Blocks : blk'[b] = IF b \in D THEN [blk[b] EXCEPT !.dirty = FALSE] ELSE blk[b]
  BY <1>1
<1>. HIDE DEF D
<1>4. ASSUME NEW b \in Blocks
      PROVE  /\ blk'[b] \in Cached \cup {NotCached} /\ ~ blk'[b].dirty
             /\ blk'[b] # NotCached <=> blk[b] # NotCached
             /\ blk'[b].to = blk[b].to /\ blk'[b].data = blk[b].data
  <2>1. blk[b] \in Cached \cup {NotCached}
    BY GoodTypes
  <2>2. CASE b \in D
    <3>1. blk[b] \in Cached
      BY <1>2, <2>1, <2>2
    <3>2. blk'[b] = [blk[b] EXCEPT !.dirty = FALSE]
      BY <1>3, <2>2
    <3>3. /\ blk'[b] \in Cached /\ blk'[b].dirty = FALSE
          /\ blk'[b].to = blk[b].to /\ blk'[b].data = blk[b].data
      BY <3>1, <3>2 DEF Cached
    <3>. QED
      BY <1>2, <2>2, <3>3, NotCachedIsNot
  <2>3. CASE b \notin D
    <3>1. blk'[b] = blk[b]
      BY <1>3, <2>3
    <3>2. ~ blk[b].dirty
      BY <1>2, <2>3, NotCachedIsNot
    <3>. QED
      BY <2>1, <3>1, <3>2
  <2>. QED
    BY <2>2, <2>3
<1>5. blk' \in [Blocks -> Cached \cup {NotCached}]
  <2>1. blk' = [b \in Blocks |-> blk'[b]]
    BY <1>1
  <2>. QED
    BY <1>4, <2>1
<1>6. readable_up_to(blk', size')
  <2>1. readable_up_to(blk, size)
    BY DEF good
  <2>. QED
    BY <1>1, <1>4, <2>1 DEF readable_up_to
<1>7. below_or_todo(blk', disk', size', todo')
  <2>. SUFFICES ASSUME NEW i \in 1 .. size, blk_of(i) \notin D
                PROVE  i <= Len(disk) /\ byte_of(blk', disk, i) = disk[i]
    BY <1>1 DEF below_or_todo
  <2>1. i \in Nat \ {0} /\ i <= MaxSize
    BY GoodTypes
  <2>2. PICK b \in Blocks : b = blk_of(i)
    BY <2>1, Place
  <2>3. ~ blk[b].dirty
    BY <1>2, <2>2, NotCachedIsNot
  <2>4. i <= Len(disk) /\ byte_of(blk, disk, i) = disk[i]
    BY <1>1, <2>2, <2>3 DEF good, below_or_todo
  <2>5. byte_of(blk', disk, i) = byte_of(blk, disk, i)
    BY <1>4, <2>2 DEF byte_of
  <2>. QED
    BY <2>4, <2>5
<1>8. todo' \subseteq {b \in Blocks : syncing' /\ blk'[b] # NotCached /\ ~ blk'[b].dirty}
  BY <1>1, <1>2, <1>4
<1>9. no_dirty(blk')
  BY <1>4 DEF no_dirty
<1>. QED
  BY <1>1, <1>5, <1>6, <1>7, <1>8, <1>9 DEF good

LEMMA LoseCacheStaysGood ==
    ASSUME good(size, blk, disk, others, syncing, todo), LoseCache
    PROVE  good(size', blk', disk', others', syncing', todo')
<1>1. /\ size' = Len(disk) /\ disk' = disk /\ others' = 0 /\ syncing' = FALSE /\ todo' = {}
      /\ blk' = [b \in Blocks |-> NotCached]
  BY DEF LoseCache
<1>2. \A b \in Blocks : blk'[b] = NotCached
  BY <1>1
<1>3. readable_up_to(blk', size')
  BY <1>2 DEF readable_up_to
<1>4. below_or_todo(blk', disk', size', todo')
  <2>. SUFFICES ASSUME NEW i \in 1 .. Len(disk)
                PROVE  i <= Len(disk) /\ byte_of(blk', disk, i) = disk[i]
    BY <1>1 DEF below_or_todo
  <2>1. i \in Nat \ {0} /\ i <= MaxSize /\ i <= Len(disk)
    BY GoodTypes
  <2>2. blk_of(i) \in Blocks
    BY <2>1, Place
  <2>. QED
    BY <1>2, <2>1, <2>2 DEF byte_of, byte_below
<1>5. blk' \in [Blocks -> Cached \cup {NotCached}]
  BY <1>1
<1>6. 0 \in 0 .. MaxOthers
  BY LazyFileAssumption
<1>7. Len(disk) \in 0 .. MaxSize
  BY GoodTypes
<1>. QED
  BY <1>1, <1>3, <1>4, <1>5, <1>6, <1>7, GoodTypes DEF good

LEMMA OtherFilesStaysGood ==
    ASSUME good(size, blk, disk, others, syncing, todo), OtherFiles
    PROVE  good(size', blk', disk', others', syncing', todo')
<1>1. /\ size' = size /\ blk' = blk /\ disk' = disk /\ syncing' = syncing /\ todo' = todo
      /\ others' \in 0 .. smaller(MaxOthers, CACHE_NR_PAGES - Cardinality(cached_blocks(blk)))
  BY DEF OtherFiles
<1>2. Cardinality(cached_blocks(blk)) \in Nat
  <2>1. IsFiniteSet(Blocks)
    <3>1. (MaxSize - 1) \div IO_BLOCK_SIZE \in Int
      BY LazyFileAssumption
    <3>. QED
      BY <3>1, FS_Interval DEF Blocks
  <2>2. cached_blocks(blk) \subseteq Blocks
    BY DEF cached_blocks
  <2>. QED
    BY <2>1, <2>2, FS_Subset, FS_CardinalityType
<1>3. others' \in 0 .. MaxOthers
  <2>1. PICK c \in Nat : c = Cardinality(cached_blocks(blk))
    BY <1>2
  <2>2. others' \in 0 .. smaller(MaxOthers, CACHE_NR_PAGES - c)
    BY <1>1, <2>1
  <2>. QED
    BY <2>2, LazyFileAssumption DEF smaller
<1>. QED
  BY <1>1, <1>3 DEF good

-----------------------------------------------------------------------------
(* The steps of a sync.                                                    *)

\* What SyncBlock does: the least block of todo, its bytes and their place.
is_sync(b, w) ==
    /\ b \in todo /\ \A c \in todo : b <= c
    /\ w \in Seq(Bytes) /\ w # <<>>
    /\ \A i \in 1 .. Len(w) : i - 1 \in Index /\ w[i] = blk[b].data[i - 1]
    /\ Len(w) = IO_BLOCK_SIZE \/ Len(w) = blk[b].to + 1
    /\ start(b) + Len(w) <= MaxSize
    /\ disk' = pwrite(disk, w, start(b))
    /\ todo' = todo \ {b}
    /\ UNCHANGED <<size, blk, others, syncing>>

LEMMA SyncBlockWrites ==
    ASSUME good(size, blk, disk, others, syncing, todo), SyncBlock
    PROVE  \E b, w : is_sync(b, w)
<1>1. todo # {} /\ todo \subseteq Nat
  BY GoodTypes DEF SyncBlock
<1>2. \E b \in todo : \A c \in todo : b <= c
  <2>1. IsWellFoundedOn(OpToRel(<, Nat), Nat)
    BY NatLessThanWellFounded, Zenon
  <2>2. PICK b \in todo : \A c \in todo : ~ (<<c, b>> \in OpToRel(<, Nat))
    BY <1>1, <2>1, WFMin, Zenon
  <2>3. \A c \in todo : ~ (c < b)
    BY <1>1, <2>2 DEF OpToRel
  <2>. QED
    BY <1>1, <2>3
<1>3. PICK b \in todo : b = next_block /\ \A c \in todo : b <= c
  BY <1>2 DEF next_block
<1>4. b \in Blocks /\ b \in Nat /\ blk[b] \in Cached /\ blk[b] # NotCached
  BY GoodTypes, NotCachedIsNot
<1>5. PICK B \in Nat \ {0} : B = IO_BLOCK_SIZE /\ Index = 0 .. B - 1
  BY BlockSize DEF Index
<1>6. PICK t \in 0 .. B - 1 : t = blk[b].to
  BY <1>4, <1>5 DEF Cached
<1>7. PICK s \in Nat : s = start(b)
  BY <1>4, Start
<1>8. s + t < MaxSize
  BY <1>4, <1>6, <1>7 DEF good, readable_up_to
<1>9. b + 1 \in todo => s + B <= MaxSize
  <2>. HAVE b + 1 \in todo
  <2>1. PICK c \in Blocks : c = b + 1 /\ c \in Nat /\ blk[c] \in Cached /\ blk[c] # NotCached
    BY GoodTypes, NotCachedIsNot
  <2>2. start(c) + blk[c].to < MaxSize /\ blk[c].to \in Nat
    BY <2>1 DEF good, readable_up_to, Cached, Index
  <2>3. s + B <= start(c) /\ start(c) \in Nat
    BY <1>4, <1>5, <1>7, <2>1, BlockOrder, Start
  <2>. QED
    BY <2>2, <2>3, GoodTypes
<1>10. PICK n \in 1 .. B : n = iov_len(b) /\ (n = B \/ n = t + 1) /\ s + n <= MaxSize
  <2>1. MaxSize \in Nat
    BY GoodTypes
  <2>2. CASE b + 1 \in todo
    <3>1. iov_len(b) = B
      BY <1>5, <2>2 DEF iov_len
    <3>. QED
      BY <1>9, <2>2, <3>1
  <2>3. CASE b + 1 \notin todo
    <3>1. iov_len(b) = t + 1
      BY <1>6, <2>3 DEF iov_len
    <3>2. s + (t + 1) <= MaxSize /\ t + 1 \in 1 .. B
      BY <1>8, <2>1
    <3>. QED
      BY <3>1, <3>2
  <2>. QED
    BY <2>2, <2>3
<1>11. \A i \in 1 .. n : i - 1 \in Index /\ blk[b].data[i - 1] \in Bytes
  <2>1. \A i \in 1 .. n : i - 1 \in Index
    BY <1>5
  <2>2. blk[b].data \in [Index -> Bytes]
    BY <1>4 DEF Cached
  <2>. QED
    BY <2>1, <2>2
<1>12. PICK w \in [1 .. n -> Bytes] : w = [i \in 1 .. iov_len(b) |-> blk[b].data[i - 1]]
  BY <1>10, <1>11
<1>13. w \in Seq(Bytes) /\ Len(w) = n /\ w # <<>>
  BY <1>10
<1>14. \A i \in 1 .. n : w[i] = blk[b].data[i - 1]
  BY <1>10, <1>12
<1>15. disk' = pwrite(disk, w, start(b)) /\ todo' = todo \ {b}
       /\ UNCHANGED <<size, blk, others, syncing>>
  BY <1>3, <1>12 DEF SyncBlock, start
<1>16. is_sync(b, w)
  BY <1>3, <1>5, <1>6, <1>7, <1>10, <1>11, <1>13, <1>14, <1>15 DEF is_sync
<1>. QED
  BY <1>16

\* The file below has the bytes of the file up to some place and its own after it, and
\* no reader sees a difference.
is_part_of_sync(b) ==
    /\ disk' \in Seq(Bytes) /\ Len(disk') \in Nat
    /\ Len(disk) <= Len(disk') /\ Len(disk') <= MaxSize
    /\ \E k \in 0 .. smaller(Len(disk'), size) :
          \A i \in 1 .. smaller(Len(disk'), size) :
             IF i <= k THEN disk'[i] = byte_of(blk, disk, i)
             ELSE i <= Len(disk) /\ disk'[i] = disk[i]
    /\ \A i \in 1 .. size : blk_of(i) = b =>
          i <= Len(disk') /\ disk'[i] = byte_of(blk, disk, i)
    /\ \A i \in 1 .. size : i <= Len(disk) /\ blk_of(i) # b => disk'[i] = disk[i]
    /\ \A i \in 1 .. size : byte_of(blk, disk', i) = byte_of(blk, disk, i)

LEMMA SyncBlockIsPart ==
    ASSUME good(size, blk, disk, others, syncing, todo), NEW b, NEW w, is_sync(b, w)
    PROVE  is_part_of_sync(b)
<1>1. /\ size \in Nat /\ size <= MaxSize /\ MaxSize \in Nat
      /\ disk \in Seq(Bytes) /\ Len(disk) \in Nat /\ Len(disk) <= MaxSize
  BY GoodTypes
<1>2. /\ b \in todo /\ \A c \in todo : b <= c
      /\ w \in Seq(Bytes) /\ w # <<>>
      /\ \A i \in 1 .. Len(w) : i - 1 \in Index /\ w[i] = blk[b].data[i - 1]
      /\ Len(w) = IO_BLOCK_SIZE \/ Len(w) = blk[b].to + 1
      /\ start(b) + Len(w) <= MaxSize
      /\ disk' = pwrite(disk, w, start(b))
  BY DEF is_sync
<1>3. /\ b \in Blocks /\ b \in Nat /\ syncing /\ blk[b] \in Cached /\ blk[b] # NotCached
  BY <1>2, GoodTypes, NotCachedIsNot
<1>4. PICK s \in Nat : s = start(b)
  BY <1>3, Start
<1>5. PICK n \in Nat \ {0} : n = Len(w)
  BY <1>2
<1>6. disk' \in Seq(Bytes) /\ overwrites(disk', disk, w, n, s)
  <2>1. NUL \in Bytes
    BY LazyFileAssumption
  <2>2. /\ pwrite(disk, w, s) \in Seq(Bytes)
        /\ overwrites(pwrite(disk, w, s), disk, w, Len(w), s)
    BY <1>1, <1>2, <2>1, Pwrite
  <2>. QED
    BY <1>2, <1>4, <1>5, <2>2
<1>7. /\ Len(disk') = larger(Len(disk), s + n) /\ Len(disk') \in Nat
      /\ \A i \in 1 .. Len(disk') :
            disk'[i] = IF s < i /\ i <= s + n THEN w[i - s] ELSE byte_below(disk, i)
  BY <1>6 DEF overwrites
<1>8. Len(disk) <= Len(disk') /\ Len(disk') <= MaxSize /\ s + n <= Len(disk')
  BY <1>1, <1>2, <1>4, <1>5, <1>7 DEF larger
<1>9. \A i \in 1 .. size : i \in Nat \ {0} /\ i <= MaxSize
  BY <1>1
\* The bytes that are written are those of the block.
<1>10. ASSUME NEW i \in 1 .. size, s < i, i <= s + n
       PROVE  blk_of(i) = b /\ disk'[i] = byte_of(blk, disk, i) /\ i <= Len(disk')
  <2>1. PICK j \in 1 .. n : j = i - s
    BY <1>4, <1>5, <1>9, <1>10
  <2>2. w[j] = blk[b].data[j - 1] /\ j - 1 \in Index
    BY <1>2, <1>5
  <2>3. i = s + (j - 1) + 1
    BY <1>9, <2>1
  <2>4. PICK k \in Index : k = j - 1
    BY <2>2
  <2>5. blk_of(i) = b /\ idx_of(i) = k
    BY <1>3, <1>4, <2>3, <2>4, PlaceOf
  <2>6. i \in 1 .. Len(disk')
    BY <1>7, <1>8, <1>9, <1>10
  <2>7. disk'[i] = w[j]
    BY <1>7, <1>10, <2>1, <2>6
  <2>. QED
    BY <1>3, <2>2, <2>4, <2>5, <2>6, <2>7 DEF byte_of
\* All of the bytes that the file has in the block.
<1>11. ASSUME NEW i \in 1 .. size, blk_of(i) = b PROVE s < i /\ i <= s + n
  <2>1. PICK k \in Index : k = idx_of(i)
    BY <1>9, Place
  <2>2. i = s + k + 1 /\ k \in Nat /\ k < IO_BLOCK_SIZE
    <3>1. i = start(blk_of(i)) + idx_of(i) + 1
      BY <1>9, Place
    <3>2. k \in Nat /\ k < IO_BLOCK_SIZE
      BY BlockSize DEF Index
    <3>. QED
      BY <1>4, <1>11, <2>1, <3>1, <3>2
  <2>3. start(b) + k < size
    BY <1>1, <1>4, <1>9, <2>2
  <2>4. k <= blk[b].to /\ blk[b].to \in Nat
    BY <1>3, <2>3 DEF good, readable_up_to, Cached, Index
  <2>. QED
    BY <1>2, <1>5, <2>2, <2>4, BlockSize
<1>12. ASSUME NEW i \in 1 .. size, ~ (s < i /\ i <= s + n), i <= Len(disk)
       PROVE  disk'[i] = disk[i]
  BY <1>1, <1>7, <1>8, <1>9, <1>12 DEF byte_below
\* A byte past the end of the file below is in a block that the sync is still to write,
\* and this is the first one of them: pwrite leaves no hole in the file.
<1>13. ASSUME NEW i \in 1 .. size, i > Len(disk), i <= Len(disk')
       PROVE  s < i /\ i <= s + n
  <2>1. PICK c \in Blocks : c = blk_of(i)
    BY <1>9, Place
  <2>2. ~ blk[c].dirty
    <3>1. no_dirty(blk)
      BY <1>3 DEF good
    <3>. QED
      BY <3>1, NotCachedIsNot DEF no_dirty
  <2>3. c \in todo
    BY <1>1, <1>9, <1>13, <2>1, <2>2 DEF good, below_or_todo
  <2>4. b <= c
    BY <1>2, <2>3
  <2>5. CASE c = b
    BY <1>11, <2>1, <2>5
  <2>6. CASE c # b
    <3>1. b < c /\ c \in Int
      BY <1>3, <2>4, <2>6 DEF Blocks
    <3>2. s + IO_BLOCK_SIZE <= start(c)
      BY <1>3, <1>4, <3>1, BlockOrder
    <3>3. start(c) < i /\ start(c) \in Nat
      <4>1. i = start(blk_of(i)) + idx_of(i) + 1 /\ idx_of(i) \in Nat /\ start(blk_of(i)) \in Nat
        BY <1>9, Place
      <4>. QED
        BY <2>1, <4>1
    <3>4. n <= IO_BLOCK_SIZE
      <4>1. blk[b].to \in Index
        BY <1>3 DEF Cached
      <4>. QED
        BY <1>2, <1>5, <4>1, BlockSize DEF Index
    <3>5. Len(disk') = Len(disk)
      BY <1>1, <1>7, <1>9, <1>13, <3>2, <3>3, <3>4, BlockSize DEF larger
    <3>. QED
      BY <1>1, <1>9, <1>13, <3>5
  <2>. QED
    BY <2>5, <2>6
<1>14. ASSUME NEW i \in 1 .. size PROVE byte_of(blk, disk', i) = byte_of(blk, disk, i)
  <2>1. PICK c \in Blocks : c = blk_of(i)
    BY <1>9, Place
  <2>2. CASE blk[c] # NotCached
    BY <2>1, <2>2 DEF byte_of
  <2>3. CASE blk[c] = NotCached
    <3>1. c # b /\ ~ blk[c].dirty /\ c \notin todo
      BY <1>3, <2>3, GoodTypes, NotCachedIsNot
    <3>2. i <= Len(disk)
      BY <2>1, <3>1 DEF good, below_or_todo
    <3>3. ~ (s < i /\ i <= s + n)
      BY <1>10, <2>1, <3>1
    <3>4. disk'[i] = disk[i] /\ i <= Len(disk')
      BY <1>1, <1>8, <1>9, <1>12, <3>2, <3>3
    <3>. QED
      BY <2>1, <2>3, <3>2, <3>4 DEF byte_of, byte_below
  <2>. QED
    BY <2>2, <2>3
<1>15. PICK k \in Nat : k = smaller(size, s + n)
  BY <1>1, <1>5 DEF smaller
\* A byte before the block is in one that is not to be written: it is below.
<1>18. ASSUME NEW i \in 1 .. size, i <= s
       PROVE  disk'[i] = byte_of(blk, disk, i)
  <2>1. PICK c \in Blocks : c = blk_of(i)
    BY <1>9, Place
  <2>2. start(c) < i /\ start(c) \in Nat /\ c \in Nat
    <3>1. i = start(blk_of(i)) + idx_of(i) + 1 /\ idx_of(i) \in Nat /\ start(blk_of(i)) \in Nat
      BY <1>9, Place
    <3>. QED
      BY <2>1, <3>1 DEF Blocks
  <2>3. ~ (b <= c)
    <3>1. c # b
      BY <1>4, <1>9, <1>18, <2>2
    <3>2. b < c => start(b) + IO_BLOCK_SIZE <= start(c)
      BY <1>3, <2>2, BlockOrder
    <3>. QED
      BY <1>3, <1>4, <1>9, <1>18, <2>2, <3>1, <3>2, BlockSize
  <2>4. c \notin todo /\ ~ blk[c].dirty
    BY <1>2, <1>3, <2>3, NotCachedIsNot DEF good, no_dirty
  <2>5. i <= Len(disk) /\ byte_of(blk, disk, i) = disk[i]
    BY <2>1, <2>4 DEF good, below_or_todo
  <2>. QED
    BY <1>4, <1>9, <1>12, <1>18, <2>5
<1>19. ASSUME NEW i \in 1 .. size, i <= Len(disk')
       PROVE  IF i <= k THEN disk'[i] = byte_of(blk, disk, i)
              ELSE i <= Len(disk) /\ disk'[i] = disk[i]
  <2>1. CASE i <= s
    BY <1>1, <1>4, <1>5, <1>9, <1>15, <1>18, <2>1 DEF smaller
  <2>2. CASE s < i /\ i <= s + n
    BY <1>1, <1>5, <1>9, <1>10, <1>15, <2>2 DEF smaller
  <2>3. CASE ~ (i <= s + n)
    <3>1. i <= Len(disk)
      BY <1>1, <1>9, <1>13, <1>19, <2>3
    <3>2. disk'[i] = disk[i] /\ ~ (i <= k)
      BY <1>1, <1>5, <1>9, <1>12, <1>15, <2>3, <3>1 DEF smaller
    <3>. QED
      BY <3>1, <3>2
  <2>. QED
    BY <1>4, <1>5, <1>9, <2>1, <2>2, <2>3
<1>20. \E j \in 0 .. smaller(Len(disk'), size) :
          \A i \in 1 .. smaller(Len(disk'), size) :
             IF i <= j THEN disk'[i] = byte_of(blk, disk, i)
             ELSE i <= Len(disk) /\ disk'[i] = disk[i]
  <2>1. k \in 0 .. smaller(Len(disk'), size)
    <3>1. PICK d \in Nat : d = Len(disk')
      BY <1>7
    <3>2. s + n <= d
      BY <1>8, <3>1
    <3>. QED
      BY <1>1, <1>4, <1>5, <1>15, <3>1, <3>2 DEF smaller
  <2>2. \A i \in 1 .. smaller(Len(disk'), size) : i \in 1 .. size /\ i <= Len(disk')
    BY <1>1, <1>7 DEF smaller
  <2>. QED
    BY <1>19, <2>1, <2>2
<1>16. \A i \in 1 .. size : blk_of(i) = b => i <= Len(disk') /\ disk'[i] = byte_of(blk, disk, i)
  BY <1>10, <1>11
<1>17. \A i \in 1 .. size : i <= Len(disk) /\ blk_of(i) # b => disk'[i] = disk[i]
  BY <1>10, <1>12
<1>. QED
  BY <1>6, <1>7, <1>8, <1>14, <1>16, <1>17, <1>20 DEF is_part_of_sync

LEMMA SyncBlockStaysGood ==
    ASSUME good(size, blk, disk, others, syncing, todo), SyncBlock
    PROVE  good(size', blk', disk', others', syncing', todo')
<1>1. PICK b, w : is_sync(b, w)
  BY SyncBlockWrites
<1>2. /\ size' = size /\ blk' = blk /\ others' = others /\ syncing' = syncing
      /\ todo' = todo \ {b} /\ b \in todo
  BY <1>1 DEF is_sync
<1>3. is_part_of_sync(b)
  BY <1>1, SyncBlockIsPart
<1>4. disk' \in Seq(Bytes) /\ Len(disk') <= MaxSize
  BY <1>3 DEF is_part_of_sync
<1>5. below_or_todo(blk, disk', size, todo')
  <2>. SUFFICES ASSUME NEW i \in 1 .. size, ~ blk[blk_of(i)].dirty, blk_of(i) \notin todo'
                PROVE  i <= Len(disk') /\ byte_of(blk, disk', i) = disk'[i]
    BY DEF below_or_todo
  <2>1. byte_of(blk, disk', i) = byte_of(blk, disk, i)
    BY <1>3 DEF is_part_of_sync
  <2>2. CASE blk_of(i) = b
    BY <1>3, <2>1, <2>2 DEF is_part_of_sync
  <2>3. CASE blk_of(i) # b
    <3>1. i <= Len(disk) /\ byte_of(blk, disk, i) = disk[i]
      BY <1>2, <2>3 DEF good, below_or_todo
    <3>2. disk'[i] = disk[i] /\ Len(disk) <= Len(disk') /\ Len(disk') \in Nat
      BY <1>3, <2>3, <3>1 DEF is_part_of_sync
    <3>3. i \in Nat /\ Len(disk) \in Nat
      BY GoodTypes
    <3>. QED
      BY <2>1, <3>1, <3>2, <3>3
  <2>. QED
    BY <2>2, <2>3
<1>6. todo' \subseteq {c \in Blocks : syncing /\ blk[c] # NotCached /\ ~ blk[c].dirty}
  BY <1>2 DEF good
<1>. QED
  BY <1>2, <1>4, <1>5, <1>6 DEF good

\* A sync that has no block left to write leaves the content below.
LEMMA SyncEndIsExact ==
    ASSUME good(size, blk, disk, others, syncing, todo), SyncEnd
    PROVE  /\ disk' \in Seq(Bytes) /\ Len(disk') = size
           /\ \A i \in 1 .. size : disk'[i] = byte_of(blk, disk, i)
           /\ \A i \in 1 .. size : byte_of(blk, disk', i) = byte_of(blk, disk, i)
           /\ size' = size /\ blk' = blk /\ others' = others /\ todo' = todo /\ todo = {}
           /\ syncing' = FALSE
<1>1. /\ syncing /\ todo = {} /\ disk' = ftruncate(disk, size) /\ syncing' = FALSE
      /\ size' = size /\ blk' = blk /\ others' = others /\ todo' = todo
  BY DEF SyncEnd
<1>2. ASSUME NEW i \in 1 .. size
      PROVE  i <= Len(disk) /\ byte_of(blk, disk, i) = disk[i] /\ disk[i] \in Bytes
  <2>1. i \in Nat \ {0} /\ i <= MaxSize
    BY GoodTypes
  <2>2. PICK b \in Blocks : b = blk_of(i)
    BY <2>1, Place
  <2>3. ~ blk[b].dirty
    BY <1>1, NotCachedIsNot DEF good, no_dirty
  <2>4. i <= Len(disk) /\ byte_of(blk, disk, i) = disk[i]
    BY <1>1, <2>2, <2>3 DEF good, below_or_todo
  <2>5. i \in 1 .. Len(disk) /\ disk \in Seq(Bytes)
    BY <2>1, <2>4, GoodTypes
  <2>. QED
    BY <2>4, <2>5
<1>. DEFINE d == [i \in 1 .. size |-> IF i <= Len(disk) THEN disk[i] ELSE NUL]
<1>3. disk' = d
  BY <1>1 DEF ftruncate
<1>4. \A i \in 1 .. size : d[i] = disk[i]
  BY <1>2
<1>5. d \in [1 .. size -> Bytes]
  BY <1>2
<1>. HIDE DEF d
<1>6. PICK n \in Nat : n = size
  BY GoodTypes
<1>7. d \in Seq(Bytes) /\ Len(d) = n
  BY <1>5, <1>6
<1>8. \A i \in 1 .. size : d[i] = byte_of(blk, disk, i)
  BY <1>2, <1>4
<1>9. ASSUME NEW i \in 1 .. size PROVE byte_of(blk, d, i) = byte_of(blk, disk, i)
  <2>1. i <= Len(d)
    BY <1>6, <1>7
  <2>. QED
    BY <1>2, <1>4, <2>1 DEF byte_of, byte_below
<1>. QED
  BY <1>1, <1>3, <1>6, <1>7, <1>8, <1>9

LEMMA SyncEndStaysGood ==
    ASSUME good(size, blk, disk, others, syncing, todo), SyncEnd
    PROVE  good(size', blk', disk', others', syncing', todo')
<1>1. /\ disk' \in Seq(Bytes) /\ Len(disk') = size
      /\ \A i \in 1 .. size : disk'[i] = byte_of(blk, disk, i)
      /\ \A i \in 1 .. size : byte_of(blk, disk', i) = byte_of(blk, disk, i)
      /\ size' = size /\ blk' = blk /\ others' = others /\ todo' = {} /\ syncing' = FALSE
  BY SyncEndIsExact
<1>2. below_or_todo(blk, disk', size, {})
  <2>1. \A i \in 1 .. size : i <= size
    BY GoodTypes
  <2>. QED
    BY <1>1, <2>1 DEF below_or_todo
<1>3. size <= MaxSize
  BY GoodTypes
<1>. QED
  BY <1>1, <1>2, <1>3 DEF good

LEMMA Requests ==
    ASSUME size \in Nat, NEW off \in 0 .. MaxSize, NEW n \in 1 .. smaller(MaxWrite, MaxSize - off),
           NEW buf \in [1 .. n -> Bytes]
    PROVE  /\ buf \in Seq(Bytes) /\ Len(buf) = n /\ buf # <<>> /\ off \in Nat
           /\ n \in Nat \ {0} /\ off + Len(buf) <= MaxSize
<1>1. n \in Nat \ {0} /\ off \in Nat /\ off + n <= MaxSize
  BY LazyFileAssumption DEF smaller
<1>2. buf \in Seq(Bytes) /\ Len(buf) = n
  BY <1>1
<1>. QED
  BY <1>1, <1>2

LEMMA StepsStayGood == FileInv /\ [Next]_vars => FileInv'
<1>. SUFFICES ASSUME good(size, blk, disk, others, syncing, todo), [Next]_vars
              PROVE  good(size', blk', disk', others', syncing', todo')
  BY FileInvIsGood, NextFileInvIsGood
<1>1. ASSUME NEW off \in 0 .. MaxSize, NEW n \in 1 .. smaller(MaxWrite, MaxSize - off),
             NEW buf \in [1 .. n -> Bytes], Write(off, buf)
      PROVE  good(size', blk', disk', others', syncing', todo')
  <2>1. buf \in Seq(Bytes) /\ buf # <<>> /\ off \in Nat /\ off + Len(buf) <= MaxSize
    BY Requests, GoodTypes
  <2>. QED
    BY <1>1, <2>1, WriteStaysGood
<1>2. ASSUME NEW n \in 0 .. MaxSize, TruncateGrow(n)
      PROVE  good(size', blk', disk', others', syncing', todo')
  BY <1>2, TruncateGrowStaysGood
<1>3. ASSUME NEW n \in 0 .. MaxSize, TruncateShrink(n)
      PROVE  good(size', blk', disk', others', syncing', todo')
  BY <1>3, TruncateShrinkStaysGood
<1>4. CASE SyncStart
  BY <1>4, SyncStartStaysGood
<1>5. CASE SyncBlock
  BY <1>5, SyncBlockStaysGood
<1>6. CASE SyncEnd
  BY <1>6, SyncEndStaysGood
<1>7. CASE ClearCache \/ Crash
  BY <1>7, LoseCacheStaysGood DEF ClearCache, Crash
<1>8. CASE OtherFiles
  BY <1>8, OtherFilesStaysGood
<1>9. CASE UNCHANGED vars
  BY <1>9 DEF vars
<1>. QED
  BY <1>1, <1>2, <1>3, <1>4, <1>5, <1>6, <1>7, <1>8, <1>9 DEF Next

\* Whatever comes between the blocks of a sync, what is in no page or in a written page
\* is on the file below, and every byte of the file that is in a page is readable.
THEOREM FileInvariant == Spec => []FileInv
<1>1. Init => FileInv
  BY InitIsGood
<1>2. FileInv /\ [Next]_vars => FileInv'
  BY StepsStayGood
<1>. QED
  BY <1>1, <1>2, PTL DEF Spec

\* The values of the variables are of their types, and the blocks that a sync is still
\* to write are in pages that it has marked clean.
THEOREM TypeCorrect == Spec => []TypeOK
<1>1. FileInv => TypeOK
  BY DEF FileInv
<1>. QED
  BY <1>1, FileInvariant, PTL

\* A byte that the loss of the cache would change is in a block that the next fsync will
\* write, or that the fsync at work is still to write.
THEOREM UnsyncedBytesAreDirty == Spec => []UnsyncedIsDirty
<1>1. FileInv => UnsyncedIsDirty
  <2>. SUFFICES ASSUME FileInv, NEW i \in 1 .. smaller(size, Len(disk)),
                       content[i] # disk[i]
                PROVE  blk[(i - 1) \div IO_BLOCK_SIZE].dirty \/ (i - 1) \div IO_BLOCK_SIZE \in todo
    BY DEF UnsyncedIsDirty
  <2>1. size \in Nat /\ Len(disk) \in Nat
    BY FileInvIsGood, GoodTypes
  <2>2. i \in 1 .. size
    BY <2>1 DEF smaller
  <2>. QED
    BY <2>2 DEF FileInv, CleanIsBelow
<1>. QED
  BY <1>1, FileInvariant, PTL

LEMMA ContentType ==
    ASSUME good(size, blk, disk, others, syncing, todo)
    PROVE  /\ content \in Seq(Bytes) /\ Len(content) = size
           /\ \A i \in 1 .. size : content[i] = byte_of(blk, disk, i)
<1>. DEFINE c == [i \in 1 .. size |-> byte_of(blk, disk, i)]
<1>1. content = c
  BY ContentOf DEF content
<1>2. ASSUME NEW i \in 1 .. size PROVE byte_of(blk, disk, i) \in Bytes
  <2>1. i \in Nat \ {0} /\ i <= MaxSize
    BY GoodTypes
  <2>2. PICK b \in Blocks : b = blk_of(i)
    BY <2>1, Place
  <2>3. PICK k \in Index : k = idx_of(i)
    BY <2>1, Place
  <2>4. CASE blk[b] # NotCached
    <3>1. blk[b].data \in [Index -> Bytes]
      BY <2>4, GoodTypes DEF Cached
    <3>. QED
      BY <2>2, <2>3, <2>4, <3>1 DEF byte_of
  <2>5. CASE blk[b] = NotCached
    <3>1. i <= Len(disk) => disk[i] \in Bytes
      BY <2>1, GoodTypes
    <3>. QED
      BY <2>2, <2>5, <3>1, LazyFileAssumption DEF byte_of, byte_below
  <2>. QED
    BY <2>4, <2>5
<1>3. c \in [1 .. size -> Bytes] /\ \A i \in 1 .. size : c[i] = byte_of(blk, disk, i)
  BY <1>2
<1>. HIDE DEF c
<1>4. PICK n \in Nat : n = size
  BY GoodTypes
<1>5. c \in Seq(Bytes) /\ Len(c) = n
  BY <1>3, <1>4
<1>. QED
  BY <1>1, <1>3, <1>4, <1>5

\* Whatever write comes next, the file then has its bytes, zeros in a gap and the old
\* bytes elsewhere, and the file below changed only to bytes of the write or the gap.
THEOREM WritesAreExact == Spec => []WriteIsExact
<1>1. FileInv => WriteIsExact
  <2>. SUFFICES ASSUME good(size, blk, disk, others, syncing, todo), ~ syncing,
                       NEW off \in 0 .. MaxSize, NEW n \in 1 .. smaller(MaxWrite, MaxSize - off),
                       NEW buf \in [1 .. n -> Bytes],
                       NEW c, c = pwrite(content, buf, off),
                       NEW w, w = lfs_write(off, buf)
                PROVE  /\ content_of(w.blk, w.disk, larger(size, off + n)) = c
                       /\ Len(w.disk) <= larger(Len(disk), off + n)
                       /\ \A i \in 1 .. Len(w.disk) :
                             \/ i <= Len(disk) /\ w.disk[i] = disk[i]
                             \/ i > Len(disk) /\ w.disk[i] = NUL
                             \/ smaller(off, size) < i /\ i <= off + n /\ w.disk[i] = c[i]
    BY FileInvIsGood DEF WriteIsExact
  <2>1. /\ size \in Nat /\ disk \in Seq(Bytes) /\ Len(disk) \in Nat
        /\ size \in 0 .. MaxSize /\ stored(blk, disk, size)
    BY GoodTypes DEF good
  <2>2. /\ buf \in Seq(Bytes) /\ Len(buf) = n /\ buf # <<>> /\ off \in Nat
        /\ n \in Nat \ {0} /\ off + Len(buf) <= MaxSize
    BY <2>1, Requests
  <2>3. is_file_with(w, buf, off)
    <3>1. is_file_with(lfs_write(off, buf), buf, off)
      BY <2>1, <2>2, LfsWrite
    <3>. QED
      BY <3>1
  <2>4. PICK end \in Nat : end = larger(size, off + n)
    BY <2>1, <2>2 DEF larger
  <2>5. /\ \A i \in 1 .. end :
              byte_of(w.blk, w.disk, i) = IF of_write(i, off, n) THEN buf[i - off]
                                          ELSE IF i <= size THEN byte_of(blk, disk, i) ELSE NUL
        /\ Len(disk) <= Len(w.disk) /\ Len(w.disk) <= larger(Len(disk), off + n)
        /\ \A i \in 1 .. Len(w.disk) :
              \/ of_write(i, off, n) /\ w.disk[i] = buf[i - off]
              \/ w.disk[i] = byte_below(disk, i)
              \/ size < i /\ i <= off /\ w.disk[i] = NUL
    BY <2>2, <2>3, <2>4 DEF is_file_with
  <2>6. c = [i \in 1 .. end |-> IF off < i /\ i <= off + n THEN buf[i - off]
                                ELSE IF i <= size THEN content[i] ELSE NUL]
    BY <2>2, <2>4, ContentType DEF pwrite
  <2>7. ASSUME NEW i \in 1 .. end
        PROVE  c[i] = IF of_write(i, off, n) THEN buf[i - off]
                      ELSE IF i <= size THEN byte_of(blk, disk, i) ELSE NUL
    <3>1. i <= size => i \in 1 .. size
      BY <2>1
    <3>. QED
      BY <2>6, <3>1, ContentType DEF of_write
  <2>8. content_of(w.blk, w.disk, end) = c
    <3>1. content_of(w.blk, w.disk, end) = [i \in 1 .. end |-> byte_of(w.blk, w.disk, i)]
      BY ContentOf
    <3>2. c = [i \in 1 .. end |-> c[i]]
      BY <2>6
    <3>3. \A i \in 1 .. end : byte_of(w.blk, w.disk, i) = c[i]
      BY <2>5, <2>7
    <3>. QED
      BY <3>1, <3>2, <3>3
  <2>9. Len(w.disk) \in Nat
    BY <2>3 DEF is_file_with, stored
  <2>10. ASSUME NEW i \in 1 .. Len(w.disk)
         PROVE  \/ i <= Len(disk) /\ w.disk[i] = disk[i]
                \/ i > Len(disk) /\ w.disk[i] = NUL
                \/ smaller(off, size) < i /\ i <= off + n /\ w.disk[i] = c[i]
    <3>1. i \in Nat \ {0}
      BY <2>9
    <3>2. CASE of_write(i, off, n) /\ w.disk[i] = buf[i - off]
      <4>1. i \in 1 .. end /\ smaller(off, size) < i /\ i <= off + n
        BY <2>1, <2>2, <2>4, <3>1, <3>2 DEF of_write, larger, smaller
      <4>. QED
        BY <2>7, <3>2, <4>1
    <3>3. CASE w.disk[i] = byte_below(disk, i)
      BY <2>1, <3>1, <3>3 DEF byte_below
    <3>4. CASE ~ of_write(i, off, n) /\ size < i /\ i <= off /\ w.disk[i] = NUL
      <4>1. i \in 1 .. end /\ smaller(off, size) < i /\ i <= off + n /\ ~ (i <= size)
        BY <2>1, <2>2, <2>4, <3>1, <3>4 DEF larger, smaller
      <4>. QED
        BY <2>7, <3>4, <4>1
    <3>. QED
      BY <2>2, <2>5, <3>1, <3>2, <3>3, <3>4 DEF of_write
  <2>. QED
    BY <2>4, <2>5, <2>8, <2>10
<1>. QED
  BY <1>1, FileInvariant, PTL

\* An fsync changes no byte that a reader sees, and when it returns the file below is
\* what the readers see.
THEOREM FsyncsAreExact == Spec => FsyncIsExact
<1>. DEFINE A == /\ SyncBlock => content' = content
                 /\ SyncEnd => content' = content /\ disk' = content
<1>1. FileInv /\ [Next]_vars => [A]_vars
  <2>. SUFFICES ASSUME good(size, blk, disk, others, syncing, todo) PROVE A
    BY FileInvIsGood
  <2>1. /\ content = [i \in 1 .. size |-> byte_of(blk, disk, i)]
        /\ content' = [i \in 1 .. size' |-> byte_of(blk', disk', i)]
    BY ContentOf DEF content
  <2>2. ASSUME SyncBlock PROVE content' = content
    <3>1. PICK b, w : is_sync(b, w)
      BY <2>2, SyncBlockWrites
    <3>2. is_part_of_sync(b) /\ size' = size /\ blk' = blk
      BY <3>1, SyncBlockIsPart DEF is_sync
    <3>. QED
      BY <2>1, <3>2 DEF is_part_of_sync
  <2>3. ASSUME SyncEnd PROVE content' = content /\ disk' = content
    <3>1. /\ disk' \in Seq(Bytes) /\ Len(disk') = size
          /\ \A i \in 1 .. size : disk'[i] = byte_of(blk, disk, i)
          /\ \A i \in 1 .. size : byte_of(blk, disk', i) = byte_of(blk, disk, i)
          /\ size' = size /\ blk' = blk
      BY <2>3, SyncEndIsExact
    <3>2. disk' = [i \in 1 .. size |-> disk'[i]]
      BY <3>1
    <3>. QED
      BY <2>1, <3>1, <3>2
  <2>. QED
    BY <2>2, <2>3
<1>2. Spec => [][A]_vars
  BY <1>1, FileInvariant, PTL DEF Spec
<1>. QED
  BY <1>2 DEF FsyncIsExact

-----------------------------------------------------------------------------
(* Reads.                                                                  *)

\* p is s from after its m-th to its n-th element.
is_part(p, s, m, n) == Len(p) = n - m /\ \A j \in 1 .. n - m : p[j] = s[m + j]

LEMMA Part ==
    ASSUME NEW T, NEW s \in Seq(T), NEW m \in Nat, NEW n \in Nat, m < n, n <= Len(s)
    PROVE  is_part(SubSeq(s, m + 1, n), s, m, n)
<1>1. PICK k \in Nat \ {0} : k = m + 1
  OBVIOUS
<1>2. /\ Len(SubSeq(s, k, n)) = n - k + 1
      /\ \A j \in 1 .. (n - k + 1) : SubSeq(s, k, n)[j] = s[k + j - 1]
  BY <1>1
<1>3. n - k + 1 = n - m /\ \A j \in 1 .. n - m : k + j - 1 = m + j
  BY <1>1
<1>. QED
  BY <1>1, <1>2, <1>3 DEF is_part

LEMMA CoveredEnds ==
    ASSUME NEW off \in Nat, NEW n \in Nat \ {0}, NEW b \in Int, covers(b, off, n)
    PROVE  /\ start(b) + blk_readable_from(b, off) = larger(start(b), off)
           /\ start(b) + blk_readable_to(b, off, n) + 1 = smaller(start(b) + IO_BLOCK_SIZE, off + n)
<1>1. PICK s \in Nat : s = start(b)
  BY Covered
<1>2. PICK from \in Nat : from = blk_readable_from(b, off)
  BY Covered DEF Index
<1>3. PICK to \in Nat : to = blk_readable_to(b, off, n)
  BY Covered DEF Index
<1>4. PICK B \in Nat \ {0} : B = IO_BLOCK_SIZE
  BY BlockSize
<1>5. /\ off <= s + from /\ from <= to /\ s + to < off + n
      /\ \A i \in Int : in_block(i, b) /\ off < i /\ i <= off + n <=> s + from < i /\ i <= s + to + 1
  BY <1>1, <1>2, <1>3, Covered
<1>6. \A i \in Int : s < i /\ i <= s + B /\ off < i /\ i <= off + n <=> s + from < i /\ i <= s + to + 1
  BY <1>1, <1>4, <1>5 DEF in_block
<1>7. s + to + 1 <= s + B
  <2>1. PICK i \in Int : i = s + to + 1
    OBVIOUS
  <2>2. s + from < i /\ i <= s + to + 1
    BY <1>5, <2>1
  <2>. QED
    BY <1>6, <2>1, <2>2
<1>8. ~ (s < s + from /\ off < s + from)
  BY <1>5, <1>6, <1>7
<1>9. ~ (s + to + 1 < s + B /\ s + to + 1 < off + n)
  BY <1>5, <1>6
<1>. QED
  BY <1>1, <1>2, <1>3, <1>4, <1>5, <1>7, <1>8, <1>9 DEF larger, smaller

\* r has the bytes of the file from off up to its h-th.
has_read(r, off, h) ==
    /\ r \in Seq(Bytes)
    /\ \A i \in 1 .. size : off < i /\ i <= h => i - off <= Len(r) /\ r[i - off] = content[i]

LEMMA ChunkType ==
    ASSUME good(size, blk, disk, others, syncing, todo),
           NEW off \in Nat, NEW n \in Nat \ {0}, NEW b \in Nat
    PROVE  chunk(b, n, off) \in Seq(Bytes)
<1>1. PICK B \in Nat \ {0} : B = IO_BLOCK_SIZE /\ Index = 0 .. B - 1
  BY BlockSize DEF Index
<1>2. PICK from \in 0 .. B - 1 : from = blk_readable_from(b, off)
  <2>1. off % B \in 0 .. B - 1
    BY Division
  <2>. QED
    BY <1>1, <2>1 DEF blk_readable_from
<1>3. PICK to \in 0 .. B - 1 : to = blk_readable_to(b, off, n)
  <2>1. PICK m \in Nat : m = off + n - 1
    OBVIOUS
  <2>2. m % B \in 0 .. B - 1
    BY Division
  <2>. QED
    BY <1>1, <2>1, <2>2 DEF blk_readable_to
<1>4. CASE b \in Blocks /\ blk[b] # NotCached
  <2>1. blk[b] \in Cached
    BY <1>4, GoodTypes
  <2>2. PICK t \in 0 .. B - 1 : t = blk[b].to
    BY <1>1, <2>1 DEF Cached
  <2>3. blk[b].data \in [0 .. B - 1 -> Bytes]
    BY <1>1, <2>1 DEF Cached
  <2>4. PICK len \in Int : len = smaller(t, to) - from + 1
    BY DEF smaller
  <2>5. \A i \in 1 .. len : from + i - 1 \in 0 .. B - 1
    BY <2>4 DEF smaller
  <2>6. chunk(b, n, off) = [i \in 1 .. len |-> blk[b].data[from + i - 1]]
    BY <1>2, <1>3, <1>4, <2>2, <2>4 DEF chunk
  <2>7. \A i \in 1 .. len : blk[b].data[from + i - 1] \in Bytes
    BY <2>3, <2>5
  <2>8. CASE len \in Nat
    BY <2>6, <2>7, <2>8
  <2>9. CASE len \notin Nat
    <3>1. 1 .. len = 1 .. 0
      BY <2>9
    <3>2. chunk(b, n, off) = [i \in 1 .. 0 |-> blk[b].data[from + i - 1]]
      BY <2>6, <3>1
    <3>. QED
      BY <3>2
  <2>. QED
    BY <2>8, <2>9
<1>5. CASE ~ (b \in Blocks /\ blk[b] # NotCached)
  <2>1. PICK s \in Nat : s = start(b)
    BY Start
  <2>2. PICK lo \in Nat \ {0} : lo = s + from + 1
    BY <2>1
  <2>3. PICK hi \in Int : hi = smaller(s + from + (to - from + 1), Len(disk)) /\ hi <= Len(disk)
    BY GoodTypes DEF smaller
  <2>4. chunk(b, n, off) = IF size > s THEN SubSeq(disk, lo, hi) ELSE <<>>
    BY <1>2, <1>3, <1>5, <2>1, <2>2, <2>3 DEF chunk, pread, start
  <2>5. SubSeq(disk, lo, hi) \in Seq(Bytes)
    BY <2>2, <2>3, GoodTypes
  <2>. QED
    BY <2>4, <2>5
<1>. QED
  BY <1>4, <1>5

LEMMA Chunk ==
    ASSUME good(size, blk, disk, others, syncing, todo),
           NEW off \in Nat, NEW n \in Nat \ {0}, NEW b \in Nat, covers(b, off, n),
           start(b) <= size,
           NEW s \in Nat, s = larger(start(b), off),
           NEW e \in Nat, e = smaller(start(b) + IO_BLOCK_SIZE, off + n)
    PROVE  /\ has_read(chunk(b, n, off), s, e)
           /\ e <= size => Len(chunk(b, n, off)) = e - s
<1>1. PICK r \in Seq(Bytes) : r = chunk(b, n, off)
  BY ChunkType
<1>2. PICK st \in Nat : st = start(b)
  BY Start
<1>3. PICK B \in Nat \ {0} : B = IO_BLOCK_SIZE
  BY BlockSize
<1>4. PICK from \in Index : from = blk_readable_from(b, off)
  BY Covered
<1>5. PICK to \in Index : to = blk_readable_to(b, off, n)
  BY Covered
<1>6. from \in 0 .. B - 1 /\ to \in 0 .. B - 1 /\ from <= to /\ s = st + from /\ e = st + to + 1
  BY SMTT(30), <1>2, <1>3, <1>4, <1>5, Covered, CoveredEnds DEF Index
<1>7. /\ size \in Nat /\ disk \in Seq(Bytes) /\ Len(disk) \in Nat
      /\ size <= MaxSize /\ MaxSize \in Nat
  BY GoodTypes
\* The bytes of the file that the chunk is to have.
<1>8. ASSUME NEW i \in 1 .. size, s < i, i <= e
      PROVE  /\ blk_of(i) = b /\ b \in Blocks /\ idx_of(i) = i - st - 1 /\ i - st - 1 \in Index
             /\ content[i] = byte_of(blk, disk, i)
  <2>1. i \in Nat \ {0} /\ i <= MaxSize
    BY <1>7
  <2>2. PICK k \in Index : k = i - st - 1
    BY <1>3, <1>6, <1>8, <2>1 DEF Index
  <2>3. k \in Nat /\ i = st + k + 1
    BY <2>1, <2>2 DEF Index
  <2>4. blk_of(i) = b /\ idx_of(i) = k
    BY <1>2, <2>3, PlaceOf
  <2>5. b \in Blocks
    BY <2>1, <2>4, Place
  <2>. QED
    BY <2>2, <2>4, <2>5, ContentType
<1>9. CASE b \in Blocks /\ blk[b] # NotCached
  <2>1. PICK t \in 0 .. B - 1 : t = blk[b].to
    BY <1>3, <1>9, GoodTypes DEF Cached, Index
  <2>2. PICK len \in Int : len = smaller(t, to) - from + 1
    BY <1>6 DEF smaller
  <2>3. r = [i \in 1 .. len |-> blk[b].data[from + i - 1]]
    BY <1>1, <1>4, <1>5, <1>9, <2>1, <2>2 DEF chunk
  <2>4. \A i \in 1 .. size : s < i /\ i <= e => i - st - 1 <= t
    <3>. TAKE i \in 1 .. size
    <3>. HAVE s < i /\ i <= e
    <3>1. PICK k \in Index : k = i - st - 1
      BY <1>8
    <3>2. st + k < size
      BY <1>7, <3>1
    <3>. QED
      BY <1>2, <1>9, <2>1, <3>1, <3>2 DEF good, readable_up_to
  <2>5. ASSUME NEW i \in 1 .. size, s < i, i <= e
        PROVE  i - s <= Len(r) /\ r[i - s] = content[i]
    <3>1. PICK j \in Nat \ {0} : j = i - s
      BY <1>7, <2>5
    <3>2. j \in 1 .. len
      BY <1>6, <1>7, <2>2, <2>4, <2>5, <3>1 DEF smaller
    <3>3. Len(r) = len
      BY <2>3, <3>2
    <3>4. r[j] = blk[b].data[from + j - 1]
      BY <2>3, <3>2
    <3>5. from + j - 1 = i - st - 1
      BY <1>6, <1>7, <3>1
    <3>6. content[i] = blk[b].data[i - st - 1]
      BY <1>8, <1>9, <2>5 DEF byte_of
    <3>. QED
      BY <3>1, <3>2, <3>3, <3>4, <3>5, <3>6
  <2>6. ASSUME e <= size PROVE Len(r) = e - s
    <3>1. e \in 1 .. size /\ s < e
      BY <1>6, <1>7, <2>6
    <3>2. to <= t
      BY <1>6, <2>4, <3>1
    <3>3. len = e - s /\ len \in Nat
      BY <1>6, <2>2, <3>1, <3>2 DEF smaller
    <3>. QED
      BY <2>3, <3>3
  <2>. QED
    BY <1>1, <2>5, <2>6 DEF has_read
<1>10. CASE ~ (b \in Blocks /\ blk[b] # NotCached)
  <2>1. CASE size > st
    <3>1. PICK lo \in Nat \ {0} : lo = s + 1
      OBVIOUS
    <3>2. PICK hi \in Nat : hi = smaller(e, Len(disk)) /\ hi <= Len(disk)
      BY <1>7 DEF smaller
    <3>3. r = SubSeq(disk, lo, hi)
      <4>1. st + from + 1 = lo /\ st + from + (to - from + 1) = e
        BY <1>6, <3>1
      <4>2. r = pread(disk, to - from + 1, st + from)
        BY <1>1, <1>2, <1>4, <1>5, <1>10, <2>1 DEF chunk, start
      <4>. QED
        BY <3>2, <4>1, <4>2 DEF pread
    <3>4. lo <= hi => /\ Len(r) = hi - s
                      /\ \A j \in 1 .. hi - s : r[j] = disk[s + j]
      <4>. HAVE lo <= hi
      <4>1. PICK d \in Seq(Bytes) : d = disk
        BY <1>7
      <4>2. s < hi /\ hi <= Len(d)
        BY <3>1, <3>2, <4>1
      <4>3. is_part(SubSeq(d, s + 1, hi), d, s, hi)
        BY <4>2, Part
      <4>4. is_part(r, disk, s, hi)
        BY <3>1, <3>3, <4>1, <4>3
      <4>. QED
        BY <4>4 DEF is_part
    <3>5. ASSUME NEW i \in 1 .. size, s < i, i <= e
          PROVE  i <= Len(disk) /\ content[i] = disk[i]
      <4>1. blk_of(i) = b /\ b \in Blocks /\ blk[b] = NotCached
        BY <1>8, <1>10, <3>5
      <4>2. ~ blk[b].dirty /\ b \notin todo
        BY <4>1, GoodTypes, NotCachedIsNot
      <4>. QED
        BY <1>8, <3>5, <4>1, <4>2 DEF good, below_or_todo
    <3>6. ASSUME NEW i \in 1 .. size, s < i, i <= e
          PROVE  i - s <= Len(r) /\ r[i - s] = content[i]
      <4>1. i <= hi /\ lo <= hi
        BY <1>7, <3>1, <3>2, <3>5, <3>6 DEF smaller
      <4>2. PICK j \in 1 .. hi - s : j = i - s
        BY SMTT(30), <1>7, <3>6, <4>1
      <4>3. s + j = i
        BY <1>7, <4>2
      <4>4. r[j] = disk[i] /\ Len(r) = hi - s
        BY <3>4, <4>1, <4>3
      <4>. QED
        BY <3>5, <3>6, <4>2, <4>4
    <3>7. ASSUME e <= size PROVE Len(r) = e - s
      <4>1. e \in 1 .. size /\ s < e
        BY <1>6, <1>7, <3>7
      <4>2. e <= Len(disk)
        BY <3>5, <4>1
      <4>3. hi = e /\ lo <= hi
        BY <1>7, <3>1, <3>2, <4>1, <4>2 DEF smaller
      <4>. QED
        BY <3>4, <4>3
    <3>. QED
      BY <1>1, <3>6, <3>7 DEF has_read
  <2>2. CASE ~ (size > st)
    <3>1. \A i \in 1 .. size : ~ (s < i)
      BY <1>6, <1>7, <2>2
    <3>2. ~ (e <= size)
      BY <1>6, <1>7, <2>2
    <3>. QED
      BY <1>1, <3>1, <3>2 DEF has_read
  <2>. QED
    BY <2>1, <2>2
<1>. QED
  BY <1>9, <1>10

\* What the loop of lfs_read has before each block.
reads(before, first, n, off) ==
    /\ \A b \in Nat : b <= first => before[b] = <<>>
    /\ \A b \in Nat : first <= b =>
          before[b + 1] = IF start(b) <= size THEN before[b] \o chunk(b, n, off) ELSE before[b]

LEMMA ReadBefore ==
    ASSUME good(size, blk, disk, others, syncing, todo),
           NEW off \in Nat, NEW n \in Nat \ {0}, off < size,
           NEW first \in Nat, first = off \div IO_BLOCK_SIZE,
           NEW last \in Nat, last = (off + n - 1) \div IO_BLOCK_SIZE
    PROVE  \E before : reads(before, first, n, off) /\ lfs_read(n, off) = before[last + 1]
<1>. DEFINE R(f) == f = [b \in Nat |->
                           IF b <= first THEN <<>>
                           ELSE IF (b - 1) * IO_BLOCK_SIZE <= size
                                THEN f[b - 1] \o chunk(b - 1, n, off)
                           ELSE f[b - 1]]
            G == [b \in Nat |-> [d \in Seq(Bytes) |->
                    IF b <= first THEN <<>>
                    ELSE IF (b - 1) * IO_BLOCK_SIZE <= size THEN d \o chunk(b - 1, n, off)
                    ELSE d]]
            before == CHOOSE f : R(f)
<1>1. \A b \in Nat : chunk(b, n, off) \in Seq(Bytes)
  BY ChunkType
<1>2. \A b \in Nat, d \in Seq(Bytes) :
         G[b][d] = IF b <= first THEN <<>>
                   ELSE IF (b - 1) * IO_BLOCK_SIZE <= size THEN d \o chunk(b - 1, n, off)
                   ELSE d
  OBVIOUS
<1>3. G \in [Nat -> [Seq(Bytes) -> Seq(Bytes)]]
  <2>1. \A b \in Nat, d \in Seq(Bytes) : ~ (b <= first) => d \o chunk(b - 1, n, off) \in Seq(Bytes)
    <3>. TAKE b \in Nat, d \in Seq(Bytes)
    <3>. HAVE ~ (b <= first)
    <3>1. b - 1 \in Nat
      OBVIOUS
    <3>2. PICK e \in Seq(Bytes) : e = chunk(b - 1, n, off)
      BY <1>1, <3>1
    <3>. QED
      BY <3>2
  <2>2. <<>> \in Seq(Bytes)
    OBVIOUS
  <2>. QED
    BY <2>1, <2>2
<1>. HIDE DEF G
<1>4. \E f \in [Nat -> Seq(Bytes)] : f[0] = <<>> /\ \A b \in Nat : f[b + 1] = G[b + 1][f[b]]
  <2>1. PICK V : V = Seq(Bytes)
    OBVIOUS
  <2>2. PICK z \in V : z = <<>>
    <3>1. <<>> \in Seq(Bytes)
      OBVIOUS
    <3>. QED
      BY <2>1, <3>1
  <2>3. PICK H \in [Nat -> [V -> V]] : H = G
    BY <1>3, <2>1
  <2>4. \E f \in [Nat -> V] : unfolds(f, z, H)
    BY <2>2, <2>3, Recursion
  <2>. QED
    BY <2>1, <2>2, <2>3, <2>4 DEF unfolds
<1>5. PICK f \in [Nat -> Seq(Bytes)] :
         f[0] = <<>> /\ \A b \in Nat : f[b + 1] = G[b + 1][f[b]]
  BY <1>4
<1>6. ASSUME NEW b \in Nat
      PROVE  f[b] = IF b <= first THEN <<>>
                    ELSE IF (b - 1) * IO_BLOCK_SIZE <= size THEN f[b - 1] \o chunk(b - 1, n, off)
                    ELSE f[b - 1]
  <2>1. CASE b = 0
    BY <1>5, <2>1
  <2>2. CASE b # 0
    <3>1. b - 1 \in Nat /\ (b - 1) + 1 = b
      BY <2>2
    <3>2. f[b] = G[b][f[b - 1]] /\ f[b - 1] \in Seq(Bytes)
      BY <1>5, <3>1
    <3>. QED
      BY <1>2, <3>2
  <2>. QED
    BY <2>1, <2>2
<1>7. R(f)
  BY <1>5, <1>6
<1>8. R(before)
  <2>. HIDE DEF R
  <2>. QED
    BY <1>7
<1>9. lfs_read(n, off) = before[last + 1]
  <2>1. ~ (off > size - 1)
    BY GoodTypes
  <2>. QED
    BY <2>1 DEF lfs_read
<1>. HIDE DEF before
<1>10. \A b \in Nat : before[b] = IF b <= first THEN <<>>
                                  ELSE IF (b - 1) * IO_BLOCK_SIZE <= size
                                       THEN before[b - 1] \o chunk(b - 1, n, off)
                                  ELSE before[b - 1]
  <2>1. before = [b \in Nat |-> IF b <= first THEN <<>>
                                ELSE IF (b - 1) * IO_BLOCK_SIZE <= size
                                     THEN before[b - 1] \o chunk(b - 1, n, off)
                                ELSE before[b - 1]]
    BY <1>8
  <2>. QED
    BY <2>1
<1>. HIDE DEF R
<1>11. \A b \in Nat : b <= first => before[b] = <<>>
  BY <1>10
<1>12. ASSUME NEW b \in Nat, first <= b
       PROVE  before[b + 1] = IF start(b) <= size THEN before[b] \o chunk(b, n, off)
                              ELSE before[b]
  <2>1. b + 1 \in Nat /\ ~ (b + 1 <= first) /\ (b + 1) - 1 = b
    BY <1>12
  <2>. QED
    BY <1>10, <2>1 DEF start
<1>13. reads(before, first, n, off)
  BY <1>11, <1>12, Zenon DEF reads
<1>. QED
  BY <1>9, <1>13, Zenon

LEMMA ReadBeforeType ==
    ASSUME good(size, blk, disk, others, syncing, todo),
           NEW off \in Nat, NEW n \in Nat \ {0}, NEW first \in Nat,
           NEW before, reads(before, first, n, off),
           NEW b \in Nat
    PROVE  before[b] \in Seq(Bytes)
<1>1. PICK V : V = Seq(Bytes)
  OBVIOUS
<1>2. <<>> \in V
  <2>1. <<>> \in Seq(Bytes)
    OBVIOUS
  <2>. QED
    BY <1>1, <2>1
<1>. DEFINE I == {m \in Nat : before[m] \in V}
<1>3. 0 \in I
  <2>1. before[0] = <<>>
    BY DEF reads
  <2>. QED
    BY <1>2, <2>1
<1>4. ASSUME NEW m \in Nat, m \in I PROVE m + 1 \in I
  <2>1. CASE first <= m
    <3>1. PICK d \in Seq(Bytes) : d = before[m]
      BY <1>4, <1>1
    <3>2. PICK e \in Seq(Bytes) : e = chunk(m, n, off)
      BY ChunkType
    <3>3. d \o e \in Seq(Bytes)
      OBVIOUS
    <3>4. before[m + 1] = d \o e \/ before[m + 1] = d
      BY <2>1, <3>1, <3>2 DEF reads
    <3>5. before[m + 1] \in V
      BY <1>1, <3>1, <3>3, <3>4
    <3>. QED
      BY <3>5
  <2>2. CASE ~ (first <= m)
    <3>1. m + 1 \in Nat /\ m + 1 <= first
      BY <2>2
    <3>2. before[m + 1] = <<>>
      BY <3>1 DEF reads
    <3>. QED
      BY <1>2, <3>2
  <2>. QED
    BY <2>1, <2>2
<1>5. Nat \subseteq I
  <2>. HIDE DEF I
  <2>. QED
    BY <1>3, <1>4, Induction
<1>. QED
  BY <1>5, <1>1

LEMMA ReadChunks ==
    ASSUME good(size, blk, disk, others, syncing, todo),
           NEW off \in Nat, NEW n \in Nat \ {0}, off < size
    PROVE  has_read(lfs_read(n, off), off, off + n)
<1>1. size \in Nat
  BY GoodTypes
<1>2. PICK end \in Nat : end = off + n - 1
  OBVIOUS
<1>3. PICK first \in Nat : first = off \div IO_BLOCK_SIZE
  BY Division, BlockSize
<1>4. PICK last \in Nat : last = (off + n - 1) \div IO_BLOCK_SIZE /\ first <= last
  <2>1. off <= end
    BY <1>2
  <2>. QED
    BY <1>2, <1>3, <2>1, DivisionGrows
<1>5. \A b \in Nat : first <= b /\ b <= last => covers(b, off, n)
  BY <1>3, <1>4 DEF covers
<1>6. PICK before :
         /\ \A b \in Nat : before[b] \in Seq(Bytes)
         /\ before[first] = <<>>
         /\ \A b \in Nat : first <= b =>
               before[b + 1] = IF start(b) <= size THEN before[b] \o chunk(b, n, off)
                               ELSE before[b]
         /\ lfs_read(n, off) = before[last + 1]
  <2>1. PICK f : reads(f, first, n, off) /\ lfs_read(n, off) = f[last + 1]
    BY <1>3, <1>4, ReadBefore
  <2>2. \A b \in Nat : f[b] \in Seq(Bytes)
    BY <2>1, ReadBeforeType
  <2>3. f[first] = <<>>
    BY <2>1 DEF reads
  <2>4. \A b \in Nat : first <= b =>
           f[b + 1] = IF start(b) <= size THEN f[b] \o chunk(b, n, off) ELSE f[b]
    BY <2>1, Zenon DEF reads
  <2>. QED
    BY <2>1, <2>2, <2>3, <2>4, Zenon
<1>7. PICK B \in Nat \ {0} : B = IO_BLOCK_SIZE
  BY BlockSize
\* Before block b the loop has the bytes up to it, and no more when the block is in
\* the file.
<1>. DEFINE has(r, at, full) == has_read(r, off, at) /\ (full => Len(r) = at - off)
<1>8. ASSUME NEW b \in Nat, first <= b, b <= last,
             has(before[b], larger(start(b), off), start(b) <= size)
      PROVE  has(before[b + 1], smaller(start(b) + IO_BLOCK_SIZE, off + n),
                 smaller(start(b) + IO_BLOCK_SIZE, off + n) <= size)
  <2>1. PICK st \in Nat : st = start(b)
    BY Start
  <2>2. PICK s \in Nat : s = larger(st, off)
    BY DEF larger
  <2>3. PICK e \in Nat : e = smaller(st + B, off + n)
    BY <1>7 DEF smaller
  <2>4. covers(b, off, n)
    BY <1>5, <1>8
  <2>5. off <= s /\ st <= s /\ s < e /\ (s = st \/ s = off)
    <3>1. PICK from \in Index : from = blk_readable_from(b, off)
      BY <2>4, Covered
    <3>2. PICK to \in Index : to = blk_readable_to(b, off, n)
      BY <2>4, Covered
    <3>3. from \in Nat /\ to \in Nat /\ from <= to
      BY <2>4, <3>1, <3>2, Covered DEF Index
    <3>4. s = st + from /\ e = st + to + 1
      BY <1>7, <2>1, <2>2, <2>3, <2>4, <3>1, <3>2, CoveredEnds
    <3>. QED
      BY <2>2, <3>3, <3>4 DEF larger
  <2>6. PICK d \in Seq(Bytes) : d = before[b]
    BY <1>6
  <2>7. has_read(d, off, s) /\ (st <= size => Len(d) = s - off)
    BY <1>8, <2>1, <2>2, <2>6
  <2>8. PICK r \in Seq(Bytes) : r = before[b + 1]
    BY SMTT(30), <1>6
  <2>9. SUFFICES has_read(r, off, e) /\ (e <= size => Len(r) = e - off)
    BY <1>7, <2>1, <2>3, <2>8
  <2>10. CASE st <= size
    <3>1. PICK c \in Seq(Bytes) : c = chunk(b, n, off)
      BY ChunkType
    <3>2. has_read(c, s, e) /\ (e <= size => Len(c) = e - s)
      BY SMTT(30), <1>7, <2>1, <2>2, <2>3, <2>4, <2>10, <3>1, Chunk
    <3>3. r = d \o c
      BY <1>6, <1>8, <2>1, <2>6, <2>8, <2>10, <3>1
    <3>4. Len(d) = s - off /\ Len(d) \in Nat /\ Len(c) \in Nat
      BY <2>7, <2>10
    <3>5. /\ Len(r) = Len(d) + Len(c)
          /\ \A j \in 1 .. Len(d) + Len(c) : r[j] = IF j <= Len(d) THEN d[j] ELSE c[j - Len(d)]
      BY <3>3
    <3>6. ASSUME NEW i \in 1 .. size, off < i, i <= e
          PROVE  i - off <= Len(r) /\ r[i - off] = content[i]
      <4>1. PICK j \in Nat \ {0} : j = i - off
        BY <1>1, <3>6
      <4>2. CASE i <= s
        <5>1. j <= Len(d) /\ d[j] = content[i]
          BY <2>7, <3>6, <4>1, <4>2 DEF has_read
        <5>2. j \in 1 .. Len(d) + Len(c)
          BY <3>4, <5>1
        <5>. QED
          BY <3>4, <3>5, <4>1, <5>1, <5>2
      <4>3. CASE s < i
        <5>1. i - s <= Len(c) /\ c[i - s] = content[i]
          BY <3>2, <3>6, <4>3 DEF has_read
        <5>2. j - Len(d) = i - s /\ ~ (j <= Len(d)) /\ j \in 1 .. Len(d) + Len(c)
          BY <1>1, <2>5, <3>4, <4>1, <4>3, <5>1
        <5>. QED
          BY SMTT(30), <3>4, <3>5, <4>1, <5>1, <5>2
      <4>. QED
        BY <1>1, <4>2, <4>3
    <3>7. e <= size => Len(r) = e - off
      BY <2>5, <3>2, <3>4, <3>5
    <3>. QED
      BY <3>6, <3>7 DEF has_read
  <2>11. CASE ~ (st <= size)
    <3>1. r = d
      BY <1>6, <1>8, <2>1, <2>6, <2>8, <2>11
    <3>2. ~ (e <= size)
      BY <1>1, <2>5, <2>11
    <3>3. \A i \in 1 .. size : i <= s
      BY <1>1, <2>5, <2>11
    <3>. QED
      BY <2>7, <3>1, <3>2, <3>3 DEF has_read
  <2>. QED
    BY <2>10, <2>11
<1>. DEFINE I == {b \in Nat : first <= b /\ b <= last =>
                                 has(before[b], larger(start(b), off), start(b) <= size)}
<1>9. ASSUME NEW b \in Nat, b = first PROVE has(before[b], larger(start(b), off), start(b) <= size)
  <2>1. larger(start(b), off) = off
    <3>1. start(b) <= off /\ start(b) \in Nat
      BY <1>3, <1>9, Quotient, BlockSize, Start DEF start
    <3>. QED
      BY <3>1 DEF larger
  <2>2. before[b] = <<>> /\ <<>> \in Seq(Bytes) /\ Len(<<>>) = off - off
    BY <1>6, <1>9
  <2>3. \A i \in 1 .. size : ~ (off < i /\ i <= off)
    BY <1>1
  <2>4. has_read(before[b], off, off)
    BY <2>2, <2>3 DEF has_read
  <2>. QED
    BY <2>1, <2>2, <2>4
<1>. HIDE DEF has
<1>10. 0 \in I
  BY <1>9
<1>11. ASSUME NEW b \in Nat, b \in I PROVE b + 1 \in I
  <2>. SUFFICES ASSUME first <= b + 1, b + 1 <= last
                PROVE  has(before[b + 1], larger(start(b + 1), off), start(b + 1) <= size)
    OBVIOUS
  <2>1. CASE first = b + 1
    BY <1>9, <2>1
  <2>2. CASE first <= b
    <3>1. has(before[b], larger(start(b), off), start(b) <= size)
      BY <1>11, <2>2
    <3>2. has(before[b + 1], smaller(start(b) + IO_BLOCK_SIZE, off + n),
              smaller(start(b) + IO_BLOCK_SIZE, off + n) <= size)
      BY <1>8, <2>2, <3>1
    <3>3. PICK st \in Nat : st = start(b + 1)
      BY Start
    <3>4. start(b) + IO_BLOCK_SIZE = st
      BY <3>3, BlockSize DEF start
    <3>5. smaller(st, off + n) = st /\ larger(st, off) = st
      <4>1. PICK c \in Nat : c = b + 1
        OBVIOUS
      <4>2. covers(c, off, n)
        BY <1>5, <4>1
      <4>3. c # first
        BY <2>2, <4>1
      <4>4. PICK to \in Nat : to = blk_readable_to(c, off, n)
        BY <4>2, Covered DEF Index
      <4>5. st + to < off + n
        BY <3>3, <4>1, <4>2, <4>4, Covered
      <4>6. blk_readable_from(c, off) = 0
        BY <1>3, <4>3 DEF blk_readable_from
      <4>7. st + 0 = larger(st, off)
        BY <3>3, <4>1, <4>2, <4>6, CoveredEnds
      <4>. QED
        BY <4>5, <4>7 DEF smaller
    <3>. QED
      BY <3>2, <3>3, <3>4, <3>5
  <2>. QED
    BY <2>1, <2>2
<1>12. Nat \subseteq I
  <2>. HIDE DEF I
  <2>. QED
    BY <1>10, <1>11, Induction
<1>13. has(before[last], larger(start(last), off), start(last) <= size)
  BY <1>4, <1>12
<1>14. has(before[last + 1], smaller(start(last) + IO_BLOCK_SIZE, off + n),
           smaller(start(last) + IO_BLOCK_SIZE, off + n) <= size)
  BY <1>4, <1>8, <1>13
<1>15. smaller(start(last) + IO_BLOCK_SIZE, off + n) = off + n
  <2>1. end < start(last) + IO_BLOCK_SIZE
    BY <1>2, <1>4, Quotient, BlockSize DEF start
  <2>2. start(last) \in Nat
    BY Start
  <2>. QED
    BY <1>2, <2>1, <2>2, BlockSize DEF smaller
<1>. QED
  BY <1>6, <1>14, <1>15 DEF has

\* Every read returns the bytes of the file at its offset, all that it asks for up to the
\* end of the file.
THEOREM ReadsAreExact == Spec => []ReadsReturnContent
<1>1. FileInv => ReadsReturnContent
  <2>. SUFFICES ASSUME good(size, blk, disk, others, syncing, todo),
                       NEW off \in 0 .. MaxSize - 1, NEW n \in 1 .. MaxSize
                PROVE  IsPrefix(pread(content, n, off), lfs_read(n, off))
    BY FileInvIsGood DEF ReadsReturnContent
  <2>1. /\ size \in Nat /\ MaxSize \in Nat /\ off \in Nat /\ n \in Nat \ {0}
        /\ content \in Seq(Bytes) /\ Len(content) = size
    BY GoodTypes, ContentType
  <2>2. PICK h \in Nat : h = smaller(off + n, size) /\ h <= size /\ h <= off + n
    BY <2>1 DEF smaller
  <2>3. PICK p : p = SubSeq(content, off + 1, h)
    OBVIOUS
  <2>4. pread(content, n, off) = p
    BY <2>1, <2>2, <2>3 DEF pread
  <2>5. CASE off < size
    <3>1. off < h
      BY <2>1, <2>2, <2>5 DEF smaller
    <3>2. PICK c \in Seq(Bytes) : c = content
      BY <2>1
    <3>3. is_part(SubSeq(c, off + 1, h), c, off, h) /\ SubSeq(c, off + 1, h) \in Seq(Bytes)
      BY <2>1, <2>2, <3>1, <3>2, Part
    <3>4. Len(p) = h - off /\ p \in Seq(Bytes) /\ \A j \in 1 .. h - off : p[j] = content[off + j]
      BY <2>3, <3>2, <3>3 DEF is_part
    <3>5. PICK r : r = lfs_read(n, off)
      OBVIOUS
    <3>6. has_read(r, off, off + n)
      BY <2>1, <2>5, <3>5, ReadChunks
    <3>7. r \in Seq(Bytes) /\ Len(r) \in Nat
      BY <3>6 DEF has_read
    <3>8. ASSUME NEW j \in 1 .. h - off PROVE j <= Len(r) /\ p[j] = r[j]
      <4>1. PICK i \in 1 .. size : i = off + j
        BY <2>1, <2>2
      <4>2. off < i /\ i <= off + n /\ i - off = j
        BY <2>1, <2>2, <4>1
      <4>3. j <= Len(r) /\ r[j] = content[i]
        BY <3>6, <4>2 DEF has_read
      <4>. QED
        BY <3>4, <4>1, <4>3
    <3>9. h - off \in 1 .. h - off
      BY <2>1, <3>1
    <3>10. Len(p) <= Len(r)
      BY <3>4, <3>8, <3>9
    <3>11. SubSeq(p, 1, Len(p)) = SubSeq(r, 1, Len(p))
      BY <3>4, <3>7, <3>8, <3>10
    <3>. QED
      BY <2>4, <3>5, <3>10, <3>11 DEF IsPrefix
  <2>6. CASE ~ (off < size)
    <3>1. lfs_read(n, off) = <<>>
      BY <2>1, <2>6 DEF lfs_read
    <3>2. p = <<>>
      BY <2>1, <2>2, <2>3, <2>6
    <3>. QED
      BY <2>4, <3>1, <3>2 DEF IsPrefix
  <2>. QED
    BY <2>5, <2>6
<1>. QED
  BY <1>1, FileInvariant, PTL

-----------------------------------------------------------------------------
(* The abstract file.  LazyFS is the file of PosixFile as long as every    *)
(* block finds a page: a block without one is written below at once, which *)
(* no POSIX program could tell before a crash, but PosixFile leaves the    *)
(* durable content alone in a write.                                       *)

PageForEveryBlock == Cardinality(Blocks) <= CACHE_NR_PAGES - MaxOthers

LEMMA PwriteNone ==
    ASSUME NEW dk \in Seq(Bytes), NEW buf \in Seq(Bytes), buf # <<>>, NEW off \in Nat,
           NEW S, S = {}
    PROVE  pwrite_blocks(S, dk, buf, off) = dk
<1>1. PICK n \in Nat \ {0} : n = Len(buf)
  OBVIOUS
<1>2. PICK last \in Nat : last = (off + n - 1) \div IO_BLOCK_SIZE
  <2>1. PICK m \in Nat : m = off + n - 1
    OBVIOUS
  <2>2. m \div IO_BLOCK_SIZE \in Nat
    BY BlockSize, Division
  <2>. QED
    BY <2>1, <2>2
<1>3. all_covered(S, off, Len(buf))
  BY DEF all_covered
<1>4. PICK before :
         /\ before[0] = dk
         /\ \A b \in Nat : before[b + 1] = IF b \in S THEN pwrite_block(before[b], b, buf, off)
                                          ELSE before[b]
         /\ pwrite_blocks(S, dk, buf, off) =
               before[(off + Len(buf) - 1) \div IO_BLOCK_SIZE + 1]
  BY <1>3, PwriteBefore
<1>5. \A b \in Nat : before[b + 1] = before[b]
  BY <1>4
<1>. DEFINE I == {b \in Nat : before[b] = dk}
<1>6. Nat \subseteq I
  <2>1. 0 \in I
    BY <1>4
  <2>2. ASSUME NEW b \in Nat, b \in I PROVE b + 1 \in I
    <3>1. before[b] = dk /\ before[b + 1] = before[b] /\ b + 1 \in Nat
      BY <1>5, <2>2
    <3>. QED
      BY <3>1
  <2>. HIDE DEF I
  <2>. QED
    BY <2>1, <2>2, Induction
<1>7. before[last + 1] = dk
  BY <1>6
<1>. QED
  BY <1>1, <1>2, <1>4, <1>7

\* With a page for every block, the block loop writes nothing below.
LEMMA NothingBelow ==
    ASSUME PageForEveryBlock, others \in 0 .. MaxOthers,
           NEW bl, NEW dk \in Seq(Bytes), NEW buf \in Seq(Bytes), buf # <<>>,
           NEW off \in Nat, NEW before, off + Len(buf) <= MaxSize
    PROVE  write_blocks(bl, dk, buf, off, before).disk = dk
<1>. DEFINE range == (off \div IO_BLOCK_SIZE) .. ((off + Len(buf) - 1) \div IO_BLOCK_SIZE)
            missing == {b \in range : bl[b] = NotCached}
            free == free_pages(bl)
            F == {b \in missing : Cardinality({c \in missing : c < b}) >= free}
<1>1. write_blocks(bl, dk, buf, off, before).disk = pwrite_blocks(F, dk, buf, off)
  BY DEF write_blocks
<1>2. PICK n \in Nat \ {0} : n = Len(buf)
  OBVIOUS
<1>3. \A b \in range : b \in Blocks /\ b \in Int
  <2>. TAKE b \in range
  <2>1. b \in Int
    OBVIOUS
  <2>2. covers(b, off, n)
    BY <1>2 DEF covers
  <2>. QED
    BY <1>2, <2>1, <2>2, CoveredInFile
<1>4. missing \subseteq Blocks /\ \A b \in missing : b \in Int /\ bl[b] = NotCached
  BY <1>3
<1>5. IsFiniteSet(Blocks)
  <2>1. (MaxSize - 1) \div IO_BLOCK_SIZE \in Int
    BY LazyFileAssumption
  <2>. QED
    BY <2>1, FS_Interval DEF Blocks
<1>6. PICK C : C = cached_blocks(bl)
  OBVIOUS
<1>7. C \subseteq Blocks /\ \A b \in C : bl[b] # NotCached
  BY <1>6 DEF cached_blocks
<1>8. free = CACHE_NR_PAGES - others - Cardinality(C)
  BY <1>6 DEF free_pages
<1>. HIDE DEF range, missing, free
<1>9. /\ IsFiniteSet(C) /\ IsFiniteSet(missing)
      /\ Cardinality(C) \in Nat /\ Cardinality(missing) \in Nat /\ Cardinality(Blocks) \in Nat
  BY <1>4, <1>5, <1>7, FS_Subset, FS_CardinalityType
<1>10. Cardinality(C) + Cardinality(missing) <= Cardinality(Blocks)
  <2>1. C \cap missing = {} /\ C \cup missing \subseteq Blocks
    BY <1>4, <1>7
  <2>2. Cardinality(C \cup missing) = Cardinality(C) + Cardinality(missing) - Cardinality(C \cap missing)
    BY <1>9, FS_Union
  <2>3. Cardinality(C \cap missing) = 0
    BY <2>1, FS_EmptySet
  <2>4. Cardinality(C \cup missing) <= Cardinality(Blocks)
    BY <1>5, <2>1, FS_Subset
  <2>. QED
    BY <1>9, <2>2, <2>3, <2>4
<1>11. Cardinality(missing) <= free /\ free \in Int
  <2>1. PICK c \in Nat : c = Cardinality(C)
    BY <1>9
  <2>2. PICK m \in Nat : m = Cardinality(missing)
    BY <1>9
  <2>3. PICK all \in Nat : all = Cardinality(Blocks)
    BY <1>9
  <2>4. PICK o \in Nat : o = others /\ o <= MaxOthers /\ MaxOthers \in Nat /\ CACHE_NR_PAGES \in Nat
    BY LazyFileAssumption
  <2>5. all <= CACHE_NR_PAGES - MaxOthers
    BY <2>3 DEF PageForEveryBlock
  <2>6. c + m <= all
    BY <1>10, <2>1, <2>2, <2>3
  <2>7. free = CACHE_NR_PAGES - o - c
    BY <1>8, <2>1, <2>4
  <2>. QED
    BY <2>2, <2>4, <2>5, <2>6, <2>7
<1>12. ASSUME NEW b \in missing
       PROVE  ~ (Cardinality({c \in missing : c < b}) >= free)
  <2>1. PICK L : L = {c \in missing : c < b}
    OBVIOUS
  <2>2. L \subseteq missing /\ L # missing
    BY <1>4, <2>1
  <2>3. Cardinality(L) \in Nat /\ Cardinality(L) <= Cardinality(missing)
        /\ Cardinality(L) # Cardinality(missing)
    <3>1. /\ IsFiniteSet(L) /\ Cardinality(L) <= Cardinality(missing)
          /\ (Cardinality(missing) = Cardinality(L) => missing = L)
      BY <1>9, <2>2, FS_Subset
    <3>. QED
      BY <2>2, <3>1, FS_CardinalityType
  <2>. QED
    BY <1>9, <1>11, <2>1, <2>3
<1>13. F = {}
  BY <1>12
<1>. QED
  BY <1>1, <1>13, PwriteNone

LEMMA WriteLeavesDisk ==
    ASSUME PageForEveryBlock, good(size, blk, disk, others, syncing, todo),
           NEW off \in Nat, NEW buf \in Seq(Bytes), buf # <<>>, off + Len(buf) <= MaxSize
    PROVE  lfs_write(off, buf).disk = disk
<1>. DEFINE V == IF size < off THEN write_blocks(blk, disk, zeros(off - size), size, size)
                 ELSE [blk |-> blk, disk |-> disk]
<1>1. /\ size \in Nat /\ disk \in Seq(Bytes) /\ others \in 0 .. MaxOthers /\ MaxSize \in Nat
  BY GoodTypes
<1>2. PICK n \in Nat \ {0} : n = Len(buf)
  OBVIOUS
<1>3. V.disk = disk
  <2>1. CASE size < off
    <3>1. PICK m \in Nat \ {0} : m = off - size
      BY <1>1, <2>1
    <3>2. PICK z \in Seq(Bytes) : z = zeros(m) /\ Len(z) = m /\ z # <<>>
      BY Zeros
    <3>3. size + Len(z) <= MaxSize
      BY <1>1, <1>2, <3>1, <3>2
    <3>4. PICK s \in Nat : s = size
      BY <1>1
    <3>5. write_blocks(blk, disk, z, s, s).disk = disk
      BY <1>1, <3>2, <3>3, <3>4, NothingBelow
    <3>. QED
      BY <2>1, <3>1, <3>2, <3>4, <3>5
  <2>2. CASE ~ (size < off)
    BY <2>2
  <2>. QED
    BY <2>1, <2>2
<1>4. lfs_write(off, buf) = write_blocks(V.blk, V.disk, buf, off, size)
  BY DEF lfs_write
<1>. HIDE DEF V
<1>5. PICK bl : bl = V.blk
  OBVIOUS
<1>6. write_blocks(bl, disk, buf, off, size).disk = disk
  BY <1>1, NothingBelow
<1>. QED
  BY <1>3, <1>4, <1>5, <1>6

LEMMA Contents ==
    /\ content = [i \in 1 .. size |-> byte_of(blk, disk, i)]
    /\ content' = [i \in 1 .. size' |-> byte_of(blk', disk', i)]
BY ContentOf DEF content

\* The operators on bytes are those of PosixFile.
LEMMA PosixBytes ==
    /\ \A s, n : Posix!ftruncate(s, n) = ftruncate(s, n)
    /\ \A s, buf, off : Posix!pwrite(s, buf, off) = pwrite(s, buf, off)
    /\ \A a, b : Posix!larger(a, b) = larger(a, b) /\ Posix!smaller(a, b) = smaller(a, b)
BY DEF Posix!ftruncate, Posix!pwrite, Posix!larger, Posix!smaller, Posix!NUL,
       ftruncate, pwrite, larger, smaller, NUL

\* A file that has been written at off has the bytes it had, zeros after its old end, and
\* what the write says.
LEMMA WriteContent ==
    ASSUME PageForEveryBlock, good(size, blk, disk, others, syncing, todo), ~ syncing,
           NEW off \in Nat, NEW buf \in Seq(Bytes), buf # <<>>, off + Len(buf) <= MaxSize,
           blk' = lfs_write(off, buf).blk, disk' = lfs_write(off, buf).disk,
           size' = larger(size, off + Len(buf))
    PROVE  /\ disk' = disk
           /\ size' \in Nat
           /\ Len(content') = size'
           /\ content' = [i \in 1 .. size' |-> content'[i]]
           /\ \A i \in 1 .. size' :
                 content'[i] = IF of_write(i, off, Len(buf)) THEN buf[i - off]
                               ELSE ftruncate(content, size')[i]
<1>1. size \in Nat /\ size \in 0 .. MaxSize /\ stored(blk, disk, size)
  BY GoodTypes DEF good
<1>2. disk' = disk
  BY WriteLeavesDisk
<1>3. PICK n \in Nat \ {0} : n = Len(buf)
  OBVIOUS
<1>4. PICK end \in Nat : end = size'
  BY <1>1, <1>3 DEF larger
<1>5. PICK W : W = lfs_write(off, buf)
  OBVIOUS
<1>6. is_file_with(W, buf, off)
  BY <1>1, <1>5, LfsWrite
<1>7. \A i \in 1 .. end :
         byte_of(blk', disk', i) = IF of_write(i, off, n) THEN buf[i - off]
                                   ELSE IF i <= size THEN byte_of(blk, disk, i) ELSE NUL
  BY <1>3, <1>4, <1>5, <1>6 DEF is_file_with
<1>8. PICK c : c = content'
  OBVIOUS
<1>9. c = [i \in 1 .. end |-> byte_of(blk', disk', i)]
  BY <1>4, <1>8, Contents
<1>10. \A i \in 1 .. end :
          ftruncate(content, end)[i] = IF i <= size THEN byte_of(blk, disk, i) ELSE NUL
  <2>. TAKE i \in 1 .. end
  <2>1. ftruncate(content, end)[i] = IF i <= size THEN content[i] ELSE NUL
    BY ContentType DEF ftruncate
  <2>2. i <= size => i \in 1 .. size
    BY <1>1
  <2>. QED
    BY <2>1, <2>2, ContentType
<1>11. Len(c) = end /\ c = [i \in 1 .. end |-> c[i]]
  BY <1>9
<1>12. \A i \in 1 .. end : c[i] = IF of_write(i, off, n) THEN buf[i - off]
                                  ELSE ftruncate(content, end)[i]
  BY <1>7, <1>9, <1>10
<1>. QED
  BY <1>2, <1>3, <1>4, <1>8, <1>11, <1>12

LEMMA WriteIsPosix ==
    ASSUME PageForEveryBlock, good(size, blk, disk, others, syncing, todo),
           NEW off \in 0 .. MaxSize, NEW n \in 1 .. smaller(MaxWrite, MaxSize - off),
           NEW buf \in [1 .. n -> Bytes], Write(off, buf)
    PROVE  Posix!Write(off, buf)
<1>1. /\ buf \in Seq(Bytes) /\ Len(buf) = n /\ buf # <<>> /\ off \in Nat
      /\ n \in Nat \ {0} /\ off + Len(buf) <= MaxSize
  BY Requests, GoodTypes
<1>2. /\ ~ syncing /\ syncing' = syncing /\ size' = larger(size, off + Len(buf))
      /\ blk' = lfs_write(off, buf).blk /\ disk' = lfs_write(off, buf).disk
  BY DEF Write
<1>3. /\ disk' = disk /\ size' \in Nat
      /\ content' = [i \in 1 .. size' |-> content'[i]]
      /\ \A i \in 1 .. size' :
            content'[i] = IF of_write(i, off, Len(buf)) THEN buf[i - off]
                          ELSE ftruncate(content, size')[i]
  BY <1>1, <1>2, WriteContent
<1>4. PICK end \in Nat : end = size'
  BY <1>3
<1>5. PICK new : new = content'
  OBVIOUS
<1>6. Len(content) = size
  BY ContentType
<1>7. pwrite(content, buf, off) =
         [i \in 1 .. end |-> IF off < i /\ i <= off + Len(buf) THEN buf[i - off]
                             ELSE IF i <= Len(content) THEN content[i] ELSE NUL]
  BY <1>1, <1>2, <1>4, <1>6 DEF pwrite
<1>8. ASSUME NEW i \in 1 .. end
      PROVE  new[i] = IF off < i /\ i <= off + Len(buf) THEN buf[i - off]
                      ELSE IF i <= Len(content) THEN content[i] ELSE NUL
  <2>1. ftruncate(content, end)[i] = IF i <= Len(content) THEN content[i] ELSE NUL
    BY DEF ftruncate
  <2>. QED
    BY <1>3, <1>4, <1>5, <2>1 DEF of_write
<1>9. new = [i \in 1 .. end |-> new[i]]
  BY <1>3, <1>4, <1>5
<1>10. new = pwrite(content, buf, off)
  BY <1>7, <1>8, <1>9, Zenon
<1>. QED
  BY <1>2, <1>3, <1>5, <1>10, PosixBytes DEF Posix!Write

LEMMA TruncateIsPosix ==
    ASSUME PageForEveryBlock, good(size, blk, disk, others, syncing, todo),
           NEW n \in 0 .. MaxSize, TruncateGrow(n) \/ TruncateShrink(n)
    PROVE  Posix!Truncate(n)
<1>1. size \in Nat /\ n \in Nat
  BY GoodTypes
<1>2. ~ syncing /\ syncing' = syncing /\ disk' = disk /\ content' = ftruncate(content, n)
  <2>1. CASE TruncateGrow(n)
    <3>1. PICK len \in Nat \ {0} : len = n - size
      BY <1>1, <2>1 DEF TruncateGrow
    <3>2. PICK buf \in Seq(Bytes) : buf = zeros(len) /\ Len(buf) = len /\ buf # <<>>
                                    /\ \A i \in 1 .. len : buf[i] = NUL
      BY Zeros
    <3>3. PICK off \in Nat : off = size
      BY <1>1
    <3>4. off + Len(buf) = n /\ n <= MaxSize /\ larger(size, off + Len(buf)) = n
      BY <1>1, <3>1, <3>2, <3>3, GoodTypes DEF larger
    <3>5. /\ ~ syncing /\ syncing' = syncing /\ size' = n
          /\ blk' = lfs_write(off, buf).blk /\ disk' = lfs_write(off, buf).disk
      BY <2>1, <3>1, <3>2, <3>3 DEF TruncateGrow
    <3>6. /\ disk' = disk
          /\ content' = [i \in 1 .. n |-> content'[i]]
          /\ \A i \in 1 .. n : content'[i] = IF of_write(i, off, len) THEN buf[i - off]
                                             ELSE ftruncate(content, n)[i]
      BY <3>2, <3>4, <3>5, WriteContent
    <3>7. ASSUME NEW i \in 1 .. n, of_write(i, off, len)
          PROVE  buf[i - off] = NUL /\ ftruncate(content, n)[i] = NUL
      <4>1. i - off \in 1 .. len /\ ~ (i <= size)
        BY <1>1, <3>3, <3>7 DEF of_write
      <4>. QED
        BY <3>2, <4>1, ContentType DEF ftruncate
    <3>8. \A i \in 1 .. n : content'[i] = ftruncate(content, n)[i]
      BY <3>6, <3>7
    <3>9. ftruncate(content, n) = [i \in 1 .. n |-> ftruncate(content, n)[i]]
      BY DEF ftruncate
    <3>. QED
      BY <3>5, <3>6, <3>8, <3>9
  <2>2. CASE TruncateShrink(n)
    <3>1. /\ ~ syncing /\ syncing' = syncing /\ disk' = disk /\ blk' = blk /\ size' = n /\ n < size
      BY <2>2 DEF TruncateShrink
    <3>2. content' = [i \in 1 .. n |-> byte_of(blk, disk, i)]
      BY <3>1, Contents
    <3>3. \A i \in 1 .. n : i <= size /\ i \in 1 .. size
      BY <1>1, <3>1
    <3>4. \A i \in 1 .. n : IF i <= Len(content) THEN content[i] = byte_of(blk, disk, i) ELSE FALSE
      BY <3>3, ContentType
    <3>. QED
      BY <3>1, <3>2, <3>4 DEF ftruncate
  <2>. QED
    BY <2>1, <2>2
<1>. QED
  BY <1>2, PosixBytes DEF Posix!Truncate

LEMMA SyncStartIsPosix ==
    ASSUME good(size, blk, disk, others, syncing, todo), SyncStart
    PROVE  Posix!FsyncStart
<1>. DEFINE D == dirty_blocks
<1>1. /\ size' = size /\ disk' = disk /\ syncing' = TRUE
      /\ blk' = [b \in Blocks |-> IF b \in D THEN [blk[b] EXCEPT !.dirty = FALSE] ELSE blk[b]]
  BY DEF SyncStart
<1>2. \A b : b \in D <=> b \in Blocks /\ blk[b] # NotCached /\ blk[b].dirty
  BY DEF dirty_blocks
<1>3. \A b \in Blocks : blk'[b] = IF b \in D THEN [blk[b] EXCEPT !.dirty = FALSE] ELSE blk[b]
  BY <1>1
<1>. HIDE DEF D
<1>4. ASSUME NEW i \in 1 .. size PROVE byte_of(blk', disk, i) = byte_of(blk, disk, i)
  <2>1. PICK b \in Blocks : b = blk_of(i)
    <3>1. i \in Nat \ {0} /\ i <= MaxSize
      BY GoodTypes
    <3>. QED
      BY <3>1, Place
  <2>2. CASE b \in D
    <3>1. blk[b] \in Cached /\ blk[b] # NotCached
      BY <1>2, <2>2, GoodTypes
    <3>2. blk'[b] = [blk[b] EXCEPT !.dirty = FALSE]
      BY <1>3, <2>2
    <3>3. blk'[b] \in Cached /\ blk'[b].data = blk[b].data
      BY <3>1, <3>2 DEF Cached
    <3>4. blk'[b] # NotCached
      BY <3>3, NotCachedIsNot
    <3>. QED
      BY <2>1, <3>1, <3>3, <3>4 DEF byte_of
  <2>3. CASE b \notin D
    BY <1>3, <2>1, <2>3 DEF byte_of
  <2>. QED
    BY <2>2, <2>3
<1>5. content' = content
  BY <1>1, <1>4, Contents
<1>. QED
  BY <1>1, <1>5 DEF Posix!FsyncStart

LEMMA SyncBlockIsPosix ==
    ASSUME good(size, blk, disk, others, syncing, todo), SyncBlock
    PROVE  Posix!FsyncPart
<1>1. PICK b, w : is_sync(b, w)
  BY SyncBlockWrites
<1>2. size' = size /\ blk' = blk /\ syncing' = syncing /\ syncing
  <2>1. b \in todo /\ size' = size /\ blk' = blk /\ syncing' = syncing
    BY <1>1 DEF is_sync
  <2>. QED
    BY <2>1, GoodTypes
<1>3. is_part_of_sync(b)
  BY <1>1, SyncBlockIsPart
<1>4. content' = content
  BY <1>2, <1>3, Contents DEF is_part_of_sync
<1>5. /\ Len(disk') \in Nat /\ Len(disk') >= Len(disk) /\ Len(disk) \in Nat /\ size \in Nat
      /\ Len(content) = size
  BY <1>3, GoodTypes, ContentType DEF is_part_of_sync
<1>6. PICK k \in 0 .. smaller(Len(disk'), size) :
         \A i \in 1 .. smaller(Len(disk'), size) :
            IF i <= k THEN disk'[i] = byte_of(blk, disk, i)
            ELSE i <= Len(disk) /\ disk'[i] = disk[i]
  BY <1>3 DEF is_part_of_sync
<1>7. ASSUME NEW i \in 1 .. smaller(Len(disk'), size)
      PROVE  IF i <= k THEN disk'[i] = content[i] ELSE i <= Len(disk) /\ disk'[i] = disk[i]
  <2>1. i \in 1 .. size
    BY <1>5 DEF smaller
  <2>2. content[i] = byte_of(blk, disk, i)
    BY <2>1, ContentType
  <2>. QED
    BY <1>6, <2>2
<1>8. \E j \in 0 .. smaller(Len(disk'), Len(content)) :
         \A i \in 1 .. smaller(Len(disk'), Len(content)) :
            IF i <= j THEN disk'[i] = content[i] ELSE i <= Len(disk) /\ disk'[i] = disk[i]
  BY <1>5, <1>7
<1>. QED
  BY <1>2, <1>4, <1>5, <1>8, PosixBytes DEF Posix!FsyncPart

LEMMA SyncEndIsPosix ==
    ASSUME good(size, blk, disk, others, syncing, todo), SyncEnd
    PROVE  Posix!FsyncEnd
<1>1. /\ disk' \in Seq(Bytes) /\ Len(disk') = size
      /\ \A i \in 1 .. size : disk'[i] = byte_of(blk, disk, i)
      /\ \A i \in 1 .. size : byte_of(blk, disk', i) = byte_of(blk, disk, i)
      /\ size' = size /\ blk' = blk /\ syncing' = FALSE
  BY SyncEndIsExact
<1>2. syncing
  BY DEF SyncEnd
<1>3. disk' = [i \in 1 .. size |-> disk'[i]]
  BY <1>1
<1>4. content' = content /\ disk' = content
  BY <1>1, <1>3, Contents
<1>. QED
  BY <1>1, <1>2, <1>4 DEF Posix!FsyncEnd

LEMMA LoseCacheIsPosix ==
    ASSUME good(size, blk, disk, others, syncing, todo), LoseCache
    PROVE  Posix!Lose
<1>1. /\ size' = Len(disk) /\ disk' = disk /\ syncing' = FALSE
      /\ blk' = [b \in Blocks |-> NotCached]
  BY DEF LoseCache
<1>2. ASSUME NEW i \in 1 .. Len(disk) PROVE byte_of(blk', disk, i) = disk[i]
  <2>1. i \in Nat \ {0} /\ i <= MaxSize /\ i <= Len(disk)
    BY GoodTypes
  <2>2. blk'[blk_of(i)] = NotCached
    BY <1>1, <2>1, Place
  <2>. QED
    BY <2>1, <2>2 DEF byte_of, byte_below
<1>3. disk = [i \in 1 .. Len(disk) |-> disk[i]]
  BY GoodTypes
<1>4. content' = disk
  BY <1>1, <1>2, <1>3, Contents
<1>. QED
  BY <1>1, <1>4 DEF Posix!Lose

\* What changes nothing of the file changes neither of its contents.
LEMMA OthersArePosix ==
    ASSUME OtherFiles \/ UNCHANGED vars
    PROVE  UNCHANGED Posix!vars
<1>1. size' = size /\ blk' = blk /\ disk' = disk /\ syncing' = syncing
  BY DEF OtherFiles, vars
<1>2. content' = content
  BY <1>1, Contents
<1>. QED
  BY <1>1, <1>2 DEF Posix!vars

\* With a page for every block, each call is the POSIX call of its name with its own
\* arguments: a write puts its bytes where it was told to and changes nothing beside
\* them, a gap and a regrown file read as zeros, and only an fsync touches the disk.
THEOREM CallsImplementPosix ==
    ASSUME PageForEveryBlock
    PROVE  Spec => CallsArePosix
<1>. DEFINE A ==
        /\ \A off \in 0 .. MaxSize : \A n \in 1 .. smaller(MaxWrite, MaxSize - off) :
              \A buf \in [1 .. n -> Bytes] : Write(off, buf) => Posix!Write(off, buf)
        /\ \A n \in 0 .. MaxSize : TruncateGrow(n) \/ TruncateShrink(n) => Posix!Truncate(n)
        /\ SyncStart => Posix!FsyncStart
        /\ SyncBlock => Posix!FsyncPart
        /\ SyncEnd => Posix!FsyncEnd
        /\ ClearCache \/ Crash => Posix!Lose
        /\ OtherFiles => UNCHANGED Posix!vars
<1>1. FileInv => A
  <2>. SUFFICES ASSUME good(size, blk, disk, others, syncing, todo) PROVE A
    BY FileInvIsGood
  <2>1. ASSUME NEW off \in 0 .. MaxSize, NEW n \in 1 .. smaller(MaxWrite, MaxSize - off),
               NEW buf \in [1 .. n -> Bytes], Write(off, buf)
        PROVE  Posix!Write(off, buf)
    BY <2>1, WriteIsPosix
  <2>2. ASSUME NEW n \in 0 .. MaxSize, TruncateGrow(n) \/ TruncateShrink(n)
        PROVE  Posix!Truncate(n)
    BY <2>2, TruncateIsPosix
  <2>3. SyncStart => Posix!FsyncStart
    BY SyncStartIsPosix
  <2>4. SyncBlock => Posix!FsyncPart
    BY SyncBlockIsPosix
  <2>5. SyncEnd => Posix!FsyncEnd
    BY SyncEndIsPosix
  <2>6. ClearCache \/ Crash => Posix!Lose
    BY LoseCacheIsPosix DEF ClearCache, Crash
  <2>7. OtherFiles => UNCHANGED Posix!vars
    BY OthersArePosix
  <2>. QED
    BY <2>1, <2>2, <2>3, <2>4, <2>5, <2>6, <2>7
<1>2. Spec => [][A]_vars
  BY <1>1, FileInvariant, PTL DEF Spec
<1>. QED
  BY <1>2 DEF CallsArePosix

\* With a page for every block, the file behaves as POSIX says, with fsync as the only
\* way to the disk: a crash or a cleared cache leaves what the syncs made durable, and a
\* sync that is interrupted leaves part of the content before the rest of what was there.
THEOREM FileImplementsPosix ==
    ASSUME PageForEveryBlock
    PROVE  Spec => PosixSpec
<1>1. Init => Posix!Init
  <2>. SUFFICES ASSUME Init PROVE Posix!Init
    OBVIOUS
  <2>1. size = 0 /\ disk = <<>> /\ syncing = FALSE
    BY DEF Init
  <2>2. content = <<>>
    BY <2>1, Contents
  <2>. QED
    BY <2>1, <2>2 DEF Posix!Init
<1>2. FileInv /\ [Next]_vars => [Posix!Next]_<<content, disk, syncing>>
  <2>. SUFFICES ASSUME good(size, blk, disk, others, syncing, todo), [Next]_vars
                PROVE  [Posix!Next]_<<content, disk, syncing>>
    BY FileInvIsGood
  <2>1. ASSUME NEW off \in 0 .. MaxSize, NEW n \in 1 .. smaller(MaxWrite, MaxSize - off),
               NEW buf \in [1 .. n -> Bytes], Write(off, buf)
        PROVE  Posix!Next
    BY <2>1, WriteIsPosix DEF Posix!Next, Posix!smaller, smaller
  <2>2. ASSUME NEW n \in 0 .. MaxSize, TruncateGrow(n) \/ TruncateShrink(n)
        PROVE  Posix!Next
    BY <2>2, TruncateIsPosix DEF Posix!Next
  <2>3. CASE SyncStart
    BY <2>3, SyncStartIsPosix DEF Posix!Next
  <2>4. CASE SyncBlock
    BY <2>4, SyncBlockIsPosix DEF Posix!Next
  <2>5. CASE SyncEnd
    BY <2>5, SyncEndIsPosix DEF Posix!Next
  <2>6. CASE ClearCache \/ Crash
    BY <2>6, LoseCacheIsPosix DEF ClearCache, Crash, Posix!Next
  <2>7. CASE OtherFiles \/ UNCHANGED vars
    BY <2>7, OthersArePosix DEF Posix!vars
  <2>. QED
    BY <2>1, <2>2, <2>3, <2>4, <2>5, <2>6, <2>7 DEF Next
<1>. QED
  BY <1>1, <1>2, FileInvariant, PTL DEF Spec, PosixSpec, Posix!Spec, Posix!vars

=============================================================================
