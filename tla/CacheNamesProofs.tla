-------------------------- MODULE CacheNamesProofs --------------------------
(***************************************************************************)
(* Proofs about CacheNames for any number of names, inode numbers and      *)
(* threads.  Calls may overlap as they like and links may be renamed over  *)
(* links (the disturbances race and relink); what is assumed is that the   *)
(* file system below carries out unlink and rename, and that no clear      *)
(* comes between the kernel's lookup of a name and the call it is for.     *)
(***************************************************************************)
EXTENDS CacheNames, FiniteSetTheorems, TLAPS

\* The records of items and calls as they begin.
LEMMA StartTypes ==
    /\ NoItem \in Item /\ NewItem \in Item /\ NewItem.nlinks = 1
    /\ Empty \in Content /\ NoCall \in Call /\ AnyPath \in Paths
    /\ 0 \in 0 .. MaxSize
<1>1. 0 \in 0 .. MaxSize /\ Zero \in Tags /\ AnyPath \in Paths
  BY CacheNamesAssumption DEF AnyPath
<1>2. NoItem \in Item /\ NewItem \in Item /\ NewItem.nlinks = 1
  BY <1>1 DEF NoItem, NewItem, Item
<1>3. NoCall \in Call
  BY <1>1 DEF NoCall, Call, Ops
<1>. QED
  BY <1>1, <1>2, <1>3 DEF Empty, Content

\* What a thread's call is, and that a name that leads to a file counts as a link.
LEMMA CallTypes ==
    ASSUME TypeOK, NEW t \in Threads
    PROVE  LET c == call[t]
           IN  /\ c \in Call
               /\ c.op \in Ops /\ c.from \in Paths /\ c.to \in Paths /\ c.at \in Paths
               /\ c.ino \in Inodes \cup {NoInode}
               /\ c.size \in 0 .. MaxSize /\ c.before \in 0 .. MaxSize /\ c.len \in 0 .. MaxSize
               /\ c.nlinks \in Nat /\ c.tag \in Tags
               /\ c.pc \in {"idle", "getattr", "new", "fill", "ready", "name", "size", "put",
                            "store", "sync", "made"}
BY DEF TypeOK, Call

LEMMA NamedFileHasLink ==
    ASSUME TypeOK, IsFiniteSet(Paths), NEW p \in Paths
    PROVE  links(dir[p]) \in Nat /\ links(dir[p]) >= 1
<1>. DEFINE S == {q \in Paths : dir[q] = dir[p]}
<1>1. IsFiniteSet(S)
  BY FS_Subset
<1>2. S # {}
  OBVIOUS
<1>3. Cardinality(S) \in Nat /\ Cardinality(S) # 0
  BY <1>1, <1>2, FS_CardinalityType, FS_EmptySet
<1>. QED
  BY <1>3 DEF links

\* One call changes names at a time; none does when names_free.
LEMMA NamesFree ==
    ASSUME names_free, NEW t \in Threads
    PROVE  /\ ~ changes_names(t)
           /\ (\A u \in Threads : keeps_name(u)) => call[t].pc # "name"
BY DEF names_free, changes_names, keeps_name, NameOps

\* The name of a link under way is the only one that the kernel does not know yet.
LEMMA NamesAre ==
    ASSUME NEW p \in Paths
    PROVE  /\ names[p] = IF \E t \in Threads : call[t].pc = "name" /\ call[t].to = p
                         THEN NoInode ELSE dir[p]
           /\ names'[p] = IF \E t \in Threads : call'[t].pc = "name" /\ call'[t].to = p
                          THEN NoInode ELSE dir'[p]
BY DEF names

LEMMA InitInv ==
    ASSUME Init
    PROVE  NamesInv
<1>1. TypeOK
  BY StartTypes DEF Init, TypeOK
<1>2. \A t \in Threads : call[t] = NoCall
  BY DEF Init
<1>3. \A t \in Threads : keeps_name(t) /\ finds_name(t) /\ ~ busy(t) /\ ~ changes_names(t)
  BY <1>2 DEF keeps_name, finds_name, busy, changes_names, NoCall, NameOps
<1>4. OneChangesNames /\ NewNameUnused
  BY <1>3 DEF OneChangesNames, NewNameUnused
<1>5. MappedToOwnInode
  BY DEF Init, MappedToOwnInode
<1>. QED
  BY <1>1, <1>3, <1>4, <1>5 DEF NamesInv

-----------------------------------------------------------------------------

\* A call that is not touched keeps what it has while its names stay and, for a call
\* that changes names, so does the inode that it found while its item stays.
LEMMA OtherCall ==
    ASSUME NEW t \in Threads, keeps_name(t), finds_name(t), call'[t] = call[t],
           busy(t) => dir'[call[t].from] = dir[call[t].from],
           changes_names(t) => /\ dir'[call[t].to] = dir[call[t].to]
                               /\ mapping[call[t].from] # NoInode =>
                                     mapping'[call[t].from] = mapping[call[t].from]
                               /\ \A i \in Inodes : cached(i) => cached(i)',
           mapping[call[t].from] \in Inodes \cup {NoInode}, NoInode \notin Inodes
    PROVE  keeps_name(t)' /\ finds_name(t)'
<1>. DEFINE c == call[t]
            i == mapping[c.from]
<1>1. keeps_name(t)'
  BY DEF keeps_name, busy, changes_names, NameOps
<1>2. c.op \in NameOps => changes_names(t)
  BY DEF changes_names
<1>3. c.op = "unlink" => c.op \in NameOps
  BY DEF NameOps
<1>4. c.op \in NameOps /\ i # NoInode => mapping'[c.from] = i
  BY <1>2
<1>5. c.op \in NameOps /\ (c.pc # "getattr" \/ c.at # c.from) => i # NoInode
  BY DEF finds_name
<1>6. c.op = "unlink" /\ c.pc \in {"new", "fill"} => mapping'[c.from] = c.ino
  BY <1>3, <1>4, <1>5 DEF finds_name
<1>7. c.op = "unlink" /\ c.pc \in {"fill", "ready"} =>
         mapping'[c.from] = i /\ i # NoInode /\ item'[i].nlinks > 0
  <2>. SUFFICES ASSUME c.op = "unlink" /\ c.pc \in {"fill", "ready"}
                PROVE  mapping'[c.from] = i /\ i # NoInode /\ item'[i].nlinks > 0
    OBVIOUS
  <2>1. cached(i) /\ i \in Inodes /\ mapping'[c.from] = i
    BY <1>3, <1>4, <1>5 DEF finds_name, cached
  <2>. QED
    BY <1>2, <1>3, <2>1 DEF cached
<1>8. c.pc \in {"new", "fill"} => c.ino # NoInode /\ c.nlinks >= 1
  BY DEF finds_name
<1>. QED
  BY <1>1, <1>4, <1>5, <1>6, <1>7, <1>8 DEF finds_name, cached

\* A step of thread t that begins, continues or ends a call keeps the invariant when it
\* keeps the names of the other threads' calls and what they found.
LEMMA OneThread ==
    ASSUME NamesInv, NEW t \in Threads, NEW r \in Call, TypeOK',
           call' = [call EXCEPT ![t] = r],
           r.pc = "name" => \A u \in Threads : busy(u)' => call'[u].from # r.to,
           r.op \in NameOps \cup {"create"} => changes_names(t) \/ names_free,
           \A u \in others(t) : busy(u) => dir'[call[u].from] = dir[call[u].from],
           \A u \in others(t) : changes_names(u) =>
              /\ dir'[call[u].to] = dir[call[u].to]
              /\ mapping[call[u].from] # NoInode =>
                    mapping'[call[u].from] = mapping[call[u].from]
              /\ \A i \in Inodes : cached(i) => cached(i)',
           \A u \in others(t) : call[u].pc = "name" /\ r.op # "none" =>
              r.from # call[u].to,
           keeps_name(t)', finds_name(t)', MappedToOwnInode'
    PROVE  NamesInv'
<1>. TypeOK
  BY DEF NamesInv
<1>1. call'[t] = r /\ \A u \in others(t) : u \in Threads /\ call'[u] = call[u]
  BY DEF TypeOK, others
<1>2. \A u \in Threads : u = t \/ u \in others(t)
  BY DEF others
<1>3. \A u \in Threads : keeps_name(u)' /\ finds_name(u)'
  <2>. SUFFICES ASSUME NEW u \in others(t) PROVE keeps_name(u)' /\ finds_name(u)'
    BY <1>2
  <2>1. u \in Threads /\ call'[u] = call[u] /\ keeps_name(u) /\ finds_name(u)
    BY <1>1 DEF NamesInv
  <2>2. mapping[call[u].from] \in Inodes \cup {NoInode}
    BY <2>1, CallTypes DEF TypeOK
  <2>. QED
    BY <2>1, <2>2, OtherCall, CacheNamesAssumption
<1>4. OneChangesNames'
  <2>1. changes_names(t)' => changes_names(t) \/ names_free
    BY <1>1 DEF changes_names
  <2>2. \A u \in others(t) : changes_names(u)' => changes_names(u)
    BY <1>1 DEF changes_names
  <2>3. \A u \in others(t) : ~ (changes_names(t)' /\ changes_names(u)')
    BY <1>1, <2>1, <2>2, NamesFree DEF NamesInv, OneChangesNames, others
  <2>. QED
    BY <1>2, <2>2, <2>3, <1>1 DEF NamesInv, OneChangesNames
<1>5. NewNameUnused'
  <2>. SUFFICES ASSUME NEW v \in Threads, NEW u \in Threads, call'[v].pc = "name",
                       call'[u].op # "none"
                PROVE  call'[u].from # call'[v].to
    BY DEF NewNameUnused, busy
  <2>1. CASE v = t
    BY <1>1, <2>1 DEF busy
  <2>2. CASE v \in others(t) /\ u = t
    BY <1>1, <2>2
  <2>3. CASE v \in others(t) /\ u \in others(t)
    BY <1>1, <2>3 DEF NamesInv, NewNameUnused, busy
  <2>. QED
    BY <1>2, <2>1, <2>2, <2>3
<1>. QED
  BY <1>3, <1>4, <1>5 DEF NamesInv

\* Such a step that changes no name below only adds entries and items to the cache.
LEMMA AddsToCache ==
    ASSUME NamesInv, NEW t \in Threads, NEW r \in Call, TypeOK',
           call' = [call EXCEPT ![t] = r], r.pc # "name", call[t].pc # "name",
           r.op \in NameOps \cup {"create"} => changes_names(t) \/ names_free,
           r.op = "none" \/ (busy(t) /\ r.from = call[t].from) \/ names[r.from] # NoInode,
           dir' = dir,
           \A p \in Paths : \/ mapping'[p] = mapping[p]
                            \/ mapping[p] = NoInode /\ mapping'[p] = names[p],
           \A i \in Inodes : cached(i) => cached(i)',
           keeps_name(t)', finds_name(t)'
    PROVE  NamesInv'
<1>. TypeOK
  BY DEF NamesInv
<1>1. call'[t] = r /\ \A u \in Threads \ {t} : call'[u] = call[u]
  BY DEF TypeOK
<1>2. \A u \in Threads : call'[u].pc = "name" <=> call[u].pc = "name"
  BY <1>1
<1>3. \A u \in Threads : call[u].pc = "name" => call'[u].to = call[u].to
  BY <1>1
<1>4. \A p \in Paths : names'[p] = names[p]
  BY <1>2, <1>3, NamesAre
<1>5. MappedToOwnInode'
  BY <1>4 DEF MappedToOwnInode, NamesInv
<1>6. \A u \in others(t) : call[u].pc = "name" /\ r.op # "none" => r.from # call[u].to
  <2>. SUFFICES ASSUME NEW u \in others(t), call[u].pc = "name", r.op # "none"
                PROVE  r.from # call[u].to
    OBVIOUS
  <2>1. CASE busy(t) /\ r.from = call[t].from
    BY <2>1 DEF NamesInv, NewNameUnused, others
  <2>2. CASE names[r.from] # NoInode
    BY <2>2, NamesAre DEF others, Call
  <2>. QED
    BY <2>1, <2>2
<1>7. \A u \in others(t) : call[u].from \in Paths
  BY CallTypes DEF others
<1>. QED
  BY <1>5, <1>6, <1>7, OneThread

-----------------------------------------------------------------------------

\* A call for names of existing files that lfs_getattr serves: at its first name, or
\* at the second one of a rename.
named(c) ==
    /\ c.op # "none"
    /\ dir[c.from] # NoInode /\ dir[c.at] # NoInode
    /\ c.op = "rename" => c.from # c.to
    /\ c.op = "link" => dir[c.to] = NoInode
    /\ c.at # c.from => c.op = "rename" /\ c.at = c.to /\ mapping[c.from] # NoInode

\* Where a call goes from lfs_getattr.
LEMMA Resumed ==
    ASSUME TypeOK, NEW c \in Call, named(c)
    PROVE  LET r == resumed(c)
           IN  /\ r \in Call /\ r.pc \notin {"name", "new", "fill"}
               /\ \/ r.op = "none" /\ r.pc = "idle" /\ r.at = r.from
                  \/ /\ r.op = c.op /\ r.from = c.from /\ r.to = c.to
                     /\ r.at # r.from => r.op = "rename" /\ r.at = r.to /\ dir[r.to] # NoInode
<1>1. c.op \in Ops
  BY DEF Call
<1>2. CASE c.op = "getattr"
  BY <1>2, StartTypes DEF resumed, NoCall
<1>3. CASE c.op \in {"create", "write", "fsync"}
  BY <1>3, StartTypes DEF resumed, Call, named
<1>4. CASE c.op \in {"link", "unlink"}
  BY <1>4, StartTypes DEF resumed, Call, named
<1>5. CASE c.op = "rename" /\ c.at = c.from /\ dir[c.to] # NoInode
  BY <1>5, StartTypes DEF resumed, Call, named
<1>6. CASE c.op = "rename" /\ ~ (c.at = c.from /\ dir[c.to] # NoInode)
  BY <1>6, StartTypes DEF resumed, Call, named
<1>. QED
  BY <1>1, <1>2, <1>3, <1>4, <1>5, <1>6 DEF Ops, NameOps, named

\* lfs_getattr enters the inode of a name that the kernel knows.
LEMMA LooksUp ==
    ASSUME NamesInv, IsFiniteSet(Paths), NEW t \in Threads, NEW c \in Call, named(c),
           call[t].pc # "name", c.pc # "name", names[c.at] = dir[c.at],
           c.op \in NameOps \cup {"create"} => changes_names(t) \/ names_free,
           (busy(t) /\ c.from = call[t].from) \/ names[c.from] # NoInode,
           getattr(t, c), UNCHANGED <<dir, disk, item>>
    PROVE  NamesInv'
<1>. DEFINE p == c.at
            i == inode_of(p)
            n == [c EXCEPT !.pc = "new", !.ino = i,
                           !.size = disk[dir[p]].size, !.nlinks = links(dir[p])]
            r == IF cached(i) THEN resumed(c) ELSE n
<1>. TypeOK
  BY DEF NamesInv
<1>1. p \in Paths /\ c.from \in Paths /\ c.to \in Paths /\ c.op \in Ops
  BY DEF Call
<1>2. dir[p] \in Inodes /\ i \in Inodes /\ i = dir[p] /\ i # NoInode
  BY <1>1, CacheNamesAssumption DEF inode_of, TypeOK, named, NamesInv, MappedToOwnInode
<1>3. mapping' = [mapping EXCEPT ![p] = i] /\ call' = [call EXCEPT ![t] = r]
  BY DEF getattr, inode_of, begin
<1>4. links(dir[p]) \in Nat /\ links(dir[p]) >= 1
  BY <1>1, NamedFileHasLink
<1>5. n \in Call
  <2>1. disk[dir[p]].size \in 0 .. MaxSize
    BY <1>2 DEF TypeOK, Content
  <2>. QED
    BY <1>2, <1>4, <2>1 DEF Call
<1>6. r \in Call /\ r.pc # "name"
  BY <1>5, Resumed DEF Call
<1>7. /\ mapping' \in [Paths -> Inodes \cup {NoInode}]
      /\ mapping'[p] = i
      /\ \A q \in Paths : mapping[q] # NoInode => mapping'[q] = mapping[q]
      /\ \A q \in Paths : \/ mapping'[q] = mapping[q]
                          \/ mapping[q] = NoInode /\ mapping'[q] = names[q]
  BY <1>1, <1>2, <1>3 DEF inode_of, TypeOK
<1>8. TypeOK'
  BY <1>3, <1>6, <1>7 DEF TypeOK
<1>9. call'[t] = r
  BY <1>3 DEF TypeOK
<1>10. \/ r.op = "none" /\ r.pc = "idle" /\ r.at = r.from
       \/ /\ r.op = c.op /\ r.from = c.from /\ r.to = c.to
          /\ r.at # r.from => r.op = "rename" /\ r.at = r.to /\ dir[r.to] # NoInode
  BY Resumed DEF Call, named
<1>11. c.op \in NameOps => mapping'[c.from] # NoInode
  BY <1>1, <1>2, <1>7 DEF named
<1>12. keeps_name(t)'
  <2>. HIDE DEF r
  <2>. QED
    BY <1>6, <1>9, <1>10 DEF keeps_name, busy, named
<1>13. finds_name(t)'
  <2>1. CASE cached(i)
    <3>1. r.pc \notin {"new", "fill"}
      BY <2>1, Resumed
    <3>2. r.op \in NameOps => mapping'[r.from] # NoInode
      BY <1>10, <1>11 DEF NameOps
    <3>3. r.op = "unlink" => mapping'[r.from] = i
      BY <1>7, <1>10 DEF named
    <3>. QED
      BY <1>9, <2>1, <3>1, <3>2, <3>3 DEF finds_name, cached
  <2>2. CASE ~ cached(i)
    <3>1. /\ r = n /\ r.pc = "new" /\ r.ino = i /\ r.nlinks = links(dir[p])
          /\ r.op = c.op /\ r.from = c.from
      BY <2>2 DEF Call
    <3>2. r.op = "unlink" => mapping'[r.from] = i
      BY <1>7, <3>1 DEF named
    <3>. QED
      BY <1>2, <1>4, <1>9, <1>11, <3>1, <3>2 DEF finds_name
  <2>. QED
    BY <2>1, <2>2
<1>14. r.op \in NameOps \cup {"create"} => changes_names(t) \/ names_free
  BY <1>10 DEF NameOps
<1>15. r.op = "none" \/ (busy(t) /\ r.from = call[t].from) \/ names[r.from] # NoInode
  BY <1>10
<1>16. \A j \in Inodes : cached(j) => cached(j)'
  BY DEF cached
<1>. QED
  BY <1>3, <1>6, <1>7, <1>8, <1>12, <1>13, <1>14, <1>15, <1>16, AddsToCache

LEMMA GetAttrStep ==
    ASSUME NamesInv, IsFiniteSet(Paths), NEW t \in Threads, GetAttr(t)
    PROVE  NamesInv'
<1>. DEFINE c == call[t]
<1>. TypeOK /\ keeps_name(t) /\ finds_name(t) /\ c \in Call /\ c.pc = "getattr"
  BY CallTypes DEF NamesInv, GetAttr
<1>1. named(c) /\ busy(t)
  BY DEF named, keeps_name, finds_name, busy, NameOps
<1>2. names[c.at] = dir[c.at]
  <2>. SUFFICES ASSUME NEW u \in Threads, call[u].pc = "name", call[u].to = c.at
                PROVE  FALSE
    BY NamesAre DEF Call
  <2>1. c.from # c.at
    BY <1>1 DEF NamesInv, NewNameUnused
  <2>2. c.op = "rename" /\ call[u].op = "link" /\ keeps_name(u)
    BY <1>1, <2>1 DEF named, NamesInv, keeps_name
  <2>. QED
    BY <2>2 DEF NamesInv, OneChangesNames, changes_names, NameOps
<1>3. c.op \in NameOps \cup {"create"} => changes_names(t)
  BY DEF changes_names
<1>4. getattr(t, c) /\ UNCHANGED <<dir, disk, item>>
  BY DEF GetAttr
<1>. QED
  BY <1>1, <1>2, <1>3, <1>4, LooksUp

\* The names that the kernel knows are names below.
LEMMA KnownNames ==
    ASSUME NEW p \in Paths, names[p] # NoInode
    PROVE  names[p] = dir[p]
BY NamesAre

\* The record of a call that begins.
LEMMA AskedIs ==
    ASSUME NEW op \in Ops, NEW p \in Paths, NEW q \in Paths
    PROVE  /\ asked(op, p, q) \in Call
           /\ asked(op, p, q).op = op /\ asked(op, p, q).from = p /\ asked(op, p, q).to = q
           /\ asked(op, p, q).at = p /\ asked(op, p, q).pc = "idle"
BY StartTypes DEF asked, NoCall, Call

\* A call begins with lfs_getattr of its first name.
LEMMA BeginStep ==
    ASSUME NamesInv, IsFiniteSet(Paths), NEW t \in Threads, Begin(t)
    PROVE  NamesInv'
<1>. TypeOK /\ call[t].pc # "name"
  <2>1. ~ busy(t)
    BY DEF Begin, BeginGetAttr, BeginFsync, BeginWrite, BeginNames, BeginCreate
  <2>. QED
    BY <2>1 DEF NamesInv, keeps_name, busy
<1>1. ASSUME NEW c \in Call, named(c), c.at = c.from, names[c.from] # NoInode,
             c.op \in NameOps \cup {"create"} => names_free, c.pc = "idle",
             getattr(t, c), UNCHANGED <<dir, disk, item>>
      PROVE  NamesInv'
  <2>1. names[c.at] = dir[c.at]
    BY <1>1, KnownNames DEF Call
  <2>. QED
    BY <1>1, <2>1, LooksUp
<1>2. ASSUME NEW p \in Paths, BeginGetAttr(t, p) \/ BeginFsync(t, p) PROVE NamesInv'
  <2>. PICK op \in {"getattr", "fsync"} : /\ names[p] # NoInode /\ getattr(t, asked(op, p, p))
                                          /\ UNCHANGED <<dir, disk, item>>
    BY <1>2 DEF BeginGetAttr, BeginFsync
  <2>1. op \in Ops \ {"none"} /\ op \notin NameOps \cup {"create"}
    BY DEF Ops, NameOps
  <2>2. dir[p] # NoInode
    BY KnownNames
  <2>. DEFINE c == asked(op, p, p)
  <2>3. c \in Call /\ c.op = op /\ c.from = p /\ c.to = p /\ c.at = p /\ c.pc = "idle"
    BY <2>1, AskedIs
  <2>. HIDE DEF c
  <2>4. named(c)
    BY <2>1, <2>2, <2>3 DEF named, NameOps
  <2>. QED
    BY <1>1, <2>1, <2>3, <2>4 DEF c
<1>3. ASSUME NEW p \in Paths, NEW len \in 1 .. MaxSize, NEW tag \in Tags, BeginWrite(t, p, len, tag)
      PROVE  NamesInv'
  <2>. DEFINE a == asked("write", p, p)
              c == [a EXCEPT !.len = len, !.tag = tag]
  <2>1. /\ a \in Call /\ c \in Call /\ a.op = "write" /\ a.from = p /\ a.to = p /\ a.at = p
        /\ a.pc = "idle"
    <3>1. "write" \in Ops /\ len \in 0 .. MaxSize
      BY CacheNamesAssumption DEF Ops
    <3>2. /\ a \in Call /\ a.op = "write" /\ a.from = p /\ a.to = p /\ a.at = p
          /\ a.pc = "idle"
      BY <3>1, AskedIs
    <3>. QED
      BY <3>1, <3>2 DEF Call
  <2>2. c.op = "write" /\ c.from = p /\ c.to = p /\ c.at = p /\ c.pc = "idle"
    BY <2>1 DEF Call
  <2>3. names[p] # NoInode /\ dir[p] # NoInode
    BY <1>3, KnownNames DEF BeginWrite
  <2>4. getattr(t, c) /\ UNCHANGED <<dir, disk, item>>
    BY <1>3 DEF BeginWrite
  <2>. HIDE DEF c
  <2>5. named(c)
    BY <2>2, <2>3 DEF named
  <2>. QED
    BY <1>1, <2>1, <2>2, <2>3, <2>4, <2>5 DEF NameOps
<1>4. ASSUME NEW op \in NameOps, NEW p \in Paths, NEW q \in Paths, BeginNames(t, op, p, q)
      PROVE  NamesInv'
  <2>. DEFINE c == asked(op, p, q)
  <2>1. op \in Ops \ {"none"}
    BY DEF Ops, NameOps
  <2>2. c \in Call /\ c.op = op /\ c.from = p /\ c.to = q /\ c.at = p /\ c.pc = "idle"
    BY <2>1, AskedIs
  <2>3. names_free /\ names[p] # NoInode /\ dir[p] # NoInode
    BY <1>4, KnownNames DEF BeginNames
  <2>4. op = "rename" => p # q
    BY <1>4 DEF BeginNames
  <2>5. op = "link" => dir[q] = NoInode
    BY <1>4 DEF BeginNames
  <2>6. getattr(t, c) /\ UNCHANGED <<dir, disk, item>>
    BY <1>4 DEF BeginNames
  <2>. HIDE DEF c
  <2>7. named(c)
    BY <2>1, <2>2, <2>3, <2>4, <2>5 DEF named
  <2>. QED
    BY <1>1, <2>2, <2>3, <2>6, <2>7
<1>5. ASSUME NEW p \in Paths, NEW i \in Inodes, BeginCreate(t, p, i) PROVE NamesInv'
  <2>. DEFINE a == asked("create", p, p)
              c == [a EXCEPT !.pc = "getattr"]
  <2>1. /\ c \in Call /\ c.op = "create" /\ c.from = p /\ c.to = p /\ c.at = p
        /\ c.pc = "getattr"
    <3>1. "create" \in Ops
      BY DEF Ops
    <3>2. a \in Call /\ a.op = "create" /\ a.from = p /\ a.to = p /\ a.at = p
      BY <3>1, AskedIs
    <3>. QED
      BY <3>2 DEF Call
  <2>2. call' = [call EXCEPT ![t] = c] /\ call'[t] = c
    BY <1>5 DEF BeginCreate, begin, TypeOK
  <2>. HIDE DEF c
  <2>3. /\ names_free /\ dir[p] = NoInode
        /\ dir' = [dir EXCEPT ![p] = i] /\ disk' = [disk EXCEPT ![i] = Empty]
        /\ mapping' = mapping /\ item' = item
    BY <1>5 DEF BeginCreate
  <2>4. TypeOK'
    BY <2>1, <2>2, <2>3, StartTypes DEF TypeOK
  <2>5. \A u \in Threads : ~ changes_names(u) /\ call[u].pc # "name"
    BY <2>3, NamesFree DEF NamesInv
  <2>6. \A u \in Threads : busy(u) => dir'[call[u].from] = dir[call[u].from]
    BY <2>3, CallTypes DEF NamesInv, keeps_name, TypeOK
  <2>7. keeps_name(t)' /\ finds_name(t)'
    BY <2>1, <2>2, <2>3, CacheNamesAssumption
       DEF keeps_name, finds_name, busy, NameOps, TypeOK
  <2>8. \A u \in Threads : call'[u].pc # "name"
    BY <2>1, <2>2, <2>5 DEF TypeOK
  <2>9. MappedToOwnInode'
    <3>1. \A o \in Paths : names[o] = dir[o] /\ names'[o] = dir'[o]
      BY <2>5, <2>8, NamesAre
    <3>. QED
      BY <2>3, <3>1 DEF MappedToOwnInode, NamesInv, TypeOK
  <2>. QED
    BY <2>1, <2>2, <2>3, <2>4, <2>5, <2>6, <2>7, <2>9, OneThread DEF others
<1>. QED
  BY <1>2, <1>3, <1>4, <1>5 DEF Begin

-----------------------------------------------------------------------------
(* The steps that leave the names below and the entries alone.             *)

\* A step of thread t that leaves the names alone, and every item that is there.
LEMMA DataStep ==
    ASSUME NamesInv, NEW t \in Threads, NEW r \in Call,
           call' = [call EXCEPT ![t] = r], r.pc # "name", call[t].pc # "name",
           r.op = "none" \/ (busy(t) /\ r.op = call[t].op /\ r.from = call[t].from),
           disk' \in [Inodes -> Content], item' \in [Inodes -> Item],
           UNCHANGED <<dir, mapping>>,
           \A i \in Inodes : cached(i) => cached(i)',
           keeps_name(t)', finds_name(t)'
    PROVE  NamesInv'
<1>1. TypeOK'
  BY DEF NamesInv, TypeOK
<1>2. r.op \in NameOps \cup {"create"} => changes_names(t)
  BY DEF changes_names, NameOps
<1>. QED
  BY <1>1, <1>2, AddsToCache

\* A call that returns leaves nothing to keep.
LEMMA Returned ==
    ASSUME TypeOK, NEW t \in Threads, return(t)
    PROVE  /\ call' = [call EXCEPT ![t] = NoCall] /\ call'[t] = NoCall
           /\ NoCall \in Call /\ NoCall.op = "none" /\ NoCall.pc = "idle"
           /\ keeps_name(t)' /\ finds_name(t)' /\ ~ busy(t)' /\ ~ changes_names(t)'
<1>1. /\ call' = [call EXCEPT ![t] = NoCall] /\ call'[t] = NoCall
      /\ NoCall.op = "none" /\ NoCall.pc = "idle" /\ NoCall.at = NoCall.from
  BY DEF return, TypeOK, NoCall
<1>2. NoCall \in Call
  BY StartTypes
<1>3. ~ busy(t)' /\ ~ changes_names(t)'
  BY <1>1 DEF busy, changes_names, NameOps
<1>4. keeps_name(t)' /\ finds_name(t)'
  BY <1>1 DEF keeps_name, finds_name, busy, NameOps
<1>. QED
  BY <1>1, <1>2, <1>3, <1>4

LEMMA GetAttrNewStep ==
    ASSUME NamesInv, NEW t \in Threads, GetAttrNew(t)
    PROVE  NamesInv'
<1>. DEFINE c == call[t]
            i == c.ino
            r == [c EXCEPT !.pc = "fill"]
<1>. TypeOK /\ keeps_name(t) /\ finds_name(t) /\ c \in Call /\ c.pc = "new"
  BY CallTypes DEF NamesInv, GetAttrNew
<1>1. /\ r \in Call /\ r.pc = "fill" /\ r.op = c.op /\ r.from = c.from /\ r.to = c.to
      /\ r.at = c.at /\ r.ino = i /\ r.nlinks = c.nlinks
  BY DEF Call
<1>2. call' = [call EXCEPT ![t] = r] /\ call'[t] = r
  BY DEF GetAttrNew, goto, TypeOK
<1>3. UNCHANGED <<dir, disk, mapping>>
  BY DEF GetAttrNew
<1>4. i \in Inodes /\ i # NoInode
  BY DEF finds_name, Call
<1>5. item' \in [Inodes -> Item] /\ (\A j \in Inodes : cached(j) => cached(j)') /\ item'[i].nlinks > 0
  BY <1>4, StartTypes DEF GetAttrNew, TypeOK, cached
<1>6. busy(t)
  BY DEF busy, keeps_name
<1>. HIDE DEF r
<1>7. keeps_name(t)'
  BY <1>1, <1>2, <1>3 DEF keeps_name, busy
<1>8. finds_name(t)'
  BY <1>1, <1>2, <1>3, <1>4, <1>5 DEF finds_name, cached, NameOps
<1>. QED
  BY <1>1, <1>2, <1>3, <1>5, <1>6, <1>7, <1>8, DataStep DEF TypeOK

LEMMA GetAttrFillStep ==
    ASSUME NamesInv, NEW t \in Threads, GetAttrFill(t)
    PROVE  NamesInv'
<1>. DEFINE c == call[t]
            i == c.ino
            r == resumed(c)
<1>. TypeOK /\ keeps_name(t) /\ finds_name(t) /\ c \in Call /\ c.pc = "fill"
  BY CallTypes DEF NamesInv, GetAttrFill
<1>1. named(c) /\ busy(t)
  BY DEF named, keeps_name, finds_name, busy, NameOps
<1>2. /\ r \in Call /\ r.pc \notin {"name", "new", "fill"}
      /\ \/ r.op = "none" /\ r.pc = "idle" /\ r.at = r.from
         \/ /\ r.op = c.op /\ r.from = c.from /\ r.to = c.to
            /\ r.at # r.from => r.op = "rename" /\ r.at = r.to /\ dir[r.to] # NoInode
  BY <1>1, Resumed
<1>. HIDE DEF r
<1>3. call' = [call EXCEPT ![t] = r] /\ call'[t] = r
  BY DEF GetAttrFill, begin, TypeOK, r
<1>4. UNCHANGED <<dir, disk, mapping>>
  BY DEF GetAttrFill
<1>5. c.nlinks \in Nat /\ c.nlinks >= 1 /\ c.size \in 0 .. MaxSize
  BY DEF finds_name, Call
<1>6. item' \in [Inodes -> Item] /\ (\A j \in Inodes : cached(j) => cached(j)')
  <2>1. CASE ~ cached(i)
    BY <2>1 DEF GetAttrFill, TypeOK, cached
  <2>2. CASE cached(i)
    <3>. DEFINE it == [item[i] EXCEPT !.size = c.size, !.nlinks = c.nlinks]
    <3>1. i \in Inodes /\ item[i] \in Item
      BY <2>2 DEF cached, TypeOK, Call
    <3>2. it \in Item /\ it.nlinks > 0
      <4>1. it.nlinks = c.nlinks
        BY <3>1 DEF Item
      <4>2. it \in Item
        BY <1>5, <3>1 DEF Item
      <4>. HIDE DEF it
      <4>. QED
        BY <1>5, <4>1, <4>2
    <3>3. item' = [item EXCEPT ![i] = it]
      BY <2>2, <3>1 DEF GetAttrFill, TypeOK
    <3>. HIDE DEF it
    <3>. QED
      BY <3>2, <3>3 DEF TypeOK, cached
  <2>. QED
    BY <2>1, <2>2
<1>7. keeps_name(t)'
  BY <1>1, <1>2, <1>3, <1>4 DEF keeps_name, busy, named
<1>8. c.op \in NameOps => mapping[c.from] # NoInode
  BY DEF finds_name
<1>9. c.op = "unlink" => mapping[c.from] \in Inodes /\ cached(mapping[c.from])
  BY DEF finds_name, cached, TypeOK, Call
<1>10. finds_name(t)'
  BY <1>2, <1>3, <1>4, <1>6, <1>8, <1>9 DEF finds_name, cached, NameOps
<1>. QED
  BY <1>1, <1>2, <1>3, <1>4, <1>6, <1>7, <1>10, DataStep DEF TypeOK

LEMMA CreateItemStep ==
    ASSUME NamesInv, NEW t \in Threads, CreateItem(t)
    PROVE  NamesInv'
<1>1. TypeOK /\ return(t) /\ UNCHANGED <<dir, disk, mapping>> /\ call[t].pc = "made"
  BY DEF NamesInv, CreateItem
<1>2. item' \in [Inodes -> Item] /\ \A j \in Inodes : cached(j) => cached(j)'
  BY <1>1, StartTypes DEF CreateItem, TypeOK, cached
<1>. QED
  BY <1>1, <1>2, Returned, DataStep DEF TypeOK

LEMMA WriteSizeStep ==
    ASSUME NamesInv, NEW t \in Threads, WriteSize(t)
    PROVE  NamesInv'
<1>. DEFINE c == call[t]
            i == mapping[c.from]
            n == IF cached(i) THEN item[i].size ELSE disk[dir[c.from]].size
            r == [c EXCEPT !.pc = "put", !.ino = i, !.before = n]
<1>. TypeOK /\ keeps_name(t) /\ finds_name(t) /\ c \in Call /\ c.pc = "size"
  BY CallTypes DEF NamesInv, WriteSize
<1>1. busy(t)
  BY DEF busy, keeps_name
<1>2. i \in Inodes \cup {NoInode} /\ dir[c.from] \in Inodes
  BY <1>1 DEF keeps_name, TypeOK, Call
<1>3. n \in 0 .. MaxSize
  BY <1>2 DEF TypeOK, Item, Content, cached
<1>4. call' = [call EXCEPT ![t] = r] /\ call'[t] = r /\ UNCHANGED <<dir, disk, mapping, item>>
  BY DEF WriteSize, begin, TypeOK
<1>. HIDE DEF n
<1>5. /\ r \in Call /\ r.pc = "put" /\ r.op = c.op /\ r.from = c.from /\ r.to = c.to
      /\ r.at = c.at
  BY <1>2, <1>3 DEF Call
<1>. HIDE DEF r
<1>6. keeps_name(t)' /\ finds_name(t)'
  BY <1>4, <1>5 DEF keeps_name, finds_name, busy
<1>7. \A j \in Inodes : cached(j) => cached(j)'
  BY <1>4 DEF cached
<1>. QED
  BY <1>1, <1>4, <1>5, <1>6, <1>7, DataStep DEF TypeOK

LEMMA WritePutStep ==
    ASSUME NamesInv, NEW t \in Threads, WritePut(t)
    PROVE  NamesInv'
<1>. DEFINE c == call[t]
            i == c.ino
            r == [c EXCEPT !.pc = "store", !.tag = Zero]
            was == IF cached(i) THEN item[i] ELSE NewItem
            it == [was EXCEPT !.tag = c.tag, !.dirty = TRUE]
<1>. TypeOK /\ keeps_name(t) /\ finds_name(t) /\ c \in Call /\ c.pc = "put"
  BY CallTypes DEF NamesInv, WritePut
<1>1. busy(t)
  BY DEF busy, keeps_name
<1>2. i \in Inodes => it \in Item /\ it.nlinks > 0
  <2>. SUFFICES ASSUME i \in Inodes PROVE it \in Item /\ it.nlinks > 0
    OBVIOUS
  <2>1. was \in Item /\ was.nlinks > 0
    BY StartTypes DEF TypeOK, cached
  <2>2. c.tag \in Tags /\ c.tag # NoTag
    BY CacheNamesAssumption DEF Call
  <2>. HIDE DEF was
  <2>. QED
    BY <2>1, <2>2 DEF Item
<1>3. item' = [item EXCEPT ![i] = it]
  BY DEF WritePut
<1>. HIDE DEF it
<1>4. item' \in [Inodes -> Item] /\ (\A j \in Inodes : cached(j) => cached(j)')
  BY <1>2, <1>3 DEF TypeOK, cached
<1>5. call' = [call EXCEPT ![t] = r] /\ call'[t] = r /\ UNCHANGED <<dir, disk, mapping>>
  BY DEF WritePut, begin, TypeOK
<1>6. /\ r \in Call /\ r.pc = "store" /\ r.op = c.op /\ r.from = c.from /\ r.to = c.to
      /\ r.at = c.at
  BY CacheNamesAssumption DEF Call
<1>. HIDE DEF r
<1>7. keeps_name(t)' /\ finds_name(t)'
  BY <1>5, <1>6 DEF keeps_name, finds_name, busy
<1>. QED
  BY <1>1, <1>4, <1>5, <1>6, <1>7, DataStep DEF TypeOK

LEMMA WriteStoreStep ==
    ASSUME NamesInv, NEW t \in Threads, WriteStore(t)
    PROVE  NamesInv'
<1>1. /\ TypeOK /\ return(t) /\ UNCHANGED <<dir, disk, mapping>> /\ call[t].pc = "store"
      /\ call[t] \in Call
  BY CallTypes DEF NamesInv, WriteStore
<1>2. longer(call[t].before, call[t].len) \in 0 .. MaxSize
  BY <1>1 DEF longer, Call
<1>3. item' \in [Inodes -> Item] /\ \A j \in Inodes : cached(j) => cached(j)'
  BY <1>1, <1>2 DEF WriteStore, TypeOK, cached, Item
<1>. QED
  BY <1>1, <1>3, Returned, DataStep DEF TypeOK

\* A sync leaves a content of the item's size.
LEMMA SyncedType ==
    ASSUME NEW c \in Content, NEW it \in Item
    PROVE  synced(c, it) \in Content /\ [it EXCEPT !.dirty = FALSE] \in Item
<1>1. it.dirty \in BOOLEAN /\ it.size \in 0 .. MaxSize /\ (it.dirty => it.tag \in Tags)
  BY DEF Item
<1>2. synced(c, it) \in Content
  BY <1>1, CacheNamesAssumption DEF synced, Content
<1>. QED
  BY <1>2 DEF Item

LEMMA SyncOwnerStep ==
    ASSUME NamesInv, NEW t \in Threads, SyncOwner(t)
    PROVE  NamesInv'
<1>. DEFINE p == call[t].from
            i == mapping[p]
<1>1. /\ TypeOK /\ return(t) /\ UNCHANGED <<dir, mapping>> /\ call[t].pc = "sync"
      /\ p \in Paths
  BY CallTypes DEF NamesInv, SyncOwner
<1>2. /\ disk' \in [Inodes -> Content] /\ item' \in [Inodes -> Item]
      /\ \A j \in Inodes : cached(j) => cached(j)'
  <2>1. CASE cached(i)
    <3>1. i \in Inodes /\ item[i] \in Item
      BY <1>1, <2>1 DEF cached, TypeOK
    <3>2. disk' = [disk EXCEPT ![dir[p]] = synced(disk[dir[p]], item[i])]
      BY <2>1 DEF SyncOwner
    <3>3. item' = [item EXCEPT ![i] = [item[i] EXCEPT !.dirty = FALSE]]
      BY <2>1, <3>1 DEF SyncOwner, TypeOK
    <3>4. disk' \in [Inodes -> Content]
      BY <1>1, <3>1, <3>2, SyncedType DEF TypeOK
    <3>5. [item[i] EXCEPT !.dirty = FALSE] \in Item
      BY <1>1, <3>1, SyncedType, StartTypes
    <3>6. item[i].nlinks = [item[i] EXCEPT !.dirty = FALSE].nlinks
      BY <3>1 DEF Item
    <3>. QED
      BY <1>1, <3>1, <3>3, <3>4, <3>5, <3>6 DEF TypeOK, cached
  <2>2. CASE ~ cached(i)
    BY <1>1, <2>2 DEF SyncOwner, TypeOK, cached
  <2>. QED
    BY <2>1, <2>2
<1>. QED
  BY <1>1, <1>2, Returned, DataStep

-----------------------------------------------------------------------------
(* The steps that change names.                                            *)

\* While a call that has not made a link yet changes names, no other does and the
\* kernel knows every name.
LEMMA OneChanger ==
    ASSUME NamesInv, NEW t \in Threads, changes_names(t)
    PROVE  /\ \A u \in others(t) : u \in Threads /\ ~ changes_names(u) /\ call[u].pc # "name"
           /\ \A p \in Paths : (call[t].pc = "name" => p # call[t].to) => names[p] = dir[p]
<1>1. \A u \in others(t) : u \in Threads /\ ~ changes_names(u) /\ call[u].pc # "name"
  <2>. SUFFICES ASSUME NEW u \in others(t)
                PROVE  ~ changes_names(u) /\ call[u].pc # "name"
    BY DEF others
  <2>1. ~ changes_names(u)
    BY DEF others, NamesInv, OneChangesNames
  <2>2. keeps_name(u)
    BY DEF others, NamesInv
  <2>. QED
    BY <2>1, <2>2 DEF keeps_name, changes_names, NameOps
<1>. QED
  BY <1>1, NamesAre DEF others

LEMMA LinkStep ==
    ASSUME NamesInv, NEW t \in Threads, Link(t)
    PROVE  NamesInv'
<1>. DEFINE c == call[t]
            p == c.from
            q == c.to
            r == [c EXCEPT !.pc = "name"]
<1>. TypeOK /\ keeps_name(t) /\ finds_name(t) /\ c \in Call /\ c.op = "link" /\ c.pc = "ready"
  BY CallTypes DEF NamesInv, Link
<1>1. /\ r \in Call /\ r.pc = "name" /\ r.op = "link" /\ r.from = p /\ r.to = q
      /\ r.at = c.at
  BY DEF Call
<1>2. call' = [call EXCEPT ![t] = r] /\ call'[t] = r
  BY DEF Link, goto, TypeOK
<1>. HIDE DEF r
<1>3. dir' = [dir EXCEPT ![q] = dir[p]] /\ UNCHANGED <<disk, mapping, item>>
  BY DEF Link
<1>4. /\ p \in Paths /\ q \in Paths /\ dir[p] # NoInode /\ dir[q] = NoInode /\ p # q
      /\ c.at = p /\ mapping[p] # NoInode
  BY DEF keeps_name, finds_name, busy, Call, NameOps
<1>5. TypeOK'
  BY <1>1, <1>2, <1>3, <1>4 DEF TypeOK
<1>6. busy(t) /\ changes_names(t)
  BY DEF busy, changes_names, NameOps
<1>7. \A u \in others(t) : /\ ~ changes_names(u) /\ call[u].pc # "name"
                           /\ u \in Threads /\ call'[u] = call[u]
  BY <1>2, <1>6, OneChanger DEF others, TypeOK
<1>8. \A u \in others(t) : busy(u) => call[u].from \in Paths /\ call[u].from # q
  BY <1>4, <1>7, CallTypes DEF NamesInv, keeps_name
<1>9. \A u \in others(t) : busy(u) => dir'[call[u].from] = dir[call[u].from]
  BY <1>3, <1>8 DEF TypeOK
<1>10. \A u \in Threads : busy(u)' => call'[u].from # r.to
  BY <1>1, <1>2, <1>4, <1>7, <1>8 DEF others, busy
<1>11. dir'[p] = dir[p] /\ dir'[q] = dir[p]
  BY <1>3, <1>4 DEF TypeOK
<1>12. keeps_name(t)' /\ finds_name(t)'
  BY <1>1, <1>2, <1>3, <1>4, <1>11 DEF keeps_name, finds_name, busy
<1>13. MappedToOwnInode'
  <2>. SUFFICES ASSUME NEW o \in Paths, mapping'[o] # NoInode
                PROVE  mapping'[o] = names'[o]
    BY DEF MappedToOwnInode
  <2>1. mapping'[o] = mapping[o] /\ mapping[o] = names[o] /\ names[o] = dir[o]
    BY <1>3, <1>6, OneChanger DEF NamesInv, MappedToOwnInode
  <2>2. o # q
    BY <1>3, <1>4, <2>1
  <2>3. \A u \in Threads : call'[u].pc = "name" => call'[u].to # o
    BY <1>1, <1>2, <1>7, <2>2 DEF others
  <2>4. names'[o] = dir'[o] /\ dir'[o] = dir[o]
    BY <1>3, <2>2, <2>3, NamesAre DEF TypeOK
  <2>. QED
    BY <2>1, <2>4
<1>. QED
  BY <1>1, <1>2, <1>5, <1>6, <1>7, <1>9, <1>10, <1>12, <1>13, OneThread

LEMMA LinkNameStep ==
    ASSUME NamesInv, NEW t \in Threads, LinkName(t)
    PROVE  NamesInv'
<1>. DEFINE p == call[t].from
            q == call[t].to
            i == mapping[p]
<1>. TypeOK /\ keeps_name(t) /\ finds_name(t) /\ call[t].pc = "name" /\ call[t].op = "link"
  BY DEF NamesInv, LinkName, keeps_name
<1>1. busy(t) /\ changes_names(t)
  BY DEF busy, changes_names, NameOps
<1>2. p \in Paths /\ q \in Paths /\ p # q /\ dir[q] = dir[p]
  BY <1>1, CallTypes DEF NamesInv, NewNameUnused, keeps_name
<1>3. i # NoInode /\ i \in Inodes
  BY <1>2 DEF finds_name, NameOps, TypeOK
<1>4. i = dir[p]
  BY <1>1, <1>2, <1>3, OneChanger DEF NamesInv, MappedToOwnInode
<1>5. mapping' = [mapping EXCEPT ![q] = i] /\ return(t) /\ UNCHANGED <<dir, disk>>
  BY <1>3 DEF LinkName
<1>6. item' \in [Inodes -> Item]
  <2>1. item[i] \in Item /\ item[i].nlinks \in Nat
    BY <1>3 DEF TypeOK, Item
  <2>2. [item[i] EXCEPT !.nlinks = @ + 1] \in Item
    BY <2>1 DEF Item
  <2>3. item' = item \/ item' = [item EXCEPT ![i] = [item[i] EXCEPT !.nlinks = @ + 1]]
    BY DEF LinkName
  <2>. QED
    BY <2>2, <2>3 DEF TypeOK
<1>7. TypeOK'
  BY <1>3, <1>5, <1>6, Returned DEF TypeOK
<1>8. \A u \in others(t) : /\ ~ changes_names(u) /\ call[u].pc # "name"
                           /\ u \in Threads /\ call'[u] = call[u]
  BY <1>1, <1>5, Returned, OneChanger DEF others, TypeOK
<1>9. \A u \in Threads : call'[u].pc # "name"
  BY <1>5, <1>8, Returned DEF others
<1>10. MappedToOwnInode'
  <2>. SUFFICES ASSUME NEW o \in Paths, mapping'[o] # NoInode
                PROVE  mapping'[o] = names'[o]
    BY DEF MappedToOwnInode
  <2>1. names'[o] = dir[o]
    BY <1>5, <1>9, NamesAre
  <2>2. CASE o = q
    BY <1>2, <1>4, <1>5, <2>1, <2>2 DEF TypeOK
  <2>3. CASE o # q
    BY <1>1, <1>5, <2>1, <2>3, OneChanger DEF TypeOK, NamesInv, MappedToOwnInode
  <2>. QED
    BY <2>2, <2>3
<1>. QED
  BY <1>5, <1>7, <1>8, <1>10, Returned, OneThread DEF NameOps

LEMMA UnlinkedType ==
    ASSUME NEW it \in Item, NEW n \in Nat
    PROVE  unlinked(it, n) \in Item
<1>1. CASE n # 0 /\ it.nlinks > n
  <2>1. it.nlinks \in Nat /\ it.nlinks - n \in Nat
    BY <1>1 DEF Item
  <2>. QED
    BY <1>1, <2>1 DEF unlinked, Item
<1>. QED
  BY <1>1, StartTypes DEF unlinked

\* A call that removes or renames a file has no other call under its names.
LEMMA AloneStep ==
    ASSUME NamesInv, NEW t \in Threads, changes_names(t), call[t].pc = "ready", alone(t),
           return(t), TypeOK',
           \A p \in Paths : p \notin {call[t].from, call[t].to} => dir'[p] = dir[p],
           \A p \in Paths : mapping'[p] # NoInode => mapping'[p] = dir'[p]
    PROVE  NamesInv'
<1>. TypeOK
  BY DEF NamesInv
<1>1. \A u \in others(t) : /\ ~ changes_names(u) /\ call[u].pc # "name"
                           /\ u \in Threads /\ call'[u] = call[u]
  BY Returned, OneChanger DEF others, TypeOK
<1>2. \A u \in others(t) : busy(u) => dir'[call[u].from] = dir[call[u].from]
  <2>. SUFFICES ASSUME NEW u \in others(t), busy(u)
                PROVE  dir'[call[u].from] = dir[call[u].from]
    OBVIOUS
  <2>1. busy(t)
    BY DEF changes_names, busy, NameOps
  <2>2. call[u].from \notin {call[t].from, call[t].to}
    BY <2>1 DEF alone, used
  <2>. QED
    BY <1>1, <2>2, CallTypes
<1>3. \A u \in Threads : call'[u].pc # "name"
  BY <1>1, Returned DEF others
<1>4. MappedToOwnInode'
  BY <1>3, NamesAre DEF MappedToOwnInode
<1>. QED
  BY <1>1, <1>2, <1>4, Returned, OneThread DEF NameOps

LEMMA UnlinkStep ==
    ASSUME NamesInv, "fail" \notin Disturbances, NEW t \in Threads, Unlink(t)
    PROVE  NamesInv'
<1>. DEFINE p == call[t].from
            i == mapping[p]
<1>. TypeOK /\ call[t].op = "unlink" /\ call[t].pc = "ready" /\ finds_name(t)
  BY DEF NamesInv, Unlink
<1>1. changes_names(t) /\ p \in Paths
  BY CallTypes DEF changes_names, NameOps
<1>2. cached(i) /\ i \in Inodes
  BY <1>1 DEF finds_name, cached, TypeOK
<1>3. /\ mapping' = [mapping EXCEPT ![p] = NoInode]
      /\ item' = [item EXCEPT ![i] = unlinked(item[i], 1)]
      /\ dir' = [dir EXCEPT ![p] = NoInode]
      /\ return(t) /\ disk' = disk /\ alone(t)
  BY <1>2 DEF Unlink, below
<1>4. unlinked(item[i], 1) \in Item
  BY <1>2, UnlinkedType DEF TypeOK
<1>5. TypeOK'
  BY <1>3, <1>4, Returned DEF TypeOK
<1>6. \A o \in Paths : mapping'[o] # NoInode => mapping'[o] = dir'[o]
  BY <1>1, <1>3, OneChanger DEF NamesInv, MappedToOwnInode, TypeOK
<1>. QED
  BY <1>1, <1>3, <1>5, <1>6, AloneStep DEF TypeOK

\* The entries of old paths move to new ones, and the new ones' items lose links.
LEMMA RenameItemsTypes ==
    ASSUME TypeOK, IsFiniteSet(Paths), NEW M \in SUBSET (Paths \X Paths), rename_items(M)
    PROVE  /\ mapping' \in [Paths -> Inodes \cup {NoInode}]
           /\ item' \in [Inodes -> Item]
<1>. DEFINE moved == {m \in M : mapping[m[1]] # NoInode}
            over(i) == Cardinality({m \in moved : mapping[m[2]] = i})
            source(p) == CHOOSE m \in moved : m[2] = p
<1>1. IsFiniteSet(Paths \X Paths)
  BY FS_Product
<1>2. \A i \in Inodes : over(i) \in Nat
  <2>. TAKE i \in Inodes
  <2>1. {m \in moved : mapping[m[2]] = i} \subseteq Paths \X Paths
    OBVIOUS
  <2>. QED
    BY <1>1, <2>1, FS_Subset, FS_CardinalityType
<1>3. item' = [i \in Inodes |-> unlinked(item[i], over(i))]
  BY DEF rename_items
<1>4. item' \in [Inodes -> Item]
  <2>. HIDE DEF over
  <2>. QED
    BY <1>2, <1>3, UnlinkedType DEF TypeOK
<1>5. mapping' = [p \in Paths |->
                    IF \E m \in moved : m[2] = p THEN mapping[source(p)[1]]
                    ELSE IF \E m \in moved : m[1] = p THEN NoInode ELSE mapping[p]]
  BY DEF rename_items
<1>6. \A p \in Paths : (\E m \in moved : m[2] = p) => source(p)[1] \in Paths
  <2>. SUFFICES ASSUME NEW p \in Paths, \E m \in moved : m[2] = p PROVE source(p)[1] \in Paths
    OBVIOUS
  <2>1. source(p) \in moved
    OBVIOUS
  <2>. QED
    BY <2>1
<1>7. mapping' \in [Paths -> Inodes \cup {NoInode}]
  <2>. HIDE DEF source, moved
  <2>. QED
    BY <1>5, <1>6 DEF TypeOK
<1>. QED
  BY <1>4, <1>7

\* Where the entry of a path comes from: an old path for it, or itself.
LEMMA RenamedEntry ==
    ASSUME NEW M, rename_items(M), NEW o \in Paths
    PROVE  \/ \E m \in M : /\ mapping[m[1]] # NoInode /\ m[2] = o
                           /\ mapping'[o] = mapping[m[1]]
           \/ /\ \A m \in M : mapping[m[1]] # NoInode => m[2] # o
              /\ mapping'[o] = IF \E m \in M : mapping[m[1]] # NoInode /\ m[1] = o
                               THEN NoInode ELSE mapping[o]
<1>. DEFINE moved == {m \in M : mapping[m[1]] # NoInode}
            source == CHOOSE m \in moved : m[2] = o
<1>1. mapping'[o] = IF \E m \in moved : m[2] = o THEN mapping[source[1]]
                    ELSE IF \E m \in moved : m[1] = o THEN NoInode ELSE mapping[o]
  BY DEF rename_items
<1>2. CASE \E m \in moved : m[2] = o
  <2>1. source \in moved /\ source[2] = o
    BY <1>2
  <2>. HIDE DEF source
  <2>. QED
    BY <1>1, <1>2, <2>1
<1>3. CASE ~ \E m \in moved : m[2] = o
  <2>. HIDE DEF source
  <2>. QED
    BY <1>1, <1>3
<1>. QED
  BY <1>2, <1>3

LEMMA RenameStep ==
    ASSUME NamesInv, IsFiniteSet(Paths), "fail" \notin Disturbances,
           NEW t \in Threads, Rename(t)
    PROVE  NamesInv'
<1>. DEFINE p == call[t].from
            q == call[t].to
            M == {<<p, q>>}
<1>. TypeOK /\ call[t].op = "rename" /\ call[t].pc = "ready" /\ finds_name(t) /\ keeps_name(t)
  BY DEF NamesInv, Rename
<1>1. changes_names(t) /\ p \in Paths /\ q \in Paths /\ p # q
  BY CallTypes DEF changes_names, NameOps, keeps_name
<1>2. mapping[p] # NoInode
  BY DEF finds_name, NameOps
<1>3. /\ rename_items(M) /\ return(t) /\ disk' = disk /\ alone(t)
      /\ dir' = IF dir[p] = dir[q] THEN dir ELSE [dir EXCEPT ![q] = dir[p], ![p] = NoInode]
  BY DEF Rename, below
<1>4. M \in SUBSET (Paths \X Paths)
  BY <1>1
<1>5. mapping' \in [Paths -> Inodes \cup {NoInode}] /\ item' \in [Inodes -> Item]
  BY <1>3, <1>4, RenameItemsTypes
<1>6. dir' \in [Paths -> Inodes \cup {NoInode}]
  BY <1>1, <1>3 DEF TypeOK
<1>7. TypeOK'
  BY <1>3, <1>5, <1>6, Returned DEF TypeOK
<1>8. \A m \in M : m[1] = p /\ m[2] = q
  OBVIOUS
<1>9. \A o \in Paths : mapping'[o] = IF o = q THEN mapping[p]
                                     ELSE IF o = p THEN NoInode ELSE mapping[o]
  <2>. HIDE DEF M
  <2>1. \E m \in M : m[1] = p /\ m[2] = q
    BY DEF M
  <2>. QED
    BY <1>1, <1>2, <1>3, <1>8, <2>1, RenamedEntry
<1>10. mapping[p] = dir[p] /\ \A o \in Paths : mapping[o] # NoInode => mapping[o] = dir[o]
  BY <1>1, <1>2, OneChanger DEF NamesInv, MappedToOwnInode
<1>11. dir'[q] = dir[p] /\ \A o \in Paths : o \notin {p, q} => dir'[o] = dir[o]
  BY <1>1, <1>3 DEF TypeOK
<1>12. \A o \in Paths : mapping'[o] # NoInode => mapping'[o] = dir'[o]
  BY <1>9, <1>10, <1>11
<1>. QED
  BY <1>1, <1>3, <1>7, <1>11, <1>12, AloneStep

-----------------------------------------------------------------------------
(* The steps of no call.                                                   *)

LEMMA NoCallStep ==
    ASSUME NamesInv, call' = call, TypeOK',
           \A u \in Threads : busy(u) => dir'[call[u].from] = dir[call[u].from],
           \A u \in Threads : changes_names(u) =>
              /\ dir'[call[u].to] = dir[call[u].to]
              /\ mapping[call[u].from] # NoInode =>
                    mapping'[call[u].from] = mapping[call[u].from]
              /\ \A i \in Inodes : cached(i) => cached(i)',
           MappedToOwnInode'
    PROVE  NamesInv'
<1>1. \A u \in Threads : keeps_name(u)' /\ finds_name(u)'
  <2>. SUFFICES ASSUME NEW u \in Threads PROVE keeps_name(u)' /\ finds_name(u)'
    OBVIOUS
  <2>1. /\ call'[u] = call[u] /\ keeps_name(u) /\ finds_name(u)
        /\ mapping[call[u].from] \in Inodes \cup {NoInode}
    BY CallTypes DEF NamesInv, TypeOK
  <2>. QED
    BY <2>1, OtherCall, CacheNamesAssumption
<1>2. OneChangesNames'
  BY DEF NamesInv, OneChangesNames, changes_names
<1>3. NewNameUnused'
  BY DEF NamesInv, NewNameUnused, busy
<1>. QED
  BY <1>1, <1>2, <1>3 DEF NamesInv

LEMMA RenameDirStep ==
    ASSUME NamesInv, IsFiniteSet(Paths), "fail" \notin Disturbances,
           NEW d, NEW e, RenameDir(d, e)
    PROVE  NamesInv'
<1>. DEFINE M == {<<o, <<e, o[2]>>>> : o \in files(d)}
<1>. TypeOK
  BY DEF NamesInv
<1>1. /\ d # e /\ names_free /\ files(e) = {} /\ rename_items(M)
      /\ \A m \in M : m[2] \in Paths
      /\ \A u \in Threads : used(u) \cap files(d) = {}
      /\ UNCHANGED <<disk, call>>
  BY DEF RenameDir
<1>2. dir' = [p \in Paths |-> IF \E m \in M : m[2] = p THEN dir[<<d, p[2]>>]
                              ELSE IF p[1] = d THEN NoInode ELSE dir[p]]
  BY DEF RenameDir, below
\* A pair of M is of a file of d and a path in e without a file.
<1>3. \A m \in M : /\ m[1] \in Paths /\ m[1][1] = d /\ m[1] = <<d, m[2][2]>>
                   /\ m[2] \in Paths /\ m[2][1] = e /\ dir[m[2]] = NoInode
  <2>. SUFFICES ASSUME NEW o \in files(d), <<e, o[2]>> \in Paths
                PROVE  /\ o \in Paths /\ o[1] = d /\ o = <<d, o[2]>>
                       /\ dir[<<e, o[2]>>] = NoInode
    BY <1>1
  <2>1. o \in Paths /\ o[1] = d
    BY DEF files
  <2>2. o = <<d, o[2]>>
    BY <2>1, CacheNamesAssumption
  <2>3. <<e, o[2]>> \notin files(e) /\ <<e, o[2]>>[1] = e
    BY <1>1
  <2>. QED
    BY <2>1, <2>2, <2>3 DEF files
<1>4. \A o \in files(d) : \E m \in M : m[1] = o
  <2>. TAKE o \in files(d)
  <2>1. <<o, <<e, o[2]>>>> \in M /\ <<o, <<e, o[2]>>>>[1] = o
    OBVIOUS
  <2>. HIDE DEF M
  <2>. QED
    BY <2>1
<1>5. M \in SUBSET (Paths \X Paths)
  BY <1>1 DEF files
<1>. HIDE DEF M
<1>6. mapping' \in [Paths -> Inodes \cup {NoInode}] /\ item' \in [Inodes -> Item]
  BY <1>1, <1>5, RenameItemsTypes
<1>7. dir' \in [Paths -> Inodes \cup {NoInode}]
  BY <1>2, <1>3 DEF TypeOK
<1>8. TypeOK'
  BY <1>1, <1>6, <1>7 DEF TypeOK
<1>9. \A u \in Threads : ~ changes_names(u) /\ call[u].pc # "name"
  BY <1>1, NamesFree DEF NamesInv
<1>10. \A u \in Threads : busy(u) => dir'[call[u].from] = dir[call[u].from]
  <2>. SUFFICES ASSUME NEW u \in Threads, busy(u)
                PROVE  dir'[call[u].from] = dir[call[u].from]
    OBVIOUS
  <2>1. call[u].from \in Paths /\ dir[call[u].from] # NoInode
    BY CallTypes DEF NamesInv, keeps_name
  <2>2. call[u].from[1] # d
    BY <1>1, <2>1 DEF used, files
  <2>. QED
    BY <1>2, <1>3, <2>1, <2>2
<1>11. MappedToOwnInode'
  <2>. SUFFICES ASSUME NEW o \in Paths, mapping'[o] # NoInode
                PROVE  mapping'[o] = names'[o]
    BY DEF MappedToOwnInode
  <2>1. names'[o] = dir'[o] /\ \A p \in Paths : names[p] = dir[p]
    BY <1>1, <1>9, NamesAre
  <2>2. \A p \in Paths : mapping[p] # NoInode => mapping[p] = dir[p]
    BY <2>1 DEF NamesInv, MappedToOwnInode
  <2>3. CASE \E m \in M : /\ mapping[m[1]] # NoInode /\ m[2] = o
                          /\ mapping'[o] = mapping[m[1]]
    <3>. PICK m \in M : mapping[m[1]] # NoInode /\ m[2] = o /\ mapping'[o] = mapping[m[1]]
      BY <2>3
    <3>. QED
      BY <1>2, <1>3, <2>1, <2>2
  <2>4. CASE mapping'[o] = IF \E m \in M : mapping[m[1]] # NoInode /\ m[1] = o
                           THEN NoInode ELSE mapping[o]
    <3>1. mapping'[o] = mapping[o] /\ mapping[o] = dir[o] /\ dir[o] # NoInode
      BY <2>2, <2>4
    <3>2. o[1] # d
      BY <1>4, <2>4, <3>1 DEF files
    <3>3. \A m \in M : m[2] # o
      BY <1>3, <3>1
    <3>. QED
      BY <1>2, <2>1, <3>1, <3>2, <3>3
  <2>. QED
    BY <1>1, <2>3, <2>4, RenamedEntry
<1>. QED
  BY <1>1, <1>8, <1>9, <1>10, <1>11, NoCallStep

LEMMA ClearStep ==
    ASSUME NamesInv, "clear" \notin Disturbances, nobody_waits, Clear
    PROVE  NamesInv'
<1>. TypeOK
  BY DEF NamesInv
<1>1. PICK first \in SUBSET Paths :
         mapping' = [p \in Paths |-> IF p \in first THEN NoInode ELSE mapping[p]]
  BY DEF Clear
<1>2. /\ \A t \in Threads : ~ busy(t)
      /\ item' = [i \in Inodes |-> NoItem] /\ UNCHANGED <<dir, disk, call>>
  BY DEF Clear, nobody_waits
<1>3. TypeOK'
  BY <1>1, <1>2, StartTypes DEF TypeOK
<1>4. \A t \in Threads : ~ changes_names(t)
  BY <1>2 DEF changes_names, busy, NameOps
<1>5. \A p \in Paths : names'[p] = names[p]
  BY <1>2, NamesAre
<1>6. MappedToOwnInode'
  BY <1>1, <1>5 DEF NamesInv, MappedToOwnInode
<1>. QED
  BY <1>2, <1>3, <1>4, <1>6, NoCallStep

LEMMA CheckpointStep ==
    ASSUME NamesInv, Checkpoint
    PROVE  NamesInv'
<1>. TypeOK
  BY DEF NamesInv
<1>1. PICK first \in SUBSET Paths :
         disk' = [i \in Inodes |->
            LET into == {p \in Paths : dir[p] = i /\ cached(mapping[p])}
                by   == CHOOSE p \in into : into \cap first # {} => p \in first
            IN  IF into = {} THEN disk[i]
                ELSE synced(disk[i],
                            [item[mapping[by]] EXCEPT !.dirty = @ /\ by \in first])]
  BY DEF Checkpoint
<1>2. /\ item' = [i \in Inodes |-> IF mapped(i) # {} THEN [item[i] EXCEPT !.dirty = FALSE]
                                                   ELSE item[i]]
      /\ UNCHANGED <<dir, mapping, call>>
  BY DEF Checkpoint
<1>3. disk' \in [Inodes -> Content]
  <2>. SUFFICES ASSUME NEW i \in Inodes PROVE disk'[i] \in Content
    BY <1>1
  <2>. DEFINE into == {p \in Paths : dir[p] = i /\ cached(mapping[p])}
              by   == CHOOSE p \in into : into \cap first # {} => p \in first
              it   == [item[mapping[by]] EXCEPT !.dirty = @ /\ by \in first]
  <2>1. disk'[i] = IF into = {} THEN disk[i] ELSE synced(disk[i], it)
    BY <1>1
  <2>2. CASE into # {}
    <3>1. \E p \in into : into \cap first # {} => p \in first
      BY <2>2
    <3>2. by \in into
      BY <3>1
    <3>. HIDE DEF by
    <3>3. mapping[by] \in Inodes /\ item[mapping[by]] \in Item
      BY <3>2 DEF cached, TypeOK
    <3>4. it \in Item
      BY <3>3 DEF Item
    <3>. HIDE DEF it
    <3>5. disk[i] \in Content /\ disk'[i] = synced(disk[i], it)
      BY <2>1, <2>2 DEF TypeOK
    <3>. QED
      BY <3>4, <3>5, SyncedType
  <2>. QED
    BY <2>1, <2>2 DEF TypeOK
<1>4. \A i \in Inodes : /\ [item[i] EXCEPT !.dirty = FALSE] \in Item
                        /\ [item[i] EXCEPT !.dirty = FALSE].nlinks = item[i].nlinks
  BY DEF TypeOK, Item
<1>5. item' \in [Inodes -> Item] /\ \A i \in Inodes : item'[i].nlinks = item[i].nlinks
  BY <1>2, <1>4 DEF TypeOK
<1>6. TypeOK'
  BY <1>2, <1>3, <1>5 DEF TypeOK
<1>7. \A p \in Paths : names'[p] = names[p]
  BY <1>2, NamesAre
<1>8. MappedToOwnInode'
  BY <1>2, <1>7 DEF NamesInv, MappedToOwnInode
<1>9. \A i \in Inodes : cached(i) => cached(i)'
  BY <1>5 DEF cached
<1>. QED
  BY <1>2, <1>6, <1>8, <1>9, NoCallStep

-----------------------------------------------------------------------------

LEMMA NextInv ==
    ASSUME NamesInv, IsFiniteSet(Paths), Disturbances \cap {"fail", "clear"} = {}, [Next]_vars
    PROVE  NamesInv'
<1>. "fail" \notin Disturbances /\ "clear" \notin Disturbances
  OBVIOUS
<1>1. ASSUME NEW t \in Threads, Step(t) PROVE NamesInv'
  BY <1>1, GetAttrStep, GetAttrNewStep, GetAttrFillStep, CreateItemStep, WriteSizeStep,
     WritePutStep, WriteStoreStep, SyncOwnerStep, LinkStep, LinkNameStep, UnlinkStep,
     RenameStep DEF Step
<1>2. CASE UNCHANGED vars
  <2>1. UNCHANGED <<dir, disk, mapping, item, call>>
    BY <1>2 DEF vars
  <2>2. TypeOK' /\ MappedToOwnInode' /\ \A i \in Inodes : cached(i) => cached(i)'
    BY <2>1 DEF NamesInv, TypeOK, MappedToOwnInode, names, cached
  <2>. QED
    BY <2>1, <2>2, NoCallStep
<1>. QED
  BY <1>1, <1>2, BeginStep, RenameDirStep, ClearStep, CheckpointStep DEF Next

\* Calls that change names keep the inodes and the items that their lfs_getattr found,
\* whichever other calls run, as long as unlink and rename below succeed and no clear
\* comes between a lookup and its call; and a name under way is used by nobody else.
\* That keeps lfs_link, lfs_unlink and lfs_rename from a wrong entry of the map.
THEOREM NamesInvariant ==
    ASSUME Disturbances \cap {"fail", "clear"} = {}, IsFiniteSet(Paths)
    PROVE  Spec => []NamesInv
<1>1. Init => NamesInv
  BY InitInv
<1>2. NamesInv /\ [Next]_vars => NamesInv'
  BY NextInv
<1>. QED
  BY <1>1, <1>2, PTL DEF Spec

\* Cache::file_inode_mapping never leads a path to the inode of another file, whatever
\* files are created under old names and numbers after links, unlinks and renames of
\* files and directories, of links of one file too, while calls overlap, and after a
\* clear that leaves entries behind, when nobody waits between a lookup and a call.
THEOREM PathsLeadToOwnInode ==
    ASSUME Disturbances \cap {"fail", "clear"} = {}, IsFiniteSet(Paths)
    PROVE  Spec => []MappedToOwnInode
<1>1. NamesInv => MappedToOwnInode
  BY DEF NamesInv
<1>. QED
  BY <1>1, NamesInvariant, PTL
=============================================================================
