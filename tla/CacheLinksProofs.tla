-------------------------- MODULE CacheLinksProofs --------------------------
(***************************************************************************)
(* Proofs about the link counts of the cached items in CacheNames, for any *)
(* number of names, inode numbers and threads.  They assume Disturbances = *)
(* {}: of the users, the applications and the file system below, what      *)
(* CacheNames states under "What is assumed".  The code does not provide   *)
(* it.                                                                     *)
(***************************************************************************)
EXTENDS CacheNamesProofs

-----------------------------------------------------------------------------
(* Counting the paths that a function gives one value.                     *)

paths_with(f, i) == {p \in Paths : f[p] = i}

LEMMA CountType ==
    ASSUME IsFiniteSet(Paths), NEW f, NEW i
    PROVE  /\ IsFiniteSet(paths_with(f, i)) /\ Cardinality(paths_with(f, i)) \in Nat
           /\ Cardinality(paths_with(f, i)) = 0 <=> paths_with(f, i) = {}
<1>1. IsFiniteSet(paths_with(f, i))
  BY FS_Subset DEF paths_with
<1>. QED
  BY <1>1, FS_CardinalityType, FS_EmptySet

\* The count when the value of one path q changes.
LEMMA CountAdd ==
    ASSUME IsFiniteSet(Paths), NEW f, NEW g, NEW i, NEW q \in Paths,
           \A p \in Paths : p # q => g[p] = f[p], f[q] # i, g[q] = i
    PROVE  Cardinality(paths_with(g, i)) = Cardinality(paths_with(f, i)) + 1
<1>1. q \notin paths_with(f, i) /\ paths_with(g, i) = paths_with(f, i) \cup {q}
  BY DEF paths_with
<1>. QED
  BY <1>1, CountType, FS_AddElement

LEMMA CountRemove ==
    ASSUME IsFiniteSet(Paths), NEW f, NEW g, NEW i, NEW q \in Paths,
           \A p \in Paths : p # q => g[p] = f[p], f[q] = i, g[q] # i
    PROVE  Cardinality(paths_with(g, i)) = Cardinality(paths_with(f, i)) - 1
<1>1. Cardinality(paths_with(f, i)) = Cardinality(paths_with(g, i)) + 1
  BY CountAdd
<1>. QED
  BY <1>1, CountType

LEMMA CountKeep ==
    ASSUME NEW f, NEW g, NEW i, \A p \in Paths : g[p] = i <=> f[p] = i
    PROVE  Cardinality(paths_with(g, i)) = Cardinality(paths_with(f, i))
<1>1. paths_with(g, i) = paths_with(f, i)
  BY DEF paths_with
<1>. QED
  BY <1>1

LEMMA NamesOf ==
    ASSUME NEW i
    PROVE  names_of(i) = paths_with(names, i) /\ names_of(i)' = paths_with(names', i)
BY DEF names_of, paths_with

\* A path is a name of its file.
LEMMA NamedCount ==
    ASSUME IsFiniteSet(Paths), NEW f, NEW p \in Paths
    PROVE  Cardinality(paths_with(f, f[p])) >= 1
<1>1. paths_with(f, f[p]) # {}
  BY DEF paths_with
<1>. QED
  BY <1>1, CountType

\* The paths of the files of one directory move to another.
LEMMA CountMoved ==
    ASSUME IsFiniteSet(Paths), NEW f, NEW g, NEW i, NEW h,
           \A p \in Paths : f[p] = i => h[p] \in Paths /\ g[h[p]] = i,
           \A p, q \in Paths : f[p] = i /\ f[q] = i /\ h[p] = h[q] => p = q,
           \A q \in Paths : g[q] = i => \E p \in Paths : f[p] = i /\ h[p] = q
    PROVE  Cardinality(paths_with(g, i)) = Cardinality(paths_with(f, i))
<1>. DEFINE F == paths_with(f, i)
            G == paths_with(g, i)
            b == [p \in F |-> h[p]]
<1>1. b \in Bijection(F, G)
  BY DEF paths_with, Bijection, Injection, Surjection, IsInjective
<1>2. ExistsBijection(F, G)
  BY <1>1 DEF ExistsBijection
<1>3. IsFiniteSet(F)
  BY CountType
<1>. HIDE DEF F, G
<1>4. Cardinality(G) = Cardinality(F)
  BY <1>2, <1>3, FS_Bijection
<1>. QED
  BY <1>4 DEF F, G

-----------------------------------------------------------------------------
(* The invariant, and what a step keeps of it.                             *)

LEMMA InitLinks ==
    ASSUME Init
    PROVE  LinksInv
<1>1. NamesInv
  BY InitInv
<1>2. \A t \in Threads : call[t] = NoCall
  BY DEF Init
<1>3. \A t \in Threads : counts_links(t)
  BY <1>2 DEF counts_links, past_getattr, NoCall
<1>4. OneMakesItem
  BY <1>2 DEF OneMakesItem, NoCall
<1>5. ItemCountsLinks
  BY DEF Init, ItemCountsLinks, settled, cached, NoItem
<1>. QED
  BY <1>1, <1>3, <1>4, <1>5 DEF LinksInv

\* Below, an inode without a set item has the names that the kernel knows: a link that
\* is under way is one of a file with a set item.
LEMMA LinksAreNames ==
    ASSUME LinksInv, NEW i \in Inodes, ~ settled(i)
    PROVE  links(i) = Cardinality(names_of(i))
<1>. SUFFICES ASSUME NEW p \in Paths, dir[p] = i PROVE names[p] = i
  <2>1. \A p \in Paths : names[p] = i => dir[p] = i
    BY NamesAre, CacheNamesAssumption
  <2>. QED
    BY <2>1 DEF links, names_of
<1>. SUFFICES ASSUME NEW u \in Threads, call[u].pc = "name", call[u].to = p PROVE FALSE
  BY NamesAre
<1>1. keeps_name(u) /\ counts_links(u)
  BY DEF LinksInv, NamesInv
<1>2. dir[call[u].from] = i
  BY <1>1 DEF keeps_name
<1>. QED
  BY <1>1, <1>2 DEF counts_links, past_getattr, has_item

\* A call that is not touched keeps its counts in a step that keeps what they are of.
keeps_counts(u) ==
    LET c == call[u]
    IN  /\ call'[u] = c
        /\ c.pc \in {"new", "fill"} =>
              /\ mapping'[c.at] = mapping[c.at]
              /\ Cardinality(paths_with(names', c.ino)) = Cardinality(paths_with(names, c.ino))
              /\ \A i \in Inodes : i = c.ino => (cached(i)' <=> cached(i))
        /\ busy(u) => dir'[c.from] = dir[c.from]
        /\ past_getattr(c) => /\ mapping'[c.from] = mapping[c.from]
                              /\ \A i \in Inodes : i = dir[c.from] => settled(i)'
        /\ c.op = "rename" =>
              /\ dir'[c.to] = dir[c.to]
              /\ c.pc = "ready" /\ dir[c.to] # NoInode =>
                    /\ mapping'[c.to] = mapping[c.to]
                    /\ \A i \in Inodes : i = dir[c.to] => settled(i)'

\* What the call r, to which thread t comes, needs.
LEMMA CountsThen ==
    ASSUME NEW t \in Threads, NEW r, call'[t] = r,
           r.pc \in {"new", "fill"} =>
              /\ mapping'[r.at] = r.ino
              /\ r.nlinks = Cardinality(names_of(r.ino)')
              /\ cached(r.ino)' <=> r.pc = "fill",
           r.pc \in {"put", "store"} => r.ino = dir'[r.from],
           past_getattr(r) => has_item(r.from)',
           r.op = "rename" =>
              /\ dir'[r.to] # dir'[r.from]
              /\ r.pc = "ready" /\ dir'[r.to] # NoInode => has_item(r.to)'
    PROVE  counts_links(t)'
<1>1. names_of(r.ino)' = names_of(call[t].ino)'
  BY NamesOf DEF names_of
<1>2. cached(r.ino)' <=> cached(call[t].ino)'
  BY DEF cached
<1>3. past_getattr(call[t])' <=> past_getattr(r)
  BY DEF past_getattr
<1>. QED
  BY <1>1, <1>2, <1>3 DEF counts_links

LEMMA PastIsBusy ==
    ASSUME NEW u \in Threads, keeps_name(u), past_getattr(call[u])
    PROVE  busy(u)
BY DEF keeps_name, busy, past_getattr

LEMMA KeptCounts ==
    ASSUME NamesInv, NEW u \in Threads, counts_links(u), keeps_counts(u)
    PROVE  counts_links(u)'
<1>. DEFINE c == call[u]
<1>1. TypeOK /\ c \in Call /\ keeps_name(u) /\ finds_name(u) /\ call'[u] = c
  BY CallTypes DEF NamesInv, keeps_counts
<1>2. past_getattr(c) => has_item(c.from)'
  <2>. SUFFICES ASSUME past_getattr(c) PROVE has_item(c.from)'
    OBVIOUS
  <2>1. busy(u) /\ has_item(c.from)
    BY <1>1, PastIsBusy DEF counts_links
  <2>2. dir[c.from] \in Inodes /\ dir'[c.from] = dir[c.from] /\ mapping'[c.from] = mapping[c.from]
    BY <1>1, <2>1 DEF keeps_counts, keeps_name, TypeOK, Call
  <2>3. \A i \in Inodes : i = dir[c.from] => settled(i)'
    BY DEF keeps_counts
  <2>. QED
    BY <1>1, <2>1, <2>2, <2>3 DEF has_item
<1>3. c.op = "rename" /\ c.pc = "ready" /\ dir[c.to] # NoInode => has_item(c.to)'
  <2>. SUFFICES ASSUME c.op = "rename", c.pc = "ready", dir[c.to] # NoInode PROVE has_item(c.to)'
    OBVIOUS
  <2>1. has_item(c.to)
    BY DEF counts_links
  <2>2. dir[c.to] \in Inodes /\ dir'[c.to] = dir[c.to] /\ mapping'[c.to] = mapping[c.to]
    BY <1>1 DEF keeps_counts, TypeOK, Call
  <2>3. \A i \in Inodes : i = dir[c.to] => settled(i)'
    BY DEF keeps_counts
  <2>. QED
    BY <1>1, <2>1, <2>2, <2>3 DEF has_item
<1>4. c.op = "rename" => dir'[c.to] # dir'[c.from]
  BY <1>1 DEF counts_links, keeps_counts, busy
<1>5. c.pc \in {"put", "store"} => c.ino = dir'[c.from]
  BY <1>1 DEF counts_links, keeps_counts, busy, keeps_name
<1>6. c.pc \in {"new", "fill"} =>
         /\ mapping'[c.at] = c.ino
         /\ c.nlinks = Cardinality(paths_with(names', c.ino))
         /\ \A i \in Inodes : i = c.ino => (cached(i)' <=> c.pc = "fill")
  BY NamesOf DEF counts_links, keeps_counts
<1>7. c.pc \in {"new", "fill"} => c.ino \in Inodes
  BY <1>1 DEF finds_name, Call
<1>8. c.pc \in {"new", "fill"} =>
         /\ mapping'[c.at] = c.ino
         /\ c.nlinks = Cardinality(names_of(c.ino)')
         /\ cached(c.ino)' <=> c.pc = "fill"
  <2>1. names_of(c.ino)' = paths_with(names', c.ino)
    BY <1>1, NamesOf
  <2>. QED
    BY <1>1, <1>6, <1>7, <2>1
<1>9. past_getattr(c)' => past_getattr(c)
  BY <1>1 DEF past_getattr
<1>10. c.op = "rename" /\ c.pc = "ready" /\ dir'[c.to] # NoInode => has_item(c.to)'
  BY <1>3 DEF keeps_counts
<1>. QED
  BY <1>1, <1>2, <1>4, <1>5, <1>8, <1>9, <1>10 DEF counts_links

\* The items being made after a step of thread t.
LEMMA FreshStep ==
    ASSUME TypeOK, NEW t \in Threads, NEW r, call' = [call EXCEPT ![t] = r], NEW i
    PROVE  fresh(i)' <=> \/ \E u \in others(t) : call[u].ino = i /\ call[u].pc \in {"new", "fill"}
                         \/ r.ino = i /\ r.pc \in {"new", "fill"}
<1>1. call'[t] = r /\ \A u \in others(t) : u \in Threads /\ call'[u] = call[u]
  BY DEF TypeOK, others
<1>2. \A u \in Threads : u = t \/ u \in others(t)
  BY DEF others
<1>. QED
  BY <1>1, <1>2 DEF fresh

\* A step of thread t that keeps what the other threads' calls have.
LEMMA OneThreadLinks ==
    ASSUME LinksInv, NamesInv', NEW t \in Threads, NEW r, call' = [call EXCEPT ![t] = r],
           \A u \in others(t) : keeps_counts(u),
           r.pc \in {"new", "fill"} => ~ creating(t, r.ino),
           counts_links(t)', ItemCountsLinks'
    PROVE  LinksInv'
<1>1. NamesInv /\ TypeOK
  BY DEF LinksInv, NamesInv
<1>2. call'[t] = r /\ \A u \in others(t) : u \in Threads /\ call'[u] = call[u]
  BY <1>1 DEF TypeOK, others
<1>3. \A u \in Threads : u = t \/ u \in others(t)
  BY DEF others
<1>4. \A u \in others(t) : counts_links(u)'
  BY <1>1, <1>2, KeptCounts DEF LinksInv
<1>5. \A u \in others(t) : r.pc \in {"new", "fill"} /\ call[u].pc \in {"new", "fill"} =>
                             call[u].ino # r.ino
  BY <1>2 DEF creating
<1>6. OneMakesItem'
  <2>. SUFFICES ASSUME NEW u \in Threads, NEW v \in Threads, call'[u].ino = call'[v].ino,
                       call'[u].pc \in {"new", "fill"}, call'[v].pc \in {"new", "fill"}
                PROVE  u = v
    BY DEF OneMakesItem
  <2>1. CASE u \in others(t) /\ v \in others(t)
    BY <1>2, <2>1 DEF LinksInv, OneMakesItem
  <2>. QED
    BY <1>2, <1>3, <1>5, <2>1
<1>7. \A u \in Threads : counts_links(u)'
  BY <1>3, <1>4
<1>. QED
  BY <1>6, <1>7 DEF LinksInv

\* No link begins or ends.
LEMMA SameNames ==
    ASSUME TypeOK, NEW t \in Threads, NEW r, call' = [call EXCEPT ![t] = r],
           dir' = dir, call[t].pc # "name", r.pc # "name"
    PROVE  /\ \A p \in Paths : names'[p] = names[p]
           /\ \A i : Cardinality(names_of(i)') = Cardinality(names_of(i))
<1>1. call'[t] = r /\ \A u \in others(t) : u \in Threads /\ call'[u] = call[u]
  BY DEF TypeOK, others
<1>2. \A p \in Paths : names'[p] = names[p]
  BY <1>1, NamesAre DEF others
<1>. QED
  BY <1>2, NamesOf, CountKeep

\* A step of thread t that changes no name.
LEMMA QuietStep ==
    ASSUME LinksInv, NamesInv', NEW t \in Threads, NEW r, call' = [call EXCEPT ![t] = r],
           dir' = dir, call[t].pc # "name", r.pc # "name",
           \A p \in Paths : mapping[p] # NoInode => mapping'[p] = mapping[p],
           r.pc \in {"new", "fill"} => ~ creating(t, r.ino) /\ ~ settled(r.ino),
           \A u \in others(t) : call[u].pc \in {"new", "fill"} =>
              \A i \in Inodes : i = call[u].ino => (cached(i)' <=> cached(i)),
           \A i \in Inodes : settled(i) => cached(i)' /\ item'[i].nlinks = item[i].nlinks,
           \A i \in Inodes : settled(i)' /\ ~ settled(i) =>
              item'[i].nlinks = Cardinality(names_of(i)),
           counts_links(t)'
    PROVE  LinksInv'
<1>1. NamesInv /\ TypeOK
  BY DEF LinksInv, NamesInv
<1>2. call'[t] = r /\ \A u \in others(t) : u \in Threads /\ call'[u] = call[u]
  BY <1>1 DEF TypeOK, others
<1>3. \A p \in Paths : names'[p] = names[p]
  BY <1>1, SameNames
<1>4. \A i : Cardinality(names_of(i)') = Cardinality(names_of(i))
  BY <1>1, SameNames
<1>5. \A i \in Inodes : settled(i) => settled(i)'
  BY <1>1, FreshStep DEF settled, fresh, others
<1>6. ItemCountsLinks'
  BY <1>4 DEF LinksInv, ItemCountsLinks
<1>7. ASSUME NEW u \in others(t) PROVE keeps_counts(u)
  <2>. DEFINE c == call[u]
  <2>1. c \in Call /\ keeps_name(u) /\ finds_name(u) /\ counts_links(u) /\ call'[u] = c
    BY <1>1, <1>2, <1>7, CallTypes DEF NamesInv, LinksInv
  <2>2. c.pc \in {"new", "fill"} => mapping'[c.at] = mapping[c.at]
    BY <2>1 DEF Call, counts_links, finds_name
  <2>3. Cardinality(paths_with(names', c.ino)) = Cardinality(paths_with(names, c.ino))
    BY <1>4, NamesOf
  <2>4. past_getattr(c) => /\ mapping'[c.from] = mapping[c.from]
                           /\ \A i \in Inodes : i = dir[c.from] => settled(i)'
    BY <1>1, <1>5, <2>1, PastIsBusy DEF counts_links, has_item, settled, cached, Call
  <2>5. c.op = "rename" /\ c.pc = "ready" /\ dir[c.to] # NoInode =>
           /\ mapping'[c.to] = mapping[c.to]
           /\ \A i \in Inodes : i = dir[c.to] => settled(i)'
    BY <1>1, <1>5, <2>1 DEF counts_links, has_item, settled, cached, Call
  <2>. QED
    BY <1>7, <2>1, <2>2, <2>3, <2>4, <2>5 DEF keeps_counts
<1>. QED
  BY <1>6, <1>7, OneThreadLinks

-----------------------------------------------------------------------------
(* The steps that change no name.                                          *)

\* Where a call goes from lfs_getattr, once it has the item of its name.
LEMMA ResumedCounts ==
    ASSUME TypeOK, NEW c \in Call, named(c)
    PROVE  LET r == resumed(c)
           IN  /\ r.op = "none" \/ (r.op = c.op /\ r.from = c.from /\ r.to = c.to)
               /\ r.pc \notin {"new", "fill", "put", "store"}
               /\ r.op = "none" => ~ past_getattr(r)
               /\ r.op = "rename" /\ r.pc = "ready" =>
                     c.at # c.from \/ dir[c.to] = NoInode
<1>1. c.op \in Ops
  BY DEF Call
<1>2. CASE c.op = "getattr"
  BY <1>2, StartTypes DEF resumed, NoCall, past_getattr
<1>3. CASE c.op \in {"create", "write", "fsync"}
  BY <1>3, StartTypes DEF resumed, Call, named
<1>4. CASE c.op \in {"link", "unlink"}
  BY <1>4, StartTypes DEF resumed, Call, named
<1>5. CASE c.op = "rename" /\ c.at = c.from /\ dir[c.to] # NoInode
  BY <1>5, StartTypes DEF resumed, Call, named
<1>6. CASE c.op = "rename" /\ ~ (c.at = c.from /\ dir[c.to] # NoInode)
  BY <1>6, StartTypes DEF resumed, Call, named
<1>. QED
  BY <1>1, <1>2, <1>3, <1>4, <1>5, <1>6 DEF Ops, NameOps, named

\* lfs_getattr at a name: the item of its file is there and set, or it is made with the
\* count of the file's names.
LEMMA LooksUpLinks ==
    ASSUME LinksInv, NamesInv', IsFiniteSet(Paths), Disturbances = {},
           NEW t \in Threads, NEW c \in Call, named(c),
           call[t].pc \notin {"name", "new", "fill"}, c.pc # "name", names[c.at] = dir[c.at],
           c.op = "rename" => dir[c.to] # dir[c.from],
           c.at # c.from => has_item(c.from),
           item_at_rest(t, c.at), getattr(t, c), UNCHANGED <<dir, disk, item>>
    PROVE  LinksInv'
<1>. DEFINE p == c.at
<1>0. dir' = dir /\ (c.op = "rename" => dir'[c.to] # dir'[c.from])
  OBVIOUS
<1>1. /\ NamesInv /\ TypeOK
      /\ p \in Paths /\ c.from \in Paths /\ c.to \in Paths /\ c.op \in Ops
  BY DEF LinksInv, NamesInv, Call
<1>. PICK i : i = inode_of(p)
  OBVIOUS
<1>. PICK n : n = [c EXCEPT !.pc = "new", !.ino = i,
                            !.size = disk[dir[p]].size, !.nlinks = links(dir[p])]
  OBVIOUS
<1>. PICK r : r = IF cached(i) THEN resumed(c) ELSE n
  OBVIOUS
<1>2. dir[p] \in Inodes /\ i = dir[p] /\ i # NoInode
  BY <1>1, CacheNamesAssumption DEF inode_of, TypeOK, named, NamesInv, MappedToOwnInode
<1>3. /\ mapping' = [mapping EXCEPT ![p] = i] /\ call' = [call EXCEPT ![t] = r]
      /\ ~ creating(t, i)
  BY DEF getattr, begin, inode_of, item_at_rest
<1>4. mapping'[p] = i /\ \A q \in Paths : mapping[q] # NoInode => mapping'[q] = mapping[q]
  BY <1>1, <1>2, <1>3 DEF inode_of, TypeOK, NamesInv, MappedToOwnInode
<1>5. /\ n.pc = "new" /\ n.ino = i /\ n.nlinks = links(i) /\ n.op = c.op
      /\ n.from = c.from /\ n.to = c.to /\ n.at = p
  BY <1>2 DEF Call
<1>6. call'[t] = r /\ r.pc # "name"
  <2>1. cached(i) => r.pc # "name"
    BY <1>1, Resumed
  <2>. QED
    BY <1>1, <1>3, <1>5, <2>1 DEF TypeOK
<1>7. \A j : cached(j)' <=> cached(j)
  BY DEF cached
<1>8. ~ (r.pc \in {"new", "fill"}) \/ (r = n /\ ~ cached(i))
  BY <1>1, Resumed
<1>9. \A j \in Inodes : settled(j)' => settled(j)
  BY <1>1, <1>3, <1>7, FreshStep DEF settled, fresh, others
<1>10. cached(i) => settled(i) /\ settled(i)'
  <2>. SUFFICES ASSUME cached(i) PROVE settled(i) /\ settled(i)'
    OBVIOUS
  <2>1. ~ fresh(i)
    BY <1>3 DEF creating, fresh, others
  <2>2. ~ fresh(i)'
    BY <1>1, <1>3, <1>8, <2>1, FreshStep DEF fresh, others
  <2>. QED
    BY <1>7, <2>1, <2>2 DEF settled
<1>11. \A j \in Inodes : settled(j) => settled(j)'
  BY <1>1, <1>3, <1>5, <1>7, <1>8, FreshStep DEF settled, fresh, others
<1>12. \A q \in Paths : has_item(q) /\ dir[q] # NoInode => has_item(q)'
  BY <1>1, <1>4, <1>11 DEF has_item, TypeOK
<1>13. cached(i) => has_item(p)'
  BY <1>2, <1>4, <1>10 DEF has_item
<1>14. \A j : Cardinality(names_of(j)') = Cardinality(names_of(j))
  BY <1>1, <1>3, <1>6, SameNames
<1>15. counts_links(t)'
  <2>1. CASE cached(i)
    <3>1. r = resumed(c)
      BY <2>1
    <3>2. /\ r.op = "none" \/ (r.op = c.op /\ r.from = c.from /\ r.to = c.to)
          /\ r.pc \notin {"new", "fill", "put", "store"}
          /\ r.op = "none" => ~ past_getattr(r)
          /\ r.op = "rename" /\ r.pc = "ready" => c.at # c.from \/ dir[c.to] = NoInode
      BY <1>1, <3>1, ResumedCounts
    <3>3. has_item(c.from)'
      BY <1>1, <1>12, <1>13, <2>1 DEF named
    <3>4. c.op = "rename" /\ c.at # c.from => has_item(c.to)'
      BY <1>13, <2>1 DEF named
    <3>5. past_getattr(r) => has_item(r.from)'
      BY <3>2, <3>3
    <3>6. r.op = "rename" =>
             /\ dir'[r.to] # dir'[r.from]
             /\ r.pc = "ready" /\ dir'[r.to] # NoInode => has_item(r.to)'
      BY <3>2, <3>4 DEF named
    <3>. QED
      BY <1>6, <3>2, <3>5, <3>6, CountsThen
  <2>2. CASE ~ cached(i)
    <3>1. r = n
      BY <2>2
    <3>2. past_getattr(r) => has_item(r.from)'
      BY <1>1, <1>5, <1>12, <3>1 DEF past_getattr, named
    <3>3. r.ino = i /\ r.nlinks = Cardinality(names_of(r.ino)')
      BY <1>2, <1>5, <1>14, <2>2, <3>1, LinksAreNames DEF settled
    <3>4. ~ cached(r.ino)'
      BY <1>7, <2>2, <3>3
    <3>5. r.op = "rename" => dir'[r.to] # dir'[r.from]
      BY <1>0, <1>5, <3>1
    <3>6. r.pc = "new" /\ mapping'[r.at] = r.ino /\ call'[t] = r
      BY <1>4, <1>5, <1>6, <3>1
    <3>. QED
      BY <3>2, <3>3, <3>4, <3>5, <3>6, CountsThen
  <2>. QED
    BY <2>1, <2>2
<1>16. \A u \in others(t) : call[u].pc \in {"new", "fill"} =>
          \A j \in Inodes : j = call[u].ino => (cached(j)' <=> cached(j))
  BY <1>7
<1>17. r.pc \in {"new", "fill"} => ~ creating(t, r.ino) /\ ~ settled(r.ino)
  BY <1>3, <1>5, <1>8 DEF settled
<1>18. \A j \in Inodes : settled(j) => cached(j)' /\ item'[j].nlinks = item[j].nlinks
  BY <1>7 DEF settled
<1>. QED
  BY <1>3, <1>4, <1>6, <1>9, <1>15, <1>16, <1>17, <1>18, QuietStep

\* The call that lfs_getattr serves is at a name that the kernel knows.
LEMMA GetAttrServes ==
    ASSUME LinksInv, NEW t \in Threads, call[t].pc = "getattr"
    PROVE  call[t] \in Call /\ named(call[t]) /\ names[call[t].at] = dir[call[t].at]
<1>. PICK c : c = call[t]
  OBVIOUS
<1>1. NamesInv /\ TypeOK /\ keeps_name(t) /\ finds_name(t) /\ c \in Call /\ c.pc = "getattr"
  BY CallTypes DEF LinksInv, NamesInv
<1>2. named(c) /\ busy(t)
  BY <1>1 DEF named, keeps_name, finds_name, busy, NameOps
<1>. SUFFICES ASSUME NEW u \in Threads, call[u].pc = "name", call[u].to = c.at
              PROVE  FALSE
  BY <1>1, <1>2, NamesAre DEF Call
<1>3. c.from # c.at
  BY <1>1, <1>2 DEF NamesInv, NewNameUnused
<1>4. c.op = "rename" /\ call[u].op = "link" /\ keeps_name(u)
  BY <1>1, <1>2, <1>3 DEF named, NamesInv, keeps_name
<1>. QED
  BY <1>1, <1>4 DEF NamesInv, OneChangesNames, changes_names, NameOps

LEMMA FillServes ==
    ASSUME LinksInv, NEW t \in Threads, call[t].pc = "fill"
    PROVE  named(call[t])
<1>1. keeps_name(t) /\ finds_name(t)
  BY DEF LinksInv, NamesInv
<1>. QED
  BY <1>1 DEF named, keeps_name, finds_name, busy, NameOps

LEMMA GetAttrLinks ==
    ASSUME LinksInv, IsFiniteSet(Paths), Disturbances = {}, NEW t \in Threads,
           item_at_rest(t, call[t].at), GetAttr(t)
    PROVE  LinksInv'
<1>. DEFINE c == call[t]
<1>1. NamesInv'
  BY GetAttrStep DEF LinksInv
<1>2. counts_links(t) /\ c.pc = "getattr"
  BY DEF LinksInv, GetAttr
<1>3. c \in Call /\ named(c) /\ names[c.at] = dir[c.at]
  BY <1>2, GetAttrServes
<1>5. c.op = "rename" => dir[c.to] # dir[c.from]
  BY <1>2 DEF counts_links
<1>6. c.at # c.from => has_item(c.from)
  BY <1>2 DEF counts_links, past_getattr
<1>7. getattr(t, c) /\ UNCHANGED <<dir, disk, item>>
  BY DEF GetAttr
<1>. QED
  BY <1>1, <1>2, <1>3, <1>5, <1>6, <1>7, LooksUpLinks

\* The item that a thread makes is not set, and another thread makes another one.
LEMMA MadeByOne ==
    ASSUME LinksInv, NEW t \in Threads, call[t].pc \in {"new", "fill"}
    PROVE  /\ call[t].ino \in Inodes /\ fresh(call[t].ino) /\ ~ settled(call[t].ino)
           /\ ~ creating(t, call[t].ino)
           /\ \A u \in others(t) :
                 call[u].pc \in {"new", "fill"} => call[u].ino # call[t].ino
<1>1. TypeOK /\ finds_name(t) /\ call[t] \in Call
  BY CallTypes DEF LinksInv, NamesInv
<1>2. call[t].ino \in Inodes
  BY <1>1 DEF finds_name, Call
<1>3. fresh(call[t].ino)
  BY DEF fresh
<1>4. \A u \in others(t) : call[u].pc \in {"new", "fill"} => call[u].ino # call[t].ino
  BY DEF others, LinksInv, OneMakesItem
<1>. QED
  BY <1>2, <1>3, <1>4 DEF settled, creating

LEMMA GetAttrNewLinks ==
    ASSUME LinksInv, NEW t \in Threads, GetAttrNew(t)
    PROVE  LinksInv'
<1>. PICK c : c = call[t]
  OBVIOUS
<1>. PICK i : i = c.ino
  OBVIOUS
<1>. PICK r : r = [c EXCEPT !.pc = "fill"]
  OBVIOUS
<1>1. NamesInv'
  BY GetAttrNewStep DEF LinksInv
<1>2. TypeOK /\ counts_links(t) /\ c \in Call /\ c.pc = "new" /\ keeps_name(t)
  BY CallTypes DEF LinksInv, NamesInv, GetAttrNew
<1>3. i \in Inodes /\ ~ settled(i) /\ ~ creating(t, i)
  BY <1>2, MadeByOne
<1>4. /\ r.pc = "fill" /\ r.op = c.op /\ r.from = c.from /\ r.to = c.to
      /\ r.at = c.at /\ r.ino = i /\ r.nlinks = c.nlinks
  BY <1>2 DEF Call
<1>5. call' = [call EXCEPT ![t] = r] /\ call'[t] = r /\ UNCHANGED <<dir, mapping>>
  BY <1>2 DEF GetAttrNew, goto, TypeOK
<1>6. ~ cached(i) /\ item' = [item EXCEPT ![i] = NewItem]
  BY <1>2 DEF counts_links, GetAttrNew
<1>7. cached(i)' /\ \A j \in Inodes : j # i => item'[j] = item[j]
  BY <1>2, <1>3, <1>6, StartTypes, CacheNamesAssumption DEF cached, TypeOK
<1>8. \A j \in Inodes : settled(j) => cached(j)' /\ item'[j].nlinks = item[j].nlinks
  BY <1>3, <1>7 DEF settled, cached
<1>9. \A u \in others(t) : call[u].pc \in {"new", "fill"} =>
         \A j \in Inodes : j = call[u].ino => (cached(j)' <=> cached(j))
  BY <1>2, <1>7, MadeByOne DEF cached
<1>10. fresh(i)'
  BY <1>4, <1>5 DEF fresh
<1>11. \A j \in Inodes : settled(j)' => settled(j)
  BY <1>2, <1>4, <1>5, <1>7, <1>10, FreshStep DEF settled, cached, fresh, others
<1>12. \A j : Cardinality(names_of(j)') = Cardinality(names_of(j))
  BY <1>2, <1>4, <1>5, SameNames
<1>13. counts_links(t)'
  <2>1. mapping'[r.at] = r.ino /\ r.nlinks = Cardinality(names_of(r.ino)')
    <3>1. mapping[c.at] = i /\ c.nlinks = Cardinality(names_of(i))
      BY <1>2 DEF counts_links
    <3>. QED
      BY <1>4, <1>5, <1>12, <3>1
  <2>2. cached(r.ino)'
    BY <1>4, <1>7
  <2>3. past_getattr(r) => has_item(r.from)'
    <3>1. past_getattr(r) => past_getattr(c)
      BY <1>4 DEF past_getattr
    <3>2. past_getattr(c) => has_item(c.from)
      BY <1>2 DEF counts_links
    <3>3. \A j \in Inodes : settled(j) => settled(j)'
      BY <1>2, <1>3, <1>4, <1>5, <1>8, FreshStep DEF settled, fresh, others
    <3>4. past_getattr(c) => dir[c.from] \in Inodes
      BY <1>2, PastIsBusy DEF keeps_name, TypeOK, Call
    <3>. QED
      BY <1>4, <1>5, <3>1, <3>2, <3>3, <3>4 DEF has_item
  <2>4. r.op = "rename" => dir'[r.to] # dir'[r.from]
    BY <1>2, <1>4, <1>5 DEF counts_links
  <2>. QED
    BY <1>4, <1>5, <2>1, <2>2, <2>3, <2>4, CountsThen
<1>14. r.pc \in {"new", "fill"} => ~ creating(t, r.ino) /\ ~ settled(r.ino)
  BY <1>3, <1>4
<1>15. call[t].pc # "name" /\ r.pc # "name"
  BY <1>2, <1>4
<1>. QED
  BY <1>1, <1>5, <1>8, <1>9, <1>11, <1>13, <1>14, <1>15, QuietStep

LEMMA GetAttrFillLinks ==
    ASSUME LinksInv, NEW t \in Threads, GetAttrFill(t)
    PROVE  LinksInv'
<1>. PICK c : c = call[t]
  OBVIOUS
<1>. PICK i : i = c.ino
  OBVIOUS
<1>. PICK r : r = resumed(c)
  OBVIOUS
<1>1. NamesInv'
  BY GetAttrFillStep DEF LinksInv
<1>2. /\ NamesInv /\ TypeOK /\ counts_links(t) /\ c \in Call /\ c.pc = "fill"
      /\ keeps_name(t) /\ finds_name(t)
  BY CallTypes DEF LinksInv, NamesInv, GetAttrFill
<1>3. named(c) /\ busy(t)
  BY <1>2 DEF named, keeps_name, finds_name, busy, NameOps
<1>4. i \in Inodes /\ ~ settled(i) /\ ~ creating(t, i)
  BY <1>2, MadeByOne
<1>5. cached(i) /\ mapping[c.at] = i /\ c.nlinks = Cardinality(names_of(i))
  BY <1>2 DEF counts_links
<1>6. /\ r.op = "none" \/ (r.op = c.op /\ r.from = c.from /\ r.to = c.to)
      /\ r.pc \notin {"name", "new", "fill", "put", "store"}
      /\ r.op = "none" => ~ past_getattr(r)
      /\ r.op = "rename" /\ r.pc = "ready" => c.at # c.from \/ dir[c.to] = NoInode
  BY <1>2, <1>3, Resumed, ResumedCounts
<1>7. call' = [call EXCEPT ![t] = r] /\ call'[t] = r /\ UNCHANGED <<dir, mapping>>
  BY <1>2 DEF GetAttrFill, begin, TypeOK
<1>8. item' = [item EXCEPT ![i] = [item[i] EXCEPT !.size = c.size, !.nlinks = c.nlinks]]
  BY <1>2, <1>4, <1>5 DEF GetAttrFill, TypeOK
<1>9. item'[i].nlinks = c.nlinks /\ \A j \in Inodes : j # i => item'[j] = item[j]
  BY <1>2, <1>4, <1>8 DEF TypeOK, Item
<1>10. \A j \in Inodes : cached(j)' <=> cached(j)
  <2>1. c.nlinks \in Nat /\ c.nlinks >= 1
    BY <1>2 DEF finds_name, Call
  <2>. QED
    BY <1>2, <1>4, <1>5, <1>9, <2>1 DEF cached
<1>11. \A j \in Inodes : settled(j) => cached(j)' /\ item'[j].nlinks = item[j].nlinks
  BY <1>4, <1>9, <1>10 DEF settled
<1>12. \A j \in Inodes : settled(j)' /\ ~ settled(j) => j = i
  BY <1>2, <1>6, <1>7, <1>10, FreshStep DEF settled, fresh, others
<1>13. \A j \in Inodes : settled(j) => settled(j)'
  BY <1>2, <1>6, <1>7, <1>10, FreshStep DEF settled, fresh, others
<1>14. settled(i)'
  <2>1. ~ \E u \in others(t) : call[u].ino = i /\ call[u].pc \in {"new", "fill"}
    BY <1>4 DEF creating
  <2>2. ~ fresh(i)'
    BY <1>2, <1>6, <1>7, <2>1, FreshStep DEF fresh, others
  <2>. QED
    BY <1>4, <1>5, <1>10, <2>2 DEF settled
<1>15. has_item(c.at)'
  <2>1. c.at \in Paths /\ i # NoInode
    BY <1>2, <1>4, CacheNamesAssumption DEF Call
  <2>2. dir[c.at] = i
    BY <1>2, <1>5, <2>1, NamesAre DEF NamesInv, MappedToOwnInode
  <2>. QED
    BY <1>5, <1>7, <1>14, <2>2 DEF has_item
<1>16. c.at # c.from => has_item(c.from)'
  <2>. SUFFICES ASSUME c.at # c.from PROVE has_item(c.from)'
    OBVIOUS
  <2>1. has_item(c.from) /\ dir[c.from] \in Inodes
    BY <1>2, <1>3 DEF counts_links, past_getattr, keeps_name, TypeOK, Call
  <2>. QED
    BY <1>7, <1>13, <2>1 DEF has_item
<1>17. counts_links(t)'
  <2>1. past_getattr(r) => has_item(r.from)'
    BY <1>6, <1>15, <1>16
  <2>2. r.op = "rename" =>
           /\ dir'[r.to] # dir'[r.from]
           /\ r.pc = "ready" /\ dir'[r.to] # NoInode => has_item(r.to)'
    BY <1>2, <1>3, <1>6, <1>7, <1>15 DEF counts_links, named
  <2>. QED
    BY <1>6, <1>7, <2>1, <2>2, CountsThen
<1>18. \A u \in others(t) : call[u].pc \in {"new", "fill"} =>
          \A j \in Inodes : j = call[u].ino => (cached(j)' <=> cached(j))
  BY <1>10
<1>19. \A j \in Inodes : settled(j)' /\ ~ settled(j) => item'[j].nlinks = Cardinality(names_of(j))
  BY <1>5, <1>9, <1>12
<1>. QED
  BY <1>1, <1>2, <1>6, <1>7, <1>11, <1>17, <1>18, <1>19, QuietStep

\* A step of a call that has its item, which keeps the links of every item.
LEMMA ItemStep ==
    ASSUME LinksInv, NamesInv', NEW t \in Threads, NEW r, call' = [call EXCEPT ![t] = r],
           UNCHANGED <<dir, mapping>>,
           call[t].pc \in {"made", "size", "put", "store", "sync"},
           r.pc \notin {"new", "fill", "name", "ready"},
           r.op = "rename" => dir[r.to] # dir[r.from],
           r.pc \in {"put", "store"} => r.ino = dir[r.from],
           past_getattr(r) => r.from = call[t].from,
           \A i \in Inodes : item'[i].nlinks = item[i].nlinks
    PROVE  LinksInv'
<1>1. TypeOK /\ counts_links(t) /\ keeps_name(t) /\ call[t] \in Call
  BY CallTypes DEF LinksInv, NamesInv
<1>2. \A i \in Inodes : cached(i)' <=> cached(i)
  BY DEF cached
<1>3. \A i \in Inodes : settled(i)' <=> settled(i)
  BY <1>1, <1>2, FreshStep DEF settled, fresh, others
<1>4. call'[t] = r
  BY <1>1 DEF TypeOK
<1>5. has_item(call[t].from) /\ dir[call[t].from] \in Inodes
  BY <1>1 DEF counts_links, past_getattr, keeps_name, busy, TypeOK, Call
<1>6. past_getattr(r) => has_item(r.from)'
  BY <1>3, <1>5 DEF has_item
<1>7. counts_links(t)'
  BY <1>4, <1>6, CountsThen
<1>8. \A i \in Inodes : settled(i) => cached(i)' /\ item'[i].nlinks = item[i].nlinks
  BY <1>2 DEF settled
<1>. QED
  BY <1>2, <1>3, <1>7, <1>8, QuietStep

LEMMA ReturnsLinks ==
    ASSUME LinksInv, NamesInv', NEW t \in Threads, return(t), UNCHANGED <<dir, mapping>>,
           call[t].pc \in {"made", "size", "put", "store", "sync"},
           \A i \in Inodes : item'[i].nlinks = item[i].nlinks
    PROVE  LinksInv'
<1>1. call' = [call EXCEPT ![t] = NoCall] /\ NoCall.op = "none" /\ NoCall.pc = "idle"
  BY Returned DEF LinksInv, NamesInv
<1>2. ~ past_getattr(NoCall)
  BY DEF past_getattr, NoCall
<1>. QED
  BY <1>1, <1>2, ItemStep

\* A call that is past lfs_getattr has the item of its file.
LEMMA HasItem ==
    ASSUME LinksInv, NEW t \in Threads, past_getattr(call[t])
    PROVE  LET p == call[t].from
           IN  /\ p \in Paths /\ dir[p] \in Inodes /\ dir[p] # NoInode
               /\ mapping[p] = dir[p] /\ cached(dir[p]) /\ settled(dir[p])
               /\ names[p] = dir[p] /\ item[dir[p]] \in Item
<1>1. /\ TypeOK /\ counts_links(t) /\ keeps_name(t) /\ call[t].from \in Paths
      /\ MappedToOwnInode
  BY CallTypes DEF LinksInv, NamesInv
<1>2. dir[call[t].from] \in Inodes /\ dir[call[t].from] # NoInode
  BY <1>1, PastIsBusy DEF keeps_name, TypeOK
<1>. QED
  BY <1>1, <1>2 DEF counts_links, has_item, settled, MappedToOwnInode, TypeOK

LEMMA CreateItemLinks ==
    ASSUME LinksInv, NEW t \in Threads, CreateItem(t)
    PROVE  LinksInv'
<1>1. call[t].pc = "made" /\ return(t) /\ UNCHANGED <<dir, mapping>>
  BY DEF CreateItem
<1>2. cached(dir[call[t].from])
  BY <1>1, HasItem DEF past_getattr
<1>3. item' = item
  BY <1>2 DEF CreateItem
<1>. QED
  BY <1>1, <1>3, CreateItemStep, ReturnsLinks DEF LinksInv

LEMMA WriteSizeLinks ==
    ASSUME LinksInv, NEW t \in Threads, WriteSize(t)
    PROVE  LinksInv'
<1>. PICK c : c = call[t]
  OBVIOUS
<1>. PICK n : n = IF cached(mapping[c.from]) THEN item[mapping[c.from]].size
                  ELSE disk[dir[c.from]].size
  OBVIOUS
<1>. PICK r : r = [c EXCEPT !.pc = "put", !.ino = mapping[c.from], !.before = n]
  OBVIOUS
<1>1. c.pc = "size" /\ c \in Call /\ keeps_name(t) /\ past_getattr(c)
  BY CallTypes DEF WriteSize, LinksInv, NamesInv, past_getattr
<1>2. call' = [call EXCEPT ![t] = r] /\ UNCHANGED <<dir, mapping, item>>
  BY DEF WriteSize, begin
<1>3. /\ r.pc = "put" /\ r.op = c.op /\ r.from = c.from /\ r.to = c.to /\ r.at = c.at
      /\ r.ino = mapping[c.from]
  BY <1>1 DEF Call
<1>4. mapping[c.from] = dir[c.from] /\ (c.op = "rename" => dir[c.to] # dir[c.from])
  BY <1>1, HasItem DEF LinksInv, counts_links
<1>. QED
  BY <1>1, <1>2, <1>3, <1>4, WriteSizeStep, ItemStep DEF LinksInv

LEMMA WritePutLinks ==
    ASSUME LinksInv, NEW t \in Threads, WritePut(t)
    PROVE  LinksInv'
<1>. PICK c : c = call[t]
  OBVIOUS
<1>. PICK i : i = c.ino
  OBVIOUS
<1>. PICK r : r = [c EXCEPT !.pc = "store", !.tag = Zero]
  OBVIOUS
<1>1. c.pc = "put" /\ c \in Call /\ past_getattr(c) /\ counts_links(t) /\ TypeOK
  BY CallTypes DEF WritePut, LinksInv, NamesInv, past_getattr
<1>2. i = dir[c.from] /\ cached(i) /\ i \in Inodes /\ item[i] \in Item
  BY <1>1, HasItem DEF counts_links
<1>3. /\ call' = [call EXCEPT ![t] = r] /\ UNCHANGED <<dir, mapping>>
      /\ item' = [item EXCEPT ![i] = [item[i] EXCEPT !.tag = c.tag, !.dirty = TRUE]]
  BY <1>1, <1>2 DEF WritePut, begin, TypeOK
<1>4. /\ r.pc = "store" /\ r.op = c.op /\ r.from = c.from /\ r.to = c.to /\ r.at = c.at
      /\ r.ino = i
  BY <1>1 DEF Call
<1>5. [item[i] EXCEPT !.tag = c.tag, !.dirty = TRUE].nlinks = item[i].nlinks
  BY <1>2 DEF Item
<1>6. \A j \in Inodes : item'[j].nlinks = item[j].nlinks
  BY <1>1, <1>2, <1>3, <1>5 DEF TypeOK
<1>7. c.op = "rename" => dir[c.to] # dir[c.from]
  BY <1>1 DEF counts_links
<1>. QED
  BY <1>1, <1>2, <1>3, <1>4, <1>6, <1>7, WritePutStep, ItemStep DEF LinksInv

LEMMA WriteStoreLinks ==
    ASSUME LinksInv, NEW t \in Threads, WriteStore(t)
    PROVE  LinksInv'
<1>. PICK c : c = call[t]
  OBVIOUS
<1>. PICK i : i = c.ino
  OBVIOUS
<1>. PICK n : n = longer(c.before, c.len)
  OBVIOUS
<1>1. c.pc = "store" /\ return(t) /\ UNCHANGED <<dir, mapping>> /\ TypeOK
  BY DEF WriteStore, LinksInv, NamesInv
<1>. PICK it : it = [item[i] EXCEPT !.size = n]
  OBVIOUS
<1>2. item' = item \/ item' = [item EXCEPT ![i] = it]
  BY <1>1 DEF WriteStore
<1>3. i \in Inodes => it.nlinks = item[i].nlinks
  BY <1>1 DEF TypeOK, Item
<1>4. \A j \in Inodes : item'[j].nlinks = item[j].nlinks
  BY <1>1, <1>2, <1>3 DEF TypeOK
<1>. QED
  BY <1>1, <1>4, WriteStoreStep, ReturnsLinks DEF LinksInv

LEMMA SyncOwnerLinks ==
    ASSUME LinksInv, NEW t \in Threads, SyncOwner(t)
    PROVE  LinksInv'
<1>. PICK i : i = mapping[call[t].from]
  OBVIOUS
<1>1. call[t].pc = "sync" /\ return(t) /\ UNCHANGED <<dir, mapping>> /\ TypeOK
  BY DEF SyncOwner, LinksInv, NamesInv
<1>2. item' = item \/ item' = [item EXCEPT ![i] = [item[i] EXCEPT !.dirty = FALSE]]
  BY <1>1 DEF SyncOwner
<1>3. \A j \in Inodes : [item[j] EXCEPT !.dirty = FALSE].nlinks = item[j].nlinks
  BY <1>1 DEF TypeOK, Item
<1>4. \A j \in Inodes : item'[j].nlinks = item[j].nlinks
  BY <1>1, <1>2, <1>3 DEF TypeOK
<1>. QED
  BY <1>1, <1>4, SyncOwnerStep, ReturnsLinks DEF LinksInv

-----------------------------------------------------------------------------
(* The steps that change names.                                            *)

\* The item of inode i follows the count of its names.
tracks(i) ==
    LET n == Cardinality(paths_with(names', i))
    IN  IF settled(i)
        THEN IF n = 0 THEN ~ cached(i)' ELSE item'[i].nlinks = n
        ELSE item'[i].nlinks = item[i].nlinks /\ (fresh(i) => n = Cardinality(paths_with(names, i)))

\* The item of inode i keeps its data, or goes.
keeps_item(i) ==
    \/ item'[i] = NoItem
    \/ /\ item'[i].size = item[i].size /\ item'[i].tag = item[i].tag
       /\ item'[i].dirty = item[i].dirty

LEMMA UnlinkedKeeps ==
    ASSUME NEW i \in Inodes, item[i] \in Item, NEW n, item'[i] = unlinked(item[i], n)
    PROVE  keeps_item(i)
  BY DEF keeps_item, unlinked, Item

\* The path o leads where it did.
steady(o) ==
    /\ dir'[o] = dir[o]
    /\ mapping[o] # NoInode => mapping'[o] = mapping[o]
    /\ dir[o] # NoInode => names'[o] = dir[o]

\* A step that leaves the calls of the threads U alone, and the names they are for.
LEMMA NameStep ==
    ASSUME LinksInv, NamesInv', IsFiniteSet(Paths), NEW U \in SUBSET Threads,
           \A i \in Inodes : tracks(i),
           \A u \in U : /\ call'[u] = call[u]
                        /\ busy(u) => steady(call[u].from)
                        /\ call[u].op = "rename" => steady(call[u].to),
           \A t \in Threads \ U : /\ call[t].pc \notin {"new", "fill"}
                                  /\ call'[t].pc \notin {"new", "fill"}
                                  /\ counts_links(t)'
    PROVE  LinksInv'
<1>1. TypeOK /\ NamesInv
  BY DEF LinksInv, NamesInv
<1>2. \A i : fresh(i)' <=> fresh(i)
  BY DEF fresh
<1>3. \A i : names_of(i)' = paths_with(names', i)
  BY NamesOf
<1>4. ItemCountsLinks'
  <2>. SUFFICES ASSUME NEW i \in Inodes, settled(i)'
                PROVE  item'[i].nlinks = Cardinality(paths_with(names', i))
    BY <1>3 DEF ItemCountsLinks
  <2>1. cached(i)' /\ ~ fresh(i)
    BY <1>2 DEF settled
  <2>2. CASE settled(i)
    BY <2>1, <2>2 DEF tracks
  <2>3. CASE ~ settled(i)
    <3>1. item'[i].nlinks = item[i].nlinks
      BY <2>3 DEF tracks
    <3>. QED
      BY <2>1, <2>3, <3>1 DEF settled, cached
  <2>. QED
    BY <2>2, <2>3
\* A file that keeps a name keeps its item.
<1>5. ASSUME NEW o \in Paths, steady(o), has_item(o)
      PROVE  mapping'[o] = mapping[o] /\ \A i \in Inodes : i = dir[o] => settled(i)'
  <2>1. settled(dir[o]) /\ dir[o] # NoInode /\ mapping[o] = dir[o] /\ dir[o] \in Inodes
    BY <1>1, <1>5 DEF has_item, settled, cached, TypeOK
  <2>. PICK i \in Inodes : i = dir[o]
    BY <2>1
  <2>2. names'[o] = i /\ mapping'[o] = mapping[o]
    BY <1>5, <2>1 DEF steady
  <2>3. Cardinality(paths_with(names', i)) >= 1 /\ Cardinality(paths_with(names', i)) \in Nat
    BY <2>2, NamedCount, CountType
  <2>4. item'[i].nlinks > 0
    BY <2>1, <2>3 DEF tracks
  <2>5. settled(i)'
    BY <1>2, <2>1, <2>4 DEF settled, cached
  <2>. QED
    BY <2>2, <2>5
<1>6. ASSUME NEW u \in U PROVE counts_links(u)'
  <2>. PICK c : c = call[u]
    OBVIOUS
  <2>1. /\ u \in Threads /\ keeps_name(u) /\ finds_name(u) /\ counts_links(u) /\ c \in Call
        /\ c.from \in Paths /\ c.to \in Paths
    BY <1>1, CallTypes DEF LinksInv, NamesInv
  <2>2. c.pc \in {"new", "fill"} =>
           /\ mapping'[c.at] = mapping[c.at]
           /\ Cardinality(paths_with(names', c.ino)) = Cardinality(paths_with(names, c.ino))
           /\ \A i \in Inodes : i = c.ino => (cached(i)' <=> cached(i))
    <3>. SUFFICES ASSUME c.pc \in {"new", "fill"}
                  PROVE  /\ mapping'[c.at] = mapping[c.at]
                         /\ Cardinality(paths_with(names', c.ino)) =
                               Cardinality(paths_with(names, c.ino))
                         /\ \A i \in Inodes : i = c.ino => (cached(i)' <=> cached(i))
      OBVIOUS
    <3>1. c.ino \in Inodes /\ fresh(c.ino) /\ ~ settled(c.ino)
      BY <2>1, MadeByOne
    <3>2. mapping[c.at] # NoInode
      BY <2>1 DEF counts_links, finds_name
    <3>3. steady(c.at)
      BY <2>1 DEF keeps_name, busy
    <3>4. tracks(c.ino)
      BY <3>1
    <3>5. item'[c.ino].nlinks = item[c.ino].nlinks
      BY <3>1, <3>4 DEF tracks
    <3>. QED
      BY <3>1, <3>2, <3>3, <3>4, <3>5 DEF tracks, steady, cached
  <2>3. past_getattr(c) => busy(u) /\ has_item(c.from)
    BY <2>1, PastIsBusy DEF counts_links
  <2>4. busy(u) => dir'[c.from] = dir[c.from]
    BY DEF steady
  <2>5. c.op = "rename" =>
           /\ dir'[c.to] = dir[c.to]
           /\ c.pc = "ready" /\ dir[c.to] # NoInode => has_item(c.to) /\ steady(c.to)
    BY <2>1 DEF counts_links, steady
  <2>6. past_getattr(c) => /\ mapping'[c.from] = mapping[c.from]
                           /\ \A i \in Inodes : i = dir[c.from] => settled(i)'
    BY <1>5, <2>1, <2>3
  <2>7. c.op = "rename" /\ c.pc = "ready" /\ dir[c.to] # NoInode =>
           /\ mapping'[c.to] = mapping[c.to]
           /\ \A i \in Inodes : i = dir[c.to] => settled(i)'
    BY <1>5, <2>1, <2>5
  <2>8. keeps_counts(u)
    BY <2>2, <2>4, <2>5, <2>6, <2>7 DEF keeps_counts
  <2>. QED
    BY <1>1, <2>1, <2>8, KeptCounts
<1>7. OneMakesItem'
  BY DEF LinksInv, OneMakesItem
<1>. QED
  BY <1>4, <1>6, <1>7 DEF LinksInv

\* Items that are left alone track names that are left alone.
LEMMA TracksSame ==
    ASSUME LinksInv, IsFiniteSet(Paths), NEW i \in Inodes,
           item'[i].nlinks = item[i].nlinks,
           \A p \in Paths : names'[p] = i <=> names[p] = i
    PROVE  tracks(i)
<1>1. Cardinality(paths_with(names', i)) = Cardinality(paths_with(names, i))
  BY CountKeep
<1>2. settled(i) => /\ item[i].nlinks = Cardinality(paths_with(names, i))
                    /\ item[i].nlinks > 0
  BY NamesOf DEF LinksInv, ItemCountsLinks, settled, cached
<1>3. Cardinality(paths_with(names, i)) \in Nat
  BY CountType
<1>. QED
  BY <1>1, <1>2, <1>3 DEF tracks

LEMMA LinkLinks ==
    ASSUME LinksInv, IsFiniteSet(Paths), NEW t \in Threads, Link(t)
    PROVE  /\ LinksInv' /\ \A i \in Inodes : tracks(i) /\ keeps_item(i)
           /\ \A o \in Paths : names'[o] = names[o]
<1>. PICK c : c = call[t]
  OBVIOUS
<1>. PICK p : p = c.from
  OBVIOUS
<1>. PICK q : q = c.to
  OBVIOUS
<1>. PICK r : r = [c EXCEPT !.pc = "name"]
  OBVIOUS
<1>1. /\ NamesInv /\ TypeOK /\ keeps_name(t) /\ counts_links(t) /\ c \in Call
      /\ c.op = "link" /\ c.pc = "ready" /\ past_getattr(c)
  BY CallTypes DEF LinksInv, NamesInv, Link, past_getattr
<1>2. /\ r.pc = "name" /\ r.op = "link" /\ r.from = p /\ r.to = q /\ r.at = c.at
  BY <1>1 DEF Call
<1>3. /\ call' = [call EXCEPT ![t] = r] /\ call'[t] = r /\ UNCHANGED <<mapping, item>>
      /\ dir' = [dir EXCEPT ![q] = dir[p]]
  BY <1>1 DEF Link, goto, TypeOK
<1>4. /\ p \in Paths /\ q \in Paths /\ dir[p] \in Inodes /\ dir[q] = NoInode /\ p # q
      /\ dir[p] # NoInode
  BY <1>1, HasItem DEF keeps_name, Call
<1>5. busy(t) /\ changes_names(t)
  BY <1>1 DEF busy, changes_names, NameOps
<1>6. \A u \in others(t) : /\ ~ changes_names(u) /\ call[u].pc # "name"
                           /\ u \in Threads /\ call'[u] = call[u]
  BY <1>1, <1>3, <1>5, OneChanger DEF others, TypeOK
<1>7. \A o \in Paths : names[o] = dir[o]
  BY <1>1, <1>5, OneChanger
<1>8. \A o \in Paths : names'[o] = names[o]
  <2>1. names'[q] = NoInode
    <3>1. \E u \in Threads : call'[u].pc = "name" /\ call'[u].to = q
      BY <1>2, <1>3
    <3>. QED
      BY <1>4, <3>1, NamesAre
  <2>2. \A o \in Paths \ {q} : names'[o] = dir[o]
    BY <1>1, <1>2, <1>3, <1>6, NamesAre DEF others, TypeOK
  <2>. QED
    BY <1>4, <1>7, <2>1, <2>2
<1>9. \A o \in Paths : o # q => steady(o)
  BY <1>1, <1>3, <1>7, <1>8 DEF steady, TypeOK
<1>10. \A u \in others(t) : /\ busy(u) => steady(call[u].from)
                            /\ call[u].op # "rename"
  BY <1>1, <1>4, <1>6, <1>9, CallTypes DEF NamesInv, keeps_name, changes_names, NameOps
<1>11. \A i \in Inodes : tracks(i)
  BY <1>3, <1>8, TracksSame
<1>12. \A i \in Inodes : settled(i)' <=> settled(i)
  <2>1. \A i : fresh(i)' <=> fresh(i)
    BY <1>1, <1>2, <1>3, FreshStep DEF fresh, others
  <2>. QED
    BY <1>3, <2>1 DEF settled, cached
<1>13. counts_links(t)'
  <2>1. has_item(r.from)'
    BY <1>1, <1>2, <1>3, <1>4, <1>12, HasItem DEF has_item, TypeOK
  <2>. QED
    BY <1>2, <1>3, <2>1, CountsThen
<1>14. others(t) \in SUBSET Threads /\ \A u \in Threads \ others(t) : u = t
  BY DEF others
<1>16. \A i \in Inodes : keeps_item(i)
  BY <1>3 DEF keeps_item
<1>15. NamesInv'
  BY <1>1, LinkStep
<1>. QED
  BY <1>1, <1>2, <1>3, <1>6, <1>8, <1>10, <1>11, <1>13, <1>14, <1>15, <1>16, NameStep

\* A call that returns needs nothing.
LEMMA ReturnedCounts ==
    ASSUME TypeOK, NEW t \in Threads, return(t)
    PROVE  counts_links(t)' /\ call'[t].pc \notin {"new", "fill"}
<1>1. call'[t] = NoCall /\ NoCall.op = "none" /\ NoCall.pc = "idle" /\ ~ past_getattr(NoCall)
  BY Returned DEF past_getattr, NoCall
<1>. QED
  BY <1>1, CountsThen

LEMMA LinkNameLinks ==
    ASSUME LinksInv, IsFiniteSet(Paths), NEW t \in Threads, LinkName(t)
    PROVE  LET p == call[t].from
               q == call[t].to
           IN  /\ LinksInv' /\ \A i \in Inodes : tracks(i) /\ keeps_item(i)
               /\ p \in Paths /\ q \in Paths /\ names[p] # NoInode /\ names[q] = NoInode
               /\ names'[q] = names[p] /\ \A o \in Paths : o # q => names'[o] = names[o]
<1>. PICK c : c = call[t]
  OBVIOUS
<1>. PICK p : p = c.from
  OBVIOUS
<1>. PICK q : q = c.to
  OBVIOUS
<1>. PICK i : i = mapping[p]
  OBVIOUS
<1>. PICK it : it = [item[i] EXCEPT !.nlinks = @ + 1]
  OBVIOUS
<1>1. /\ NamesInv /\ TypeOK /\ keeps_name(t) /\ counts_links(t) /\ c \in Call
      /\ c.op = "link" /\ c.pc = "name" /\ past_getattr(c)
  BY CallTypes DEF LinksInv, NamesInv, LinkName, past_getattr, keeps_name
<1>2. /\ i = dir[p] /\ i \in Inodes /\ i # NoInode /\ cached(i) /\ settled(i) /\ item[i] \in Item
      /\ p \in Paths /\ q \in Paths /\ dir[q] = i
  BY <1>1, HasItem DEF keeps_name, Call
<1>3. /\ mapping' = [mapping EXCEPT ![q] = i] /\ return(t) /\ dir' = dir
      /\ item' = [item EXCEPT ![i] = it]
  BY <1>2 DEF LinkName
<1>4. it.nlinks = item[i].nlinks + 1 /\ item[i].nlinks \in Nat
  BY <1>2 DEF Item
<1>5. item'[i] = it /\ \A j \in Inodes : j # i => item'[j] = item[j]
  BY <1>1, <1>2, <1>3 DEF TypeOK
<1>6. changes_names(t)
  BY <1>1 DEF changes_names, NameOps
<1>7. \A u \in others(t) : /\ ~ changes_names(u) /\ call[u].pc # "name"
                           /\ u \in Threads /\ call'[u] = call[u]
  BY <1>1, <1>3, <1>6, Returned, OneChanger DEF others, TypeOK
<1>8. names[q] = NoInode /\ \A o \in Paths : o # q => names[o] = dir[o]
  BY <1>1, <1>2, <1>6, NamesAre, OneChanger
<1>9. \A o \in Paths : names'[o] = dir[o]
  <2>1. \A u \in Threads : call'[u].pc # "name"
    BY <1>1, <1>3, <1>7, Returned DEF others
  <2>. QED
    BY <1>3, <2>1, NamesAre
<1>10. Cardinality(paths_with(names', i)) = Cardinality(paths_with(names, i)) + 1
  BY <1>2, <1>8, <1>9, CountAdd
<1>11. tracks(i)
  <2>1. item[i].nlinks = Cardinality(paths_with(names, i))
    BY <1>2, NamesOf DEF LinksInv, ItemCountsLinks
  <2>2. Cardinality(paths_with(names', i)) # 0
    BY <1>4, <1>10, <2>1
  <2>3. item'[i].nlinks = Cardinality(paths_with(names', i))
    BY <1>4, <1>5, <1>10, <2>1
  <2>. QED
    BY <1>2, <2>2, <2>3 DEF tracks
<1>12. \A j \in Inodes : j # i => tracks(j)
  <2>. SUFFICES ASSUME NEW j \in Inodes, j # i PROVE tracks(j)
    OBVIOUS
  <2>1. \A o \in Paths : names'[o] = j <=> names[o] = j
    BY <1>2, <1>8, <1>9, CacheNamesAssumption
  <2>. QED
    BY <1>5, <2>1, TracksSame
<1>13. \A o \in Paths : o # q => steady(o)
  BY <1>1, <1>3, <1>9 DEF steady, TypeOK
<1>14. \A u \in others(t) : /\ busy(u) => steady(call[u].from)
                            /\ call[u].op # "rename"
  <2>1. \A u \in others(t) : busy(u) => call[u].from # q /\ call[u].from \in Paths
    BY <1>1, <1>7, CallTypes DEF NamesInv, NewNameUnused
  <2>. QED
    BY <1>7, <1>13, <2>1 DEF changes_names, NameOps
<1>15. others(t) \in SUBSET Threads /\ \A u \in Threads \ others(t) : u = t
  BY DEF others
<1>16. NamesInv'
  BY <1>1, LinkNameStep
<1>17. LinksInv'
  BY <1>1, <1>3, <1>7, <1>11, <1>12, <1>14, <1>15, <1>16, ReturnedCounts, NameStep
<1>18. \A j \in Inodes : keeps_item(j)
  BY <1>2, <1>5 DEF keeps_item, Item
<1>19. names[p] = i
  BY <1>1, <1>2, HasItem
<1>. QED
  BY <1>2, <1>8, <1>9, <1>11, <1>12, <1>17, <1>18, <1>19

\* While a call removes or renames a file, the kernel knows every name.
LEMMA AloneNames ==
    ASSUME NamesInv, NEW t \in Threads, changes_names(t), call[t].pc = "ready", return(t)
    PROVE  /\ \A o \in Paths : names[o] = dir[o] /\ names'[o] = dir'[o]
           /\ \A u \in others(t) : ~ changes_names(u) /\ u \in Threads /\ call'[u] = call[u]
<1>1. \A u \in others(t) : /\ ~ changes_names(u) /\ call[u].pc # "name"
                           /\ u \in Threads /\ call'[u] = call[u]
  BY Returned, OneChanger DEF NamesInv, others, TypeOK
<1>2. \A u \in Threads : call'[u].pc # "name"
  BY <1>1, Returned DEF NamesInv, others
<1>. QED
  BY <1>1, <1>2, OneChanger, NamesAre

LEMMA AloneLinks ==
    ASSUME LinksInv, NamesInv', IsFiniteSet(Paths), NEW t \in Threads,
           changes_names(t), call[t].pc = "ready", alone(t), return(t),
           \A o \in Paths : o \notin {call[t].from, call[t].to} =>
              dir'[o] = dir[o] /\ mapping'[o] = mapping[o],
           \A i \in Inodes : tracks(i)
    PROVE  LinksInv'
<1>1. NamesInv /\ TypeOK
  BY DEF LinksInv, NamesInv
<1>2. \A u \in others(t) : /\ ~ changes_names(u) /\ u \in Threads /\ call'[u] = call[u]
                           /\ call[u].from \in Paths
  BY <1>1, AloneNames, CallTypes
<1>3. \A o \in Paths : o \notin {call[t].from, call[t].to} => steady(o)
  BY <1>1, AloneNames DEF steady
<1>4. \A u \in others(t) : busy(u) => call[u].from \notin {call[t].from, call[t].to}
  BY DEF alone, used, changes_names, busy, NameOps
<1>5. \A u \in others(t) : /\ busy(u) => steady(call[u].from)
                           /\ call[u].op # "rename"
  BY <1>2, <1>3, <1>4 DEF changes_names, NameOps
<1>6. others(t) \in SUBSET Threads /\ \A u \in Threads \ others(t) : u = t
  BY DEF others
<1>. QED
  BY <1>1, <1>2, <1>5, <1>6, ReturnedCounts, NameStep

\* An item that loses links follows the count of its names.
LEMMA UnlinkedTracks ==
    ASSUME LinksInv, IsFiniteSet(Paths), NEW i \in Inodes, settled(i), NEW n \in Nat \ {0},
           item'[i] = unlinked(item[i], n),
           Cardinality(paths_with(names', i)) = Cardinality(paths_with(names, i)) - n
    PROVE  tracks(i)
<1>1. item[i].nlinks = Cardinality(paths_with(names, i))
  BY NamesOf DEF LinksInv, ItemCountsLinks
<1>2. Cardinality(paths_with(names, i)) \in Nat /\ Cardinality(paths_with(names', i)) \in Nat
  BY CountType
<1>3. item[i] \in Item
  BY DEF LinksInv, NamesInv, TypeOK
<1>4. CASE item[i].nlinks > n
  <2>1. item'[i].nlinks = item[i].nlinks - n
    BY <1>3, <1>4 DEF unlinked, Item
  <2>2. Cardinality(paths_with(names', i)) # 0
    BY <1>1, <1>2, <1>4
  <2>. QED
    BY <1>1, <2>1, <2>2 DEF tracks
<1>5. CASE ~ (item[i].nlinks > n)
  <2>1. item'[i] = NoItem
    BY <1>5 DEF unlinked
  <2>2. Cardinality(paths_with(names', i)) = 0
    BY <1>1, <1>2, <1>5
  <2>3. ~ cached(i)'
    BY <2>1 DEF cached, NoItem
  <2>. QED
    BY <2>2, <2>3 DEF tracks
<1>. QED
  BY <1>4, <1>5

LEMMA UnlinkLinks ==
    ASSUME LinksInv, IsFiniteSet(Paths), Disturbances = {}, NEW t \in Threads, Unlink(t)
    PROVE  LET p == call[t].from
           IN  /\ LinksInv' /\ \A i \in Inodes : tracks(i) /\ keeps_item(i)
               /\ p \in Paths /\ names[p] # NoInode
               /\ names'[p] = NoInode /\ \A o \in Paths : o # p => names'[o] = names[o]
<1>. PICK p : p = call[t].from
  OBVIOUS
<1>. PICK i : i = mapping[p]
  OBVIOUS
<1>1. /\ NamesInv /\ TypeOK /\ call[t].op = "unlink" /\ call[t].pc = "ready"
      /\ past_getattr(call[t]) /\ changes_names(t)
  BY DEF LinksInv, NamesInv, Unlink, past_getattr, changes_names, NameOps
<1>2. /\ p \in Paths /\ i \in Inodes /\ i # NoInode /\ i = dir[p] /\ cached(i) /\ settled(i)
  BY <1>1, HasItem
<1>3. /\ mapping' = [mapping EXCEPT ![p] = NoInode]
      /\ item' = [item EXCEPT ![i] = unlinked(item[i], 1)]
      /\ dir' = [dir EXCEPT ![p] = NoInode]
      /\ return(t) /\ alone(t)
  BY <1>2 DEF Unlink, below
<1>4. \A o \in Paths : o # p => dir'[o] = dir[o] /\ mapping'[o] = mapping[o]
  BY <1>1, <1>3 DEF TypeOK
<1>5. /\ dir'[p] = NoInode /\ item'[i] = unlinked(item[i], 1)
      /\ \A j \in Inodes : j # i => item'[j] = item[j]
  BY <1>1, <1>2, <1>3 DEF TypeOK
<1>6. \A o \in Paths : names[o] = dir[o] /\ names'[o] = dir'[o]
  BY <1>1, <1>3, AloneNames
<1>7. tracks(i)
  <2>1. Cardinality(paths_with(names', i)) = Cardinality(paths_with(names, i)) - 1
    BY <1>2, <1>4, <1>5, <1>6, CountRemove
  <2>. QED
    BY <1>2, <1>5, <2>1, UnlinkedTracks
<1>8. \A j \in Inodes : j # i => tracks(j)
  <2>. SUFFICES ASSUME NEW j \in Inodes, j # i PROVE tracks(j)
    OBVIOUS
  <2>1. \A o \in Paths : names'[o] = j <=> names[o] = j
    BY <1>2, <1>4, <1>5, <1>6, CacheNamesAssumption
  <2>. QED
    BY <1>5, <2>1, TracksSame
<1>9. NamesInv'
  BY <1>1, UnlinkStep
<1>. QED
  <2>1. LinksInv'
    BY <1>1, <1>3, <1>4, <1>7, <1>8, <1>9, AloneLinks
  <2>2. \A j \in Inodes : keeps_item(j)
    BY <1>1, <1>2, <1>5, UnlinkedKeeps DEF TypeOK, keeps_item
  <2>. QED
    BY <1>2, <1>4, <1>5, <1>6, <1>7, <1>8, <2>1, <2>2

LEMMA RenameLinks ==
    ASSUME LinksInv, IsFiniteSet(Paths), Disturbances = {}, NEW t \in Threads, Rename(t)
    PROVE  LET p == call[t].from
               q == call[t].to
           IN  /\ LinksInv' /\ \A i \in Inodes : tracks(i) /\ keeps_item(i)
               /\ p \in Paths /\ q \in Paths /\ p # q /\ names[p] # NoInode
               /\ names'[q] = names[p] /\ names'[p] = NoInode
               /\ \A o \in Paths : o \notin {p, q} => names'[o] = names[o]
<1>. PICK p : p = call[t].from
  OBVIOUS
<1>. PICK q : q = call[t].to
  OBVIOUS
<1>. PICK a : a = dir[p]
  OBVIOUS
<1>. PICK b : b = dir[q]
  OBVIOUS
<1>. DEFINE M == {<<p, q>>}
<1>1. /\ NamesInv /\ TypeOK /\ call[t].op = "rename" /\ call[t].pc = "ready"
      /\ past_getattr(call[t]) /\ changes_names(t) /\ keeps_name(t) /\ counts_links(t)
  BY DEF LinksInv, NamesInv, Rename, past_getattr, changes_names, NameOps
<1>2. /\ p \in Paths /\ q \in Paths /\ p # q /\ a \in Inodes /\ a # NoInode /\ mapping[p] = a
      /\ a # b /\ b \in Inodes \cup {NoInode}
      /\ b # NoInode => mapping[q] = b /\ settled(b)
  <2>1. q \in Paths
    BY <1>1, CallTypes
  <2>. QED
    BY <1>1, <2>1, HasItem DEF counts_links, has_item, keeps_name, TypeOK
<1>3. /\ rename_items(M) /\ return(t) /\ alone(t)
      /\ dir' = [dir EXCEPT ![q] = dir[p], ![p] = NoInode]
  BY <1>2 DEF Rename, below
<1>4. /\ \A o \in Paths : names[o] = dir[o] /\ names'[o] = dir'[o]
      /\ dir'[p] = NoInode /\ dir'[q] = a
      /\ \A o \in Paths : o \notin {p, q} => dir'[o] = dir[o]
  BY <1>1, <1>2, <1>3, AloneNames DEF TypeOK
<1>5. mapping[q] # NoInode => mapping[q] = b
  BY <1>1, <1>2, <1>4 DEF NamesInv, MappedToOwnInode
<1>6. \A i \in Inodes : item'[i] = unlinked(item[i], IF i = b THEN 1 ELSE 0)
  <2>. DEFINE moved == {m \in M : mapping[m[1]] # NoInode}
  <2>1. moved = {<<p, q>>}
    BY <1>2
  <2>2. \A i \in Inodes : item'[i] = unlinked(item[i], Cardinality({m \in moved : mapping[m[2]] = i}))
    BY <1>3 DEF rename_items
  <2>. SUFFICES ASSUME NEW i \in Inodes
                PROVE  Cardinality({m \in moved : mapping[m[2]] = i}) = IF i = b THEN 1 ELSE 0
    BY <2>2
  <2>. HIDE DEF moved
  <2>3. CASE i = b
    <3>1. {m \in moved : mapping[m[2]] = i} = {<<p, q>>}
      BY <1>2, <2>1, <2>3, CacheNamesAssumption
    <3>. QED
      BY <2>3, <3>1, FS_Singleton
  <2>4. CASE i # b
    <3>1. {m \in moved : mapping[m[2]] = i} = {}
      BY <1>5, <2>1, <2>4, CacheNamesAssumption
    <3>. QED
      BY <2>4, <3>1, FS_EmptySet
  <2>. QED
    BY <2>3, <2>4
<1>7. \A i \in Inodes : i # b => item'[i] = item[i]
  BY <1>6 DEF unlinked
<1>8. \A i \in Inodes : i \notin {a, b} => tracks(i)
  <2>. SUFFICES ASSUME NEW i \in Inodes, i \notin {a, b} PROVE tracks(i)
    OBVIOUS
  <2>1. \A o \in Paths : names'[o] = i <=> names[o] = i
    BY <1>2, <1>4, CacheNamesAssumption
  <2>. QED
    BY <1>7, <2>1, TracksSame
<1>. DEFINE f == [names EXCEPT ![q] = a]
<1>9. /\ f[q] = a /\ f[p] = a
      /\ \A o \in Paths : o # q => f[o] = names[o]
      /\ \A o \in Paths : o # p => names'[o] = f[o]
  <2>1. names = [o \in Paths |-> names[o]]
    BY DEF names
  <2>. QED
    BY <1>2, <1>4, <2>1
<1>. HIDE DEF f
<1>10. tracks(a)
  <2>1. Cardinality(paths_with(f, a)) = Cardinality(paths_with(names, a)) + 1
    BY <1>2, <1>4, <1>9, CountAdd
  <2>2. Cardinality(paths_with(names', a)) = Cardinality(paths_with(f, a)) - 1
    BY <1>2, <1>4, <1>9, CountRemove
  <2>3. Cardinality(paths_with(names', a)) = Cardinality(paths_with(names, a))
    BY <2>1, <2>2, CountType
  <2>4. settled(a) /\ item'[a] = item[a]
    BY <1>1, <1>2, <1>7, HasItem
  <2>5. item[a].nlinks = Cardinality(paths_with(names, a)) /\ item[a].nlinks > 0
    BY <1>2, <2>4, NamesOf DEF LinksInv, ItemCountsLinks, settled, cached
  <2>. QED
    BY <2>3, <2>4, <2>5 DEF tracks
<1>11. b # NoInode => tracks(b)
  <2>. SUFFICES ASSUME b # NoInode PROVE tracks(b)
    OBVIOUS
  <2>1. Cardinality(paths_with(f, b)) = Cardinality(paths_with(names, b)) - 1
    <3>1. names[q] = b /\ f[q] # b
      BY <1>2, <1>4, <1>9
    <3>2. q \in Paths /\ \A o \in Paths : o # q => f[o] = names[o]
      BY <1>2, <1>9
    <3>. QED
      BY <3>1, <3>2, CountRemove
  <2>2. Cardinality(paths_with(names', b)) = Cardinality(paths_with(f, b))
    BY <1>2, <1>4, <1>9, CountKeep
  <2>3. item'[b] = unlinked(item[b], 1)
    BY <1>2, <1>6
  <2>. QED
    BY <1>2, <2>1, <2>2, <2>3, UnlinkedTracks
<1>12. \A o \in Paths : o \notin {p, q} => mapping'[o] = mapping[o]
  <2>1. \A m \in M : m[1] = p /\ m[2] = q
    OBVIOUS
  <2>. HIDE DEF M
  <2>. QED
    BY <1>3, <2>1, RenamedEntry
<1>13. NamesInv'
  BY <1>1, RenameStep
<1>14. \A i \in Inodes : tracks(i)
  BY <1>8, <1>10, <1>11, <1>2, CacheNamesAssumption
<1>. QED
  <2>1. LinksInv'
    BY <1>1, <1>3, <1>4, <1>12, <1>13, <1>14, AloneLinks
  <2>2. \A i \in Inodes : keeps_item(i)
    BY <1>1, <1>6, UnlinkedKeeps DEF TypeOK
  <2>. QED
    BY <1>2, <1>4, <1>14, <2>1, <2>2

-----------------------------------------------------------------------------
(* The steps of no call.                                                   *)

\* A directory's paths move one for one, and no entry is replaced.
LEMMA RenameDirLinks ==
    ASSUME LinksInv, IsFiniteSet(Paths), Disturbances = {}, NEW d, NEW e, RenameDir(d, e)
    PROVE  /\ LinksInv' /\ \A i \in Inodes : tracks(i) /\ keeps_item(i)
           /\ call' = call /\ UNCHANGED disk
           /\ \A u \in Threads : busy(u) => dir'[call[u].from] = dir[call[u].from]
           /\ d # e /\ \A o \in Paths : o[1] = e => names[o] = NoInode
           /\ \A o \in Paths :
                 names'[o] = IF o[1] = d THEN NoInode
                             ELSE IF o[1] = e /\ <<d, o[2]>> \in Paths THEN names[<<d, o[2]>>]
                             ELSE names[o]
<1>. PICK M : M = {<<o, <<e, o[2]>>>> : o \in files(d)}
  OBVIOUS
<1>1. NamesInv /\ TypeOK
  BY DEF LinksInv, NamesInv
<1>2. /\ d # e /\ names_free /\ files(e) = {} /\ rename_items(M)
      /\ \A m \in M : m[2] \in Paths
      /\ \A u \in Threads : used(u) \cap files(d) = {}
      /\ call' = call
      /\ dir' = [p \in Paths |-> IF \E m \in M : m[2] = p THEN dir[<<d, p[2]>>]
                                 ELSE IF p[1] = d THEN NoInode ELSE dir[p]]
  BY DEF RenameDir, below
<1>3. \A u \in Threads : ~ changes_names(u) /\ call[u].pc # "name"
  BY <1>1, <1>2, NamesFree DEF NamesInv
<1>4. \A o \in Paths : names[o] = dir[o] /\ names'[o] = dir'[o]
  BY <1>2, <1>3, NamesAre
\* The new paths, in e, are of no file and so have no entry.
<1>5. \A o \in files(d) : /\ o \in Paths /\ o[1] = d /\ o = <<d, o[2]>> /\ <<e, o[2]>> \in Paths
                          /\ dir[<<e, o[2]>>] = NoInode /\ mapping[<<e, o[2]>>] = NoInode
  <2>. SUFFICES ASSUME NEW o \in files(d)
                PROVE  /\ o \in Paths /\ o[1] = d /\ o = <<d, o[2]>> /\ <<e, o[2]>> \in Paths
                       /\ dir[<<e, o[2]>>] = NoInode /\ mapping[<<e, o[2]>>] = NoInode
    OBVIOUS
  <2>1. o \in Paths /\ o[1] = d /\ o = <<d, o[2]>>
    BY CacheNamesAssumption DEF files
  <2>2. <<o, <<e, o[2]>>>> \in M /\ <<o, <<e, o[2]>>>>[2] = <<e, o[2]>>
    OBVIOUS
  <2>3. <<e, o[2]>> \in Paths
    BY <1>2, <2>2
  <2>4. dir[<<e, o[2]>>] = NoInode
    BY <1>2, <2>3 DEF files
  <2>. QED
    BY <1>1, <1>4, <2>1, <2>3, <2>4 DEF NamesInv, MappedToOwnInode
<1>6. \A i \in Inodes : item'[i] = item[i]
  <2>. SUFFICES ASSUME NEW i \in Inodes PROVE item'[i] = item[i]
    OBVIOUS
  <2>. DEFINE over == {m \in {n \in M : mapping[n[1]] # NoInode} : mapping[m[2]] = i}
  <2>1. item'[i] = unlinked(item[i], Cardinality(over))
    BY <1>2 DEF rename_items
  <2>2. over = {}
    BY <1>5, CacheNamesAssumption
  <2>3. Cardinality(over) = 0
    BY <2>2, FS_EmptySet
  <2>. QED
    BY <2>1, <2>3 DEF unlinked
\* Where the names of the kernel come from.
<1>7. \A o \in files(d) : dir'[<<e, o[2]>>] = dir[o] /\ dir'[o] = NoInode
  <2>. TAKE o \in files(d)
  <2>1. dir'[<<e, o[2]>>] = dir[o]
    <3>1. <<o, <<e, o[2]>>>> \in M /\ <<o, <<e, o[2]>>>>[2] = <<e, o[2]>>
      OBVIOUS
    <3>. QED
      BY <1>2, <1>5, <3>1
  <2>2. \A m \in M : m[2] # o
    BY <1>2, <1>5
  <2>. QED
    BY <1>2, <1>5, <2>1, <2>2
<1>8. \A q \in Paths : dir'[q] # NoInode =>
         \/ \E o \in files(d) : q = <<e, o[2]>>
         \/ q[1] # d /\ dir'[q] = dir[q]
  BY <1>2
<1>9. \A o \in Paths : o[1] # d /\ dir[o] # NoInode => dir'[o] = dir[o]
  <2>. SUFFICES ASSUME NEW o \in Paths, o[1] # d, dir[o] # NoInode PROVE dir'[o] = dir[o]
    OBVIOUS
  <2>1. \A m \in M : m[2] # o
    BY <1>5
  <2>. QED
    BY <1>2, <2>1
<1>10. ASSUME NEW i \in Inodes
       PROVE  Cardinality(paths_with(names', i)) = Cardinality(paths_with(names, i))
  <2>. DEFINE h == [o \in Paths |-> IF o \in files(d) THEN <<e, o[2]>> ELSE o]
  <2>1. \A o \in Paths : names[o] = i => h[o] \in Paths /\ names'[h[o]] = i
    <3>. SUFFICES ASSUME NEW o \in Paths, names[o] = i PROVE h[o] \in Paths /\ names'[h[o]] = i
      OBVIOUS
    <3>1. dir[o] = i /\ i # NoInode
      BY <1>4, CacheNamesAssumption
    <3>2. CASE o \in files(d)
      BY <1>4, <1>5, <1>7, <3>1, <3>2
    <3>3. CASE o \notin files(d)
      BY <1>4, <1>9, <3>1, <3>3 DEF files
    <3>. QED
      BY <3>2, <3>3
  <2>2. \A o, p \in Paths : names[o] = i /\ names[p] = i /\ h[o] = h[p] => o = p
    <3>. SUFFICES ASSUME NEW o \in Paths, NEW p \in Paths, names[o] = i, names[p] = i,
                         h[o] = h[p]
                  PROVE  o = p
      OBVIOUS
    <3>1. dir[o] = i /\ dir[p] = i /\ i # NoInode
      BY <1>4, CacheNamesAssumption
    <3>2. o \in files(d) /\ p \in files(d) => o = p
      <4>1. o \in files(d) /\ p \in files(d) => o[2] = p[2]
        OBVIOUS
      <4>. QED
        BY <1>5, <4>1
    <3>3. ~ (o \in files(d) /\ p \notin files(d)) /\ ~ (p \in files(d) /\ o \notin files(d))
      BY <1>5, <3>1
    <3>. QED
      BY <3>2, <3>3
  <2>3. \A q \in Paths : names'[q] = i => \E o \in Paths : names[o] = i /\ h[o] = q
    <3>. SUFFICES ASSUME NEW q \in Paths, names'[q] = i
                  PROVE  \E o \in Paths : names[o] = i /\ h[o] = q
      OBVIOUS
    <3>1. dir'[q] = i /\ i # NoInode
      BY <1>4, CacheNamesAssumption
    <3>2. CASE \E o \in files(d) : q = <<e, o[2]>>
      <4>. PICK o \in files(d) : q = <<e, o[2]>>
        BY <3>2
      <4>1. o \in Paths /\ dir[o] = i /\ h[o] = q
        BY <1>5, <1>7, <3>1
      <4>. QED
        BY <1>4, <4>1
    <3>3. CASE q[1] # d /\ dir'[q] = dir[q]
      <4>1. q \notin files(d)
        BY <3>3 DEF files
      <4>. QED
        BY <1>4, <3>1, <3>3, <4>1
    <3>. QED
      BY <1>8, <3>1, <3>2, <3>3
  <2>. HIDE DEF h
  <2>. QED
    BY <2>1, <2>2, <2>3, CountMoved
<1>11. \A i \in Inodes : tracks(i)
  <2>. SUFFICES ASSUME NEW i \in Inodes PROVE tracks(i)
    OBVIOUS
  <2>1. settled(i) => /\ item[i].nlinks = Cardinality(paths_with(names, i))
                      /\ item[i].nlinks > 0
    BY NamesOf DEF LinksInv, ItemCountsLinks, settled, cached
  <2>. QED
    BY <1>6, <1>10, <2>1 DEF tracks
<1>12. \A u \in Threads : busy(u) => steady(call[u].from)
  <2>. SUFFICES ASSUME NEW u \in Threads, busy(u) PROVE steady(call[u].from)
    OBVIOUS
  <2>. PICK o : o = call[u].from
    OBVIOUS
  <2>1. o \in Paths /\ dir[o] # NoInode /\ o \notin files(d)
    BY <1>1, <1>2, CallTypes DEF NamesInv, keeps_name, used
  <2>2. dir'[o] = dir[o]
    BY <1>9, <2>1 DEF files
  <2>3. mapping'[o] = mapping[o]
    <3>1. \A m \in M : m[1] # o /\ m[2] # o
      BY <1>5, <2>1
    <3>. QED
      BY <1>2, <2>1, <3>1, RenamedEntry
  <2>. QED
    BY <1>4, <2>1, <2>2, <2>3 DEF steady
<1>13. NamesInv'
  BY <1>1, RenameDirStep
<1>14. \A u \in Threads : call[u].op # "rename"
  BY <1>3 DEF changes_names, NameOps
<1>. QED
  <2>1. LinksInv'
    BY <1>2, <1>11, <1>12, <1>13, <1>14, NameStep
  <2>2. \A i \in Inodes : keeps_item(i)
    BY <1>6 DEF keeps_item
  <2>3. \A u \in Threads : busy(u) => dir'[call[u].from] = dir[call[u].from]
    BY <1>1, <1>12 DEF steady
  <2>4. \A o \in Paths : o[1] = e => names[o] = NoInode
    BY <1>2, <1>4 DEF files
  <2>5. ASSUME NEW o \in Paths
        PROVE  names'[o] = IF o[1] = d THEN NoInode
                           ELSE IF o[1] = e /\ <<d, o[2]>> \in Paths THEN names[<<d, o[2]>>]
                           ELSE names[o]
    <3>1. CASE o[1] = d
      <4>1. dir'[o] = NoInode
        BY <1>2, <1>5, <3>1
      <4>2. names'[o] = NoInode
        BY <1>4, <4>1
      <4>. QED
        BY <3>1, <4>2
    <3>2. CASE o[1] = e /\ <<d, o[2]>> \in files(d)
      <4>1. o = <<e, o[2]>> /\ <<d, o[2]>>[2] = o[2] /\ <<d, o[2]>> \in Paths
        BY <3>2, CacheNamesAssumption DEF files
      <4>2. dir'[o] = dir[<<d, o[2]>>]
        BY <1>7, <3>2, <4>1
      <4>. QED
        BY <1>2, <1>4, <3>2, <4>1, <4>2
    <3>3. CASE o[1] = e /\ <<d, o[2]>> \notin files(d)
      <4>1. <<d, o[2]>> \in Paths => names[<<d, o[2]>>] = NoInode
        BY <1>4, <3>3 DEF files
      <4>2. \A m \in M : m[2] # o
        BY <1>5, <3>3
      <4>3. dir'[o] = dir[o] /\ names[o] = NoInode
        BY <1>2, <2>4, <3>3, <4>2
      <4>. QED
        BY <1>2, <1>4, <3>3, <4>1, <4>3
    <3>4. CASE o[1] # d /\ o[1] # e
      <4>1. \A m \in M : m[2] # o
        BY <3>4
      <4>2. names'[o] = names[o]
        BY <1>2, <1>4, <3>4, <4>1
      <4>. QED
        BY <3>4, <4>2
    <3>. QED
      BY <3>1, <3>2, <3>3, <3>4
  <2>6. UNCHANGED disk
    BY DEF RenameDir
  <2>. QED
    BY <1>2, <1>11, <2>1, <2>2, <2>3, <2>4, <2>5, <2>6

LEMMA ClearLinks ==
    ASSUME LinksInv, Disturbances = {}, nobody_waits, Clear
    PROVE  LinksInv'
<1>1. /\ \A t \in Threads : ~ busy(t)
      /\ item' = [i \in Inodes |-> NoItem] /\ UNCHANGED <<dir, disk, call>>
  BY DEF Clear, nobody_waits
<1>2. NamesInv /\ NamesInv'
  BY ClearStep DEF LinksInv
<1>3. ItemCountsLinks'
  BY <1>1 DEF ItemCountsLinks, settled, cached, NoItem
<1>4. ASSUME NEW t \in Threads PROVE counts_links(t)'
  <2>. PICK c : c = call[t]
    OBVIOUS
  <2>1. call'[t] = c /\ c.op = "none" /\ c.pc = "idle" /\ ~ past_getattr(c)
    BY <1>1, <1>2 DEF NamesInv, keeps_name, busy, past_getattr
  <2>. QED
    BY <2>1, CountsThen
<1>5. OneMakesItem'
  BY <1>1 DEF LinksInv, OneMakesItem
<1>. QED
  BY <1>2, <1>3, <1>4, <1>5 DEF LinksInv

LEMMA CheckpointLinks ==
    ASSUME LinksInv, IsFiniteSet(Paths), Checkpoint
    PROVE  LinksInv'
<1>1. NamesInv /\ TypeOK /\ NamesInv'
  BY CheckpointStep DEF LinksInv, NamesInv
<1>2. /\ item' = [i \in Inodes |-> IF mapped(i) # {} THEN [item[i] EXCEPT !.dirty = FALSE]
                                                   ELSE item[i]]
      /\ UNCHANGED <<dir, mapping, call>>
  BY DEF Checkpoint
<1>3. \A i \in Inodes : item'[i].nlinks = item[i].nlinks
  BY <1>1, <1>2 DEF TypeOK, Item
<1>4. \A p \in Paths : names[p] = dir[p] /\ names'[p] = dir[p]
  <2>1. \A t \in Threads : call[t].pc # "name"
    BY DEF Checkpoint, between
  <2>. QED
    BY <1>2, <2>1, NamesAre
<1>5. \A i \in Inodes : tracks(i)
  BY <1>3, <1>4, TracksSame
<1>6. \A u \in Threads : /\ busy(u) => steady(call[u].from)
                         /\ call[u].op = "rename" => steady(call[u].to)
  BY <1>1, <1>2, <1>4, CallTypes DEF steady
<1>. QED
  BY <1>1, <1>2, <1>5, <1>6, NameStep

-----------------------------------------------------------------------------

\* A file is created under a number without names, which no item has.
LEMMA BeginCreateLinks ==
    ASSUME LinksInv, IsFiniteSet(Paths), Disturbances = {},
           NEW t \in Threads, NEW p \in Paths, NEW i \in Inodes, BeginCreate(t, p, i)
    PROVE  /\ LinksInv' /\ \A j \in Inodes : tracks(j) /\ keeps_item(j)
           /\ names[p] = NoInode /\ \A o \in Paths : names[o] # i /\ dir[o] # i
           /\ names'[p] = i /\ \A o \in Paths : o # p => names'[o] = names[o]
           /\ ~ fresh(i) /\ ~ settled(i)
<1>. PICK a : a = asked("create", p, p)
  OBVIOUS
<1>. PICK c : c = [a EXCEPT !.pc = "getattr"]
  OBVIOUS
<1>1. NamesInv /\ TypeOK /\ MappedToOwnInode
  BY DEF LinksInv, NamesInv
<1>2. NamesInv'
  BY <1>1, BeginStep DEF Begin
<1>3. c.op = "create" /\ c.from = p /\ c.to = p /\ c.at = p /\ c.pc = "getattr"
  <2>1. "create" \in Ops
    BY DEF Ops
  <2>2. a \in Call /\ a.op = "create" /\ a.from = p /\ a.to = p /\ a.at = p
    BY <2>1, AskedIs
  <2>. QED
    BY <2>2 DEF Call
<1>4. /\ call' = [call EXCEPT ![t] = c] /\ call'[t] = c
      /\ dir' = [dir EXCEPT ![p] = i] /\ mapping' = mapping /\ item' = item
      /\ names_free /\ dir[p] = NoInode /\ links(i) = 0 /\ ~ busy(t)
  BY <1>1 DEF BeginCreate, begin, TypeOK
<1>5. \A u \in Threads : ~ changes_names(u) /\ call[u].pc # "name"
  BY <1>1, <1>4, NamesFree DEF NamesInv
<1>6. others(t) \in SUBSET Threads /\ \A u \in others(t) : u \in Threads /\ call'[u] = call[u]
  BY <1>1, <1>4 DEF others, TypeOK
<1>7. /\ dir'[p] = i /\ \A o \in Paths : o # p => dir'[o] = dir[o]
      /\ \A o \in Paths : names[o] = dir[o] /\ names'[o] = dir'[o]
  <2>1. \A u \in Threads : call'[u].pc # "name"
    BY <1>3, <1>4, <1>5, <1>6 DEF others
  <2>. QED
    BY <1>1, <1>4, <1>5, <2>1, NamesAre DEF TypeOK
<1>8. \A o \in Paths : dir[o] # i
  <2>1. links(i) = Cardinality(paths_with(dir, i))
    BY DEF links, paths_with
  <2>2. paths_with(dir, i) = {}
    BY <1>4, <2>1, CountType
  <2>. QED
    BY <2>2 DEF paths_with
<1>9. ~ fresh(i)
  <2>. SUFFICES ASSUME NEW u \in Threads, call[u].ino = i, call[u].pc \in {"new", "fill"}
                PROVE  FALSE
    BY DEF fresh
  <2>1. call[u].at \in Paths /\ counts_links(u) /\ finds_name(u)
    BY <1>1, CallTypes DEF LinksInv, NamesInv
  <2>2. names[call[u].at] = i
    BY <1>1, <2>1 DEF counts_links, finds_name, MappedToOwnInode
  <2>. QED
    BY <1>7, <1>8, <2>1, <2>2
<1>10. ~ settled(i)
  <2>1. paths_with(names, i) = {}
    BY <1>7, <1>8 DEF paths_with
  <2>2. Cardinality(names_of(i)) = 0
    BY <2>1, NamesOf, FS_EmptySet
  <2>. QED
    BY <2>2 DEF LinksInv, ItemCountsLinks, settled, cached
<1>11. \A j \in Inodes : tracks(j)
  <2>. SUFFICES ASSUME NEW j \in Inodes PROVE tracks(j)
    OBVIOUS
  <2>1. CASE j = i
    BY <1>4, <1>9, <1>10, <2>1 DEF tracks
  <2>2. CASE j # i
    <3>1. \A o \in Paths : names'[o] = j <=> names[o] = j
      BY <1>4, <1>7, <2>2, CacheNamesAssumption
    <3>. QED
      BY <1>4, <3>1, TracksSame
  <2>. QED
    BY <2>1, <2>2
<1>12. \A u \in others(t) : busy(u) => steady(call[u].from)
  BY <1>1, <1>4, <1>6, <1>7, CallTypes DEF NamesInv, keeps_name, steady
<1>13. \A u \in others(t) : call[u].op # "rename"
  BY <1>5, <1>6 DEF changes_names, NameOps
<1>14. counts_links(t)'
  <2>1. ~ past_getattr(c)
    BY <1>3 DEF past_getattr
  <2>. QED
    BY <1>3, <1>4, <2>1, CountsThen
<1>15. \A u \in Threads \ others(t) : /\ call[u].pc \notin {"new", "fill"}
                                      /\ call'[u].pc \notin {"new", "fill"}
                                      /\ counts_links(u)'
  BY <1>1, <1>3, <1>4, <1>14 DEF others, busy, NamesInv, keeps_name
<1>. QED
  <2>1. LinksInv'
    BY <1>2, <1>6, <1>11, <1>12, <1>13, <1>15, NameStep
  <2>2. \A j \in Inodes : keeps_item(j)
    BY <1>4 DEF keeps_item
  <2>. QED
    BY <1>4, <1>7, <1>8, <1>9, <1>10, <1>11, <2>1, <2>2

\* Every other call begins with lfs_getattr of its first name.
LEMMA BeginLinks ==
    ASSUME LinksInv, IsFiniteSet(Paths), Disturbances = {}, NEW t \in Threads, Begin(t)
    PROVE  LinksInv'
<1>1. NamesInv /\ TypeOK /\ NamesInv'
  BY BeginStep DEF LinksInv, NamesInv
<1>2. call[t].pc \notin {"name", "new", "fill"}
  <2>1. ~ busy(t)
    BY DEF Begin, BeginGetAttr, BeginFsync, BeginWrite, BeginNames, BeginCreate
  <2>. QED
    BY <1>1, <2>1 DEF NamesInv, keeps_name, busy
<1>3. ASSUME NEW c \in Call, c.op \in Ops \ {"none"}, c.at = c.from, c.pc = "idle",
             names[c.from] # NoInode,
             c.op = "link" => dir[c.to] = NoInode,
             c.op = "rename" => c.from # c.to /\ dir[c.to] # dir[c.from],
             item_at_rest(t, c.at), getattr(t, c), UNCHANGED <<dir, disk, item>>
      PROVE  LinksInv'
  <2>1. names[c.from] = dir[c.from] /\ dir[c.from] # NoInode
    BY <1>3, KnownNames DEF Call
  <2>2. named(c)
    BY <1>3, <2>1 DEF named
  <2>. QED
    BY <1>1, <1>2, <1>3, <2>1, <2>2, LooksUpLinks
<1>4. ASSUME NEW p \in Paths, item_at_rest(t, p), BeginGetAttr(t, p) \/ BeginFsync(t, p)
      PROVE  LinksInv'
  <2>. PICK op \in {"getattr", "fsync"} : /\ names[p] # NoInode /\ getattr(t, asked(op, p, p))
                                          /\ UNCHANGED <<dir, disk, item>>
    BY <1>4 DEF BeginGetAttr, BeginFsync
  <2>1. op \in Ops \ {"none"}
    BY DEF Ops
  <2>. PICK c : c = asked(op, p, p)
    OBVIOUS
  <2>2. c \in Call /\ c.op = op /\ c.from = p /\ c.to = p /\ c.at = p /\ c.pc = "idle"
    BY <2>1, AskedIs
  <2>. QED
    BY <1>3, <1>4, <2>1, <2>2
<1>5. ASSUME NEW p \in Paths, NEW len \in 1 .. MaxSize, NEW tag \in Tags,
             item_at_rest(t, p), BeginWrite(t, p, len, tag)
      PROVE  LinksInv'
  <2>. PICK a : a = asked("write", p, p)
    OBVIOUS
  <2>. PICK c : c = [a EXCEPT !.len = len, !.tag = tag]
    OBVIOUS
  <2>1. "write" \in Ops \ {"none"} /\ len \in 0 .. MaxSize
    BY CacheNamesAssumption DEF Ops
  <2>2. /\ a \in Call /\ a.op = "write" /\ a.from = p /\ a.to = p /\ a.at = p
        /\ a.pc = "idle"
    BY <2>1, AskedIs
  <2>3. c \in Call /\ c.op = "write" /\ c.from = p /\ c.to = p /\ c.at = p /\ c.pc = "idle"
    BY <2>1, <2>2 DEF Call
  <2>4. names[p] # NoInode /\ getattr(t, c) /\ UNCHANGED <<dir, disk, item>>
    BY <1>5 DEF BeginWrite
  <2>. QED
    BY <1>3, <1>5, <2>1, <2>3, <2>4
<1>6. ASSUME NEW op \in NameOps, NEW p \in Paths, NEW q \in Paths,
             item_at_rest(t, p), other_file(op, p, q), BeginNames(t, op, p, q)
      PROVE  LinksInv'
  <2>. PICK c : c = asked(op, p, q)
    OBVIOUS
  <2>1. op \in Ops \ {"none"}
    BY DEF Ops, NameOps
  <2>2. c \in Call /\ c.op = op /\ c.from = p /\ c.to = q /\ c.at = p /\ c.pc = "idle"
    BY <2>1, AskedIs
  <2>3. names[p] # NoInode /\ getattr(t, c) /\ UNCHANGED <<dir, disk, item>>
    BY <1>6 DEF BeginNames
  <2>4. /\ op = "rename" => p # q /\ dir[q] # dir[p]
        /\ op = "link" => dir[q] = NoInode
    BY <1>6 DEF BeginNames, other_file
  <2>. QED
    BY <1>3, <1>6, <2>1, <2>2, <2>3, <2>4
<1>. QED
  BY <1>4, <1>5, <1>6, BeginCreateLinks DEF Begin

LEMMA NextLinks ==
    ASSUME LinksInv, IsFiniteSet(Paths), Disturbances = {}, [Next]_vars
    PROVE  LinksInv'
<1>1. ASSUME NEW t \in Threads, Step(t) PROVE LinksInv'
  BY <1>1, GetAttrLinks, GetAttrNewLinks, GetAttrFillLinks, CreateItemLinks, WriteSizeLinks,
     WritePutLinks, WriteStoreLinks, SyncOwnerLinks, LinkLinks, LinkNameLinks, UnlinkLinks,
     RenameLinks DEF Step
<1>2. CASE UNCHANGED vars
  <2>1. UNCHANGED <<dir, disk, mapping, item, call>>
    BY <1>2 DEF vars
  <2>2. NamesInv'
    BY <1>2, NextInv DEF LinksInv
  <2>3. \A i : names_of(i)' = names_of(i)
    BY <2>1 DEF names_of, names
  <2>4. OneMakesItem' /\ ItemCountsLinks'
    BY <2>1, <2>3 DEF LinksInv, OneMakesItem, ItemCountsLinks, settled, fresh, cached
  <2>5. \A t \in Threads : counts_links(t)'
    BY <2>1, <2>3 DEF LinksInv, counts_links, past_getattr, has_item, settled, fresh, cached
  <2>. QED
    BY <2>2, <2>4, <2>5 DEF LinksInv
<1>. QED
  BY <1>1, <1>2, BeginLinks, RenameDirLinks, ClearLinks, CheckpointLinks DEF Next

\* While nothing disturbs the handlers, an item is made by one thread, from the count of
\* its file's names, and a call that is past its lfs_getattr has that item: why neither
\* lfs_link nor lfs_unlink can miss or repeat a count while lfs_getattr fills the item.
THEOREM LinksInvariant ==
    ASSUME Disturbances = {}, IsFiniteSet(Paths)
    PROVE  Spec => []LinksInv
<1>1. Init => LinksInv
  BY InitLinks
<1>2. LinksInv /\ [Next]_vars => LinksInv'
  BY NextLinks
<1>. QED
  BY <1>1, <1>2, PTL DEF Spec

\* A cached item counts the names of its file exactly: increase_nlinks, the unlinks of
\* remove_cached_item and rename_item, and the count that lstat returned agree with the
\* file system below: as long as nobody looks for an item while it is made, unlink and
\* rename below succeed, links are not renamed over links, and no clear comes between a
\* lookup and its call (Disturbances = {}).
THEOREM ItemsCountLinks ==
    ASSUME Disturbances = {}, IsFiniteSet(Paths)
    PROVE  Spec => []ItemCountsLinks
<1>1. LinksInv => ItemCountsLinks
  BY DEF LinksInv
<1>. QED
  BY <1>1, LinksInvariant, PTL
=============================================================================
