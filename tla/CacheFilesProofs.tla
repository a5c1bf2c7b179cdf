-------------------------- MODULE CacheFilesProofs --------------------------
(***************************************************************************)
(* Proofs about the data of the files in CacheNames: a sync writes what    *)
(* the readers see, and names and files behave as NamedFiles says.  They   *)
(* assume Disturbances = {}: of the users, the applications and the file   *)
(* system below, what CacheNames states under "What is assumed".  The code *)
(* does not provide it.                                                    *)
(***************************************************************************)
EXTENDS CacheLinksProofs

\* A write that stores its data is the only one of its file, and has the file's item.
LEMMA StoringHasItem ==
    ASSUME FilesInv, NEW t \in Threads, call[t].pc \in {"put", "store"}
    PROVE  /\ call[t].ino \in Inodes /\ settled(call[t].ino) /\ call[t].ino = dir[call[t].from]
           /\ is_data_call(t) /\ call[t].len \in 1 .. MaxSize /\ call[t].before \in 0 .. MaxSize
           /\ \A u \in Threads : call[u].ino = call[t].ino /\ call[u].pc \in {"put", "store"}
                                    => u = t
<1>1. \A u \in Threads : call[u].pc \in {"put", "store"} =>
         /\ is_data_call(u) /\ call[u].ino = dir[call[u].from]
         /\ past_getattr(call[u]) /\ data_call(u)
  BY DEF FilesInv, LinksInv, data_call, is_data_call, counts_links, past_getattr
<1>2. \A u \in Threads : call[u].ino = call[t].ino /\ call[u].pc \in {"put", "store"} => u = t
  BY <1>1 DEF FilesInv, OneDataCall
<1>3. TypeOK /\ LinksInv
  BY DEF FilesInv, LinksInv, NamesInv
<1>4. call[t].len \in 1 .. MaxSize /\ call[t].before \in 0 .. MaxSize
  BY <1>1, <1>3, CallTypes DEF data_call
<1>. QED
  BY <1>1, <1>2, <1>3, <1>4, HasItem

\* What a reader finds: the file itself without a set item, else the item's size, or that
\* of a write that has stored its data, and the item's data.
seen_is(i) ==
    /\ ~ settled(i) => seen(i) = disk[i]
    /\ settled(i) /\ (\A t \in Threads : call[t].pc = "store" => call[t].ino # i) =>
          seen(i) = [size |-> item[i].size,
                     tag  |-> IF item[i].size = 0 THEN Zero
                              ELSE IF item[i].tag # NoTag THEN item[i].tag ELSE disk[i].tag]
    /\ \A t \in Threads : call[t].pc = "store" /\ call[t].ino = i =>
          seen(i) = [size |-> longer(call[t].before, call[t].len), tag |-> item[i].tag]

LEMMA SeenIs ==
    FilesInv => \A i \in Inodes : seen_is(i)
<1>. SUFFICES ASSUME FilesInv, NEW i \in Inodes PROVE seen_is(i)
  OBVIOUS
<1>1. ~ settled(i) => seen(i) = disk[i]
  BY DEF settled, seen
<1>2. settled(i) /\ (\A t \in Threads : call[t].pc = "store" => call[t].ino # i) =>
         seen(i) = [size |-> item[i].size,
                    tag  |-> IF item[i].size = 0 THEN Zero
                             ELSE IF item[i].tag # NoTag THEN item[i].tag ELSE disk[i].tag]
  BY DEF settled, seen
<1>3. ASSUME NEW t \in Threads, call[t].pc = "store", call[t].ino = i
      PROVE  seen(i) = [size |-> longer(call[t].before, call[t].len), tag |-> item[i].tag]
  <2>. DEFINE v == CHOOSE u \in Threads : call[u].ino = i /\ call[u].pc = "store"
              n == longer(call[v].before, call[v].len)
  <2>1. settled(i) /\ v \in Threads /\ call[v].ino = i /\ call[v].pc = "store"
    BY <1>3, StoringHasItem
  <2>2. v = t
    BY <1>3, <2>1, StoringHasItem
  <2>3. item[i].dirty /\ item[i] \in Item
    BY <1>3 DEF FilesInv, LinksInv, NamesInv, TypeOK, data_call
  <2>4. item[i].tag # NoTag
    BY <2>3 DEF Item
  <2>5. longer(call[t].before, call[t].len) # 0
    BY <1>3, StoringHasItem DEF longer
  <2>6. seen(i) = [size |-> n, tag |-> IF n = 0 THEN Zero
                               ELSE IF item[i].tag # NoTag THEN item[i].tag ELSE disk[i].tag]
    BY <1>3, <2>1 DEF seen, settled
  <2>. HIDE DEF v
  <2>. QED
    BY <2>2, <2>4, <2>5, <2>6
<1>. QED
  BY <1>1, <1>2, <1>3 DEF seen_is

\* The same after a step.
LEMMA SeenThen ==
    (FilesInv => \A i \in Inodes : seen_is(i))'
  BY SeenIs, PTL

\* A reader finds what he found in a file whose item and writes are left alone.
LEMMA SeenOther ==
    ASSUME NEW i, seen_is(i), seen_is(i)', settled(i)' <=> settled(i), disk'[i] = disk[i],
           settled(i) => item'[i].size = item[i].size /\ item'[i].tag = item[i].tag,
           \A u \in Threads : \/ call'[u] = call[u]
                              \/ /\ call[u].pc # "store" \/ call[u].ino # i
                                 /\ call'[u].pc # "store" \/ call'[u].ino # i
    PROVE  seen(i)' = seen(i)
<1>1. CASE ~ settled(i)
  BY <1>1 DEF seen_is
<1>2. CASE settled(i) /\ \E u \in Threads : call[u].pc = "store" /\ call[u].ino = i
  <2>. PICK u \in Threads : call[u].pc = "store" /\ call[u].ino = i
    BY <1>2
  <2>1. call'[u] = call[u]
    OBVIOUS
  <2>. QED
    BY <1>2, <2>1 DEF seen_is
<1>3. CASE settled(i) /\ \A u \in Threads : call[u].pc = "store" => call[u].ino # i
  <2>1. \A u \in Threads : call'[u].pc = "store" => call'[u].ino # i
    BY <1>3
  <2>. QED
    BY <1>3, <2>1 DEF seen_is
<1>. QED
  BY <1>1, <1>2, <1>3

-----------------------------------------------------------------------------
(* The invariant.                                                          *)

LEMMA InitFiles ==
    ASSUME Init
    PROVE  FilesInv
<1>1. LinksInv
  BY InitLinks
<1>2. \A t \in Threads : call[t] = NoCall /\ NoCall.op = "none" /\ NoCall.pc = "idle"
  BY DEF Init, NoCall
<1>3. \A t \in Threads : data_call(t) /\ ~ is_data_call(t)
  BY <1>2 DEF data_call, is_data_call
<1>4. \A i \in Inodes : clean(i)
  <2>. TAKE i \in Inodes
  <2>1. disk[i].size = 0 => disk[i].tag = Zero
    BY DEF Init, Empty
  <2>2. ~ settled(i)
    BY DEF Init, settled, cached, NoItem
  <2>. QED
    BY <2>1, <2>2 DEF clean
<1>. QED
  BY <1>1, <1>3, <1>4 DEF FilesInv, OneDataCall

\* A call that is not touched keeps its data in a step that keeps what they are of.
keeps_data(u) ==
    LET c == call[u]
        i == c.ino
    IN  /\ call'[u] = c
        /\ is_data_call(u) => dir'[c.from] = dir[c.from]
        /\ c.pc \in {"new", "fill"} => disk'[i].size = disk[i].size
        /\ c.pc = "fill" => item'[i].tag = NoTag
        /\ c.pc = "put" => item'[i].size = item[i].size
        /\ c.pc = "store" => item'[i].dirty

\* A step that leaves the calls of the threads U alone.
LEMMA FilesStep ==
    ASSUME FilesInv, LinksInv', NEW U \in SUBSET Threads,
           \A u \in U : keeps_data(u),
           \A t \in Threads \ U :
              /\ data_call(t)'
              /\ \A u \in Threads : is_data_call(t)' /\ is_data_call(u)' /\
                    dir'[call'[t].from] = dir'[call'[u].from] => t = u,
           \A i \in Inodes : clean(i)'
    PROVE  FilesInv'
<1>1. \A u \in U : /\ u \in Threads /\ data_call(u)' /\ call'[u] = call[u]
                   /\ is_data_call(u)' => is_data_call(u) /\ dir'[call'[u].from] = dir[call[u].from]
  BY DEF FilesInv, keeps_data, data_call, is_data_call
<1>2. OneDataCall'
  BY <1>1 DEF FilesInv, OneDataCall
<1>. QED
  BY <1>1, <1>2 DEF FilesInv

\* Data that stays is as clean as it was.
LEMMA CleanKept ==
    ASSUME NEW i \in Inodes, clean(i), disk'[i] = disk[i],
           settled(i)' => \/ item'[i].tag = NoTag
                          \/ item'[i].dirty
                          \/ /\ settled(i)
                             /\ item'[i].size = item[i].size /\ item'[i].tag = item[i].tag
                             /\ item'[i].dirty = item[i].dirty
    PROVE  clean(i)'
  BY DEF clean

\* A step of thread t that changes no name below.
LEMMA OneThreadFiles ==
    ASSUME FilesInv, LinksInv', NEW t \in Threads, NEW r, call' = [call EXCEPT ![t] = r],
           dir' = dir, \A u \in others(t) : keeps_data(u), data_call(t)',
           r.op \in {"write", "fsync"} =>
              \A u \in others(t) : is_data_call(u) => dir[call[u].from] # dir[r.from],
           \A i \in Inodes : clean(i)'
    PROVE  FilesInv'
<1>1. call'[t] = r /\ \A u \in others(t) : u \in Threads /\ call'[u] = call[u]
  BY DEF FilesInv, LinksInv, NamesInv, TypeOK, others
<1>2. \A u \in others(t) : is_data_call(u)' => is_data_call(u)
  BY <1>1 DEF is_data_call
<1>3. \A u \in Threads : is_data_call(t)' /\ is_data_call(u)' /\
         dir'[call'[t].from] = dir'[call'[u].from] => t = u
  BY <1>1, <1>2 DEF is_data_call, others
<1>4. \A v \in Threads \ others(t) : v = t
  BY DEF others
<1>5. others(t) \in SUBSET Threads
  BY DEF others
<1>. QED
  BY <1>3, <1>4, <1>5, FilesStep

-----------------------------------------------------------------------------
(* lfs_getattr.                                                            *)

LEMMA ResumedData ==
    ASSUME NEW c \in Call
    PROVE  LET r == resumed(c)
           IN  /\ r.pc = "size" => r.op = "write"
               /\ r.pc = "sync" => r.op = "fsync"
               /\ r.op = "write" => c.op = "write" /\ r.len = c.len
               /\ r.pc \notin {"new", "fill", "put", "store"}
  BY DEF resumed, Call, NoCall

\* lfs_getattr changes no data; a write or fsync that it serves is the file's only one.
LEMMA LooksUpFiles ==
    ASSUME FilesInv, LinksInv', NEW t \in Threads, NEW c \in Call, named(c),
           call[t].pc \notin {"new", "fill"}, names[c.at] = dir[c.at],
           c.op = "write" => c.len >= 1,
           c.op \in {"write", "fsync"} =>
              \A u \in others(t) : is_data_call(u) => dir[call[u].from] # dir[c.from],
           getattr(t, c), UNCHANGED <<dir, disk, item>>
    PROVE  FilesInv'
<1>. PICK i : i = inode_of(c.at)
  OBVIOUS
<1>. PICK n : n = [c EXCEPT !.pc = "new", !.ino = i, !.size = disk[dir[c.at]].size,
                            !.nlinks = links(dir[c.at])]
  OBVIOUS
<1>. PICK r : r = IF cached(i) THEN resumed(c) ELSE n
  OBVIOUS
<1>1. LinksInv /\ NamesInv /\ TypeOK /\ c.at \in Paths
  BY DEF FilesInv, LinksInv, NamesInv, Call
<1>2. i = dir[c.at]
  BY <1>1 DEF inode_of, NamesInv, MappedToOwnInode
<1>3. call' = [call EXCEPT ![t] = r] /\ call'[t] = r
  BY <1>1 DEF getattr, begin, inode_of, TypeOK
<1>4. /\ n.pc = "new" /\ n.ino = i /\ n.size = disk[i].size /\ n.op = c.op /\ n.from = c.from
      /\ n.len = c.len
  BY <1>2 DEF Call
<1>5. /\ r.pc \in {"size", "put", "store"} => r.op = "write"
      /\ r.pc = "sync" => r.op = "fsync"
      /\ r.op = "write" => r.len >= 1
      /\ r.pc \notin {"fill", "put", "store"}
      /\ r.pc = "new" => r.ino = i /\ r.size = disk[i].size
      /\ r.op # "none" => r.op = c.op /\ r.from = c.from
  BY <1>1, <1>4, ResumedData, Resumed
<1>6. data_call(t)'
  BY <1>3, <1>5 DEF data_call
<1>7. \A u \in others(t) : keeps_data(u)
  BY <1>1, <1>3 DEF others, keeps_data, TypeOK, FilesInv, data_call
<1>8. \A j \in Inodes : settled(j)' => settled(j)
  <2>1. \A j \in Inodes : fresh(j) => fresh(j)'
    BY <1>1, <1>3, FreshStep DEF fresh, others
  <2>. QED
    BY <2>1 DEF settled, cached
<1>9. \A j \in Inodes : clean(j)'
  BY <1>8, CleanKept DEF FilesInv
<1>. QED
  BY <1>3, <1>5, <1>6, <1>7, <1>9, OneThreadFiles

LEMMA GetAttrFiles ==
    ASSUME FilesInv, IsFiniteSet(Paths), Disturbances = {}, NEW t \in Threads,
           item_at_rest(t, call[t].at), GetAttr(t)
    PROVE  FilesInv'
<1>. DEFINE c == call[t]
<1>1. LinksInv /\ LinksInv' /\ c.pc = "getattr"
  BY GetAttrLinks DEF FilesInv, GetAttr
<1>2. c \in Call /\ named(c) /\ names[c.at] = dir[c.at]
  BY <1>1, GetAttrServes
<1>3. c.op = "write" => c.len >= 1
  BY DEF FilesInv, data_call
<1>4. c.op \in {"write", "fsync"} =>
         \A u \in others(t) : is_data_call(u) => dir[call[u].from] # dir[c.from]
  BY DEF FilesInv, OneDataCall, is_data_call, others
<1>5. getattr(t, c) /\ UNCHANGED <<dir, disk, item>>
  BY DEF GetAttr
<1>. QED
  BY <1>1, <1>2, <1>3, <1>4, <1>5, LooksUpFiles

\* The item of a file is made by one thread, and the calls that use the data have others.
LEMMA MadeApart ==
    ASSUME FilesInv, NEW t \in Threads, call[t].pc \in {"new", "fill"}
    PROVE  \A u \in others(t) :
              call[u].pc \in {"new", "fill", "put", "store"} => call[u].ino # call[t].ino
<1>1. LinksInv
  BY DEF FilesInv
<1>. QED
  BY <1>1, MadeByOne, StoringHasItem DEF others

LEMMA GetAttrNewFiles ==
    ASSUME FilesInv, NEW t \in Threads, GetAttrNew(t)
    PROVE  FilesInv'
<1>. PICK c : c = call[t]
  OBVIOUS
<1>. PICK i : i = c.ino
  OBVIOUS
<1>. PICK r : r = [c EXCEPT !.pc = "fill"]
  OBVIOUS
<1>1. LinksInv' /\ LinksInv /\ TypeOK /\ counts_links(t) /\ data_call(t)
  BY GetAttrNewLinks DEF FilesInv, LinksInv, NamesInv
<1>2. c \in Call /\ c.pc = "new" /\ i \in Inodes
  BY <1>1, CallTypes, MadeByOne DEF GetAttrNew
<1>3. r.pc = "fill" /\ r.op = c.op /\ r.from = c.from /\ r.ino = i /\ r.size = c.size
      /\ r.len = c.len
  BY <1>2 DEF Call
<1>4. call' = [call EXCEPT ![t] = r] /\ call'[t] = r /\ UNCHANGED <<dir, disk>>
  BY <1>1, <1>2 DEF GetAttrNew, goto, TypeOK
<1>5. item'[i].tag = NoTag /\ \A j \in Inodes : j # i => item'[j] = item[j]
  <2>1. item' = [item EXCEPT ![i] = NewItem]
    BY <1>1, <1>2 DEF counts_links, GetAttrNew
  <2>. QED
    BY <1>1, <1>2, <2>1 DEF TypeOK, NewItem, NoItem
<1>6. data_call(t)'
  BY <1>1, <1>2, <1>3, <1>4, <1>5 DEF data_call
<1>7. \A u \in others(t) : keeps_data(u)
  <2>. TAKE u \in others(t)
  <2>1. u \in Threads /\ call'[u] = call[u] /\ data_call(u) /\ call[u].ino \in Inodes \cup {NoInode}
    BY <1>1, <1>4, CallTypes DEF others, TypeOK, FilesInv
  <2>2. call[u].pc \in {"new", "fill", "put", "store"} => call[u].ino \in Inodes \ {i}
    BY <1>1, <1>2, <2>1, MadeApart, MadeByOne, StoringHasItem
  <2>. QED
    BY <1>4, <1>5, <2>1, <2>2 DEF keeps_data, data_call
<1>8. \A j \in Inodes : clean(j)'
  <2>1. \A j \in Inodes : fresh(j) => fresh(j)'
    BY <1>1, <1>2, <1>3, <1>4, FreshStep DEF fresh, others
  <2>2. \A j \in Inodes : j # i /\ settled(j)' => settled(j)
    BY <1>5, <2>1 DEF settled, cached
  <2>. QED
    BY <1>4, <1>5, <2>2, CleanKept DEF FilesInv
<1>9. r.op \in {"write", "fsync"} =>
         \A u \in others(t) : is_data_call(u) => dir[call[u].from] # dir[r.from]
  BY <1>3 DEF FilesInv, OneDataCall, is_data_call, others
<1>. QED
  BY <1>1, <1>4, <1>6, <1>7, <1>8, <1>9, OneThreadFiles

LEMMA GetAttrFillFiles ==
    ASSUME FilesInv, NEW t \in Threads, GetAttrFill(t)
    PROVE  FilesInv'
<1>. PICK c : c = call[t]
  OBVIOUS
<1>. PICK i : i = c.ino
  OBVIOUS
<1>. PICK r : r = resumed(c)
  OBVIOUS
<1>1. LinksInv' /\ LinksInv /\ TypeOK /\ counts_links(t) /\ data_call(t)
  BY GetAttrFillLinks DEF FilesInv, LinksInv, NamesInv
<1>2. c \in Call /\ c.pc = "fill" /\ i \in Inodes /\ named(c)
  BY <1>1, CallTypes, MadeByOne, FillServes DEF GetAttrFill
<1>3. /\ r.pc = "size" => r.op = "write"
      /\ r.pc = "sync" => r.op = "fsync"
      /\ r.op = "write" => r.len = c.len
      /\ r.pc \notin {"new", "fill", "put", "store"}
      /\ r.op # "none" => r.op = c.op /\ r.from = c.from
  BY <1>1, <1>2, ResumedData, Resumed
<1>4. call' = [call EXCEPT ![t] = r] /\ call'[t] = r /\ UNCHANGED <<dir, disk>>
  BY <1>1, <1>2 DEF GetAttrFill, begin, TypeOK
<1>5. item'[i].tag = NoTag /\ \A j \in Inodes : j # i => item'[j] = item[j]
  <2>1. item' = [item EXCEPT ![i] = [item[i] EXCEPT !.size = c.size, !.nlinks = c.nlinks]]
    BY <1>1, <1>2 DEF counts_links, GetAttrFill, TypeOK
  <2>2. item[i] \in Item /\ item[i].tag = NoTag
    BY <1>1, <1>2 DEF TypeOK, data_call
  <2>. QED
    BY <1>1, <1>2, <2>1, <2>2 DEF TypeOK, Item
<1>6. data_call(t)'
  BY <1>1, <1>3, <1>4 DEF data_call
<1>7. \A u \in others(t) : keeps_data(u)
  <2>. TAKE u \in others(t)
  <2>1. u \in Threads /\ call'[u] = call[u] /\ data_call(u) /\ call[u].ino \in Inodes \cup {NoInode}
    BY <1>1, <1>4, CallTypes DEF others, TypeOK, FilesInv
  <2>2. call[u].pc \in {"new", "fill", "put", "store"} => call[u].ino \in Inodes \ {i}
    BY <1>1, <1>2, <2>1, MadeApart, MadeByOne, StoringHasItem
  <2>. QED
    BY <1>4, <1>5, <2>1, <2>2 DEF keeps_data, data_call
<1>8. \A j \in Inodes : clean(j)'
  <2>1. \A j \in Inodes : j # i /\ fresh(j) => fresh(j)'
    BY <1>1, <1>2, <1>3, <1>4, FreshStep DEF fresh, others
  <2>2. \A j \in Inodes : j # i /\ settled(j)' => settled(j)
    BY <1>5, <2>1 DEF settled, cached
  <2>. QED
    BY <1>4, <1>5, <2>2, CleanKept DEF FilesInv
<1>9. r.op \in {"write", "fsync"} =>
         \A u \in others(t) : is_data_call(u) => dir[call[u].from] # dir[r.from]
  BY <1>3 DEF FilesInv, OneDataCall, is_data_call, others
<1>. QED
  BY <1>1, <1>4, <1>6, <1>7, <1>8, <1>9, OneThreadFiles

-----------------------------------------------------------------------------
(* Writes and syncs.                                                       *)

\* A step of a call with a set item that keeps the links: no item is made or goes.
LEMMA SettledSame ==
    ASSUME TypeOK, NEW t \in Threads, NEW r, call' = [call EXCEPT ![t] = r],
           call[t].pc \notin {"new", "fill"}, r.pc \notin {"new", "fill"},
           \A i \in Inodes : item'[i].nlinks = item[i].nlinks
    PROVE  \A i \in Inodes : settled(i)' <=> settled(i)
<1>1. \A i \in Inodes : fresh(i)' <=> fresh(i)
  BY FreshStep DEF fresh, others
<1>. QED
  BY <1>1 DEF settled, cached

\* A call that returns, or goes on, with its data.
LEMMA DataCallThen ==
    ASSUME NEW t \in Threads, NEW r, call'[t] = r,
           r.pc \in {"size", "put", "store"} => r.op = "write",
           r.pc = "sync" => r.op = "fsync",
           r.op = "write" => r.len >= 1,
           r.pc \notin {"new", "fill"},
           r.pc = "put" => r.before = item'[r.ino].size,
           r.pc = "store" => item'[r.ino].dirty
    PROVE  data_call(t)'
  BY DEF data_call

LEMMA ReturnsFiles ==
    ASSUME FilesInv, LinksInv', NEW t \in Threads, return(t), dir' = dir,
           \A u \in others(t) : keeps_data(u), \A i \in Inodes : clean(i)'
    PROVE  FilesInv'
<1>1. /\ call' = [call EXCEPT ![t] = NoCall] /\ call'[t] = NoCall
      /\ NoCall.op = "none" /\ NoCall.pc = "idle"
  BY Returned DEF FilesInv, LinksInv, NamesInv
<1>2. data_call(t)'
  BY <1>1, DataCallThen
<1>. QED
  BY <1>1, <1>2, OneThreadFiles

LEMMA CreateItemFiles ==
    ASSUME FilesInv, NEW t \in Threads, CreateItem(t)
    PROVE  FilesInv'
<1>1. LinksInv' /\ LinksInv /\ TypeOK
  BY CreateItemLinks DEF FilesInv, LinksInv, NamesInv
<1>2. call[t].pc = "made" /\ past_getattr(call[t]) /\ return(t)
  BY DEF CreateItem, past_getattr
<1>3. UNCHANGED <<dir, disk, item>>
  BY <1>1, <1>2, HasItem DEF CreateItem
<1>4. call' = [call EXCEPT ![t] = NoCall] /\ NoCall.pc = "idle"
  BY <1>1, <1>2, Returned
<1>5. \A i \in Inodes : clean(i)'
  BY <1>1, <1>2, <1>3, <1>4, SettledSame, CleanKept DEF FilesInv
<1>6. \A u \in others(t) : keeps_data(u)
  BY <1>1, <1>3, <1>4 DEF others, TypeOK, keeps_data, FilesInv, data_call
<1>. QED
  BY <1>1, <1>2, <1>3, <1>5, <1>6, ReturnsFiles

LEMMA WriteSizeFiles ==
    ASSUME FilesInv, NEW t \in Threads, WriteSize(t)
    PROVE  FilesInv'
<1>. PICK c : c = call[t]
  OBVIOUS
<1>. PICK i : i = dir[c.from]
  OBVIOUS
<1>. PICK r : r = [c EXCEPT !.pc = "put", !.ino = i, !.before = item[i].size]
  OBVIOUS
<1>1. LinksInv' /\ LinksInv /\ TypeOK /\ data_call(t) /\ c \in Call
  BY WriteSizeLinks, CallTypes DEF FilesInv, LinksInv, NamesInv
<1>2. c.pc = "size" /\ c.op = "write" /\ c.len >= 1 /\ past_getattr(c)
  BY <1>1 DEF WriteSize, past_getattr, data_call
<1>3. i \in Inodes /\ mapping[c.from] = i /\ cached(i)
  BY <1>1, <1>2, HasItem
<1>4. UNCHANGED <<dir, disk, item>> /\ call' = [call EXCEPT ![t] = r] /\ call'[t] = r
  BY <1>1, <1>3 DEF WriteSize, begin, TypeOK
<1>5. /\ r.pc = "put" /\ r.op = "write" /\ r.len = c.len /\ r.from = c.from
      /\ r.ino = i /\ r.before = item[i].size
  BY <1>1, <1>2 DEF Call
<1>6. data_call(t)'
  BY <1>2, <1>4, <1>5, DataCallThen
<1>7. \A j \in Inodes : clean(j)'
  BY <1>1, <1>2, <1>4, <1>5, SettledSame, CleanKept DEF FilesInv
<1>8. \A u \in others(t) : keeps_data(u)
  BY <1>1, <1>4 DEF others, TypeOK, keeps_data, FilesInv, data_call
<1>9. \A u \in others(t) : is_data_call(u) => dir[call[u].from] # dir[r.from]
  BY <1>2, <1>5 DEF FilesInv, OneDataCall, is_data_call, others
<1>. QED
  BY <1>1, <1>4, <1>6, <1>7, <1>8, <1>9, OneThreadFiles

LEMMA WritePutFiles ==
    ASSUME FilesInv, NEW t \in Threads, WritePut(t)
    PROVE  FilesInv'
<1>. PICK c : c = call[t]
  OBVIOUS
<1>. PICK i : i = c.ino
  OBVIOUS
<1>. PICK r : r = [c EXCEPT !.pc = "store", !.tag = Zero]
  OBVIOUS
<1>1. LinksInv' /\ LinksInv /\ TypeOK /\ data_call(t) /\ c \in Call
  BY WritePutLinks, CallTypes DEF FilesInv, LinksInv, NamesInv
<1>2. c.pc = "put" /\ c.op = "write" /\ c.len >= 1
  BY <1>1 DEF WritePut, data_call
<1>3. i \in Inodes /\ settled(i) /\ cached(i) /\ i = dir[c.from]
  BY <1>2, StoringHasItem DEF settled
<1>4. UNCHANGED <<dir, disk>> /\ call' = [call EXCEPT ![t] = r] /\ call'[t] = r
  BY <1>1, <1>3 DEF WritePut, begin, TypeOK
<1>5. r.pc = "store" /\ r.op = "write" /\ r.len = c.len /\ r.from = c.from /\ r.ino = i
  BY <1>1, <1>2 DEF Call
<1>6. /\ item'[i].dirty /\ item'[i].size = item[i].size /\ item'[i].nlinks = item[i].nlinks
      /\ \A j \in Inodes : j # i => item'[j] = item[j]
  <2>1. item' = [item EXCEPT ![i] = [item[i] EXCEPT !.tag = c.tag, !.dirty = TRUE]]
    BY <1>1, <1>3 DEF WritePut, TypeOK
  <2>2. item[i] \in Item
    BY <1>1, <1>3 DEF TypeOK
  <2>. QED
    BY <1>1, <1>3, <2>1, <2>2 DEF TypeOK, Item
<1>7. data_call(t)'
  BY <1>2, <1>4, <1>5, <1>6, DataCallThen
<1>8. \A j \in Inodes : clean(j)'
  <2>1. \A j \in Inodes : settled(j)' <=> settled(j)
    BY <1>1, <1>2, <1>4, <1>5, <1>6, SettledSame
  <2>. QED
    BY <1>4, <1>6, <2>1, CleanKept DEF FilesInv
<1>9. \A u \in others(t) : keeps_data(u)
  <2>. TAKE u \in others(t)
  <2>1. u \in Threads /\ call'[u] = call[u] /\ data_call(u)
    BY <1>1, <1>4 DEF others, TypeOK, FilesInv
  <2>2. call[u].pc \in {"fill", "put", "store"} => call[u].ino \in Inodes
    BY <1>1, <2>1, MadeByOne, StoringHasItem
  <2>3. call[u].pc = "fill" => call[u].ino # i
    BY <1>1, <1>3, <2>1, MadeByOne
  <2>. QED
    BY <1>4, <1>6, <2>1, <2>2, <2>3 DEF keeps_data, data_call
<1>10. \A u \in others(t) : is_data_call(u) => dir[call[u].from] # dir[r.from]
  BY <1>2, <1>5 DEF FilesInv, OneDataCall, is_data_call, others
<1>. QED
  BY <1>1, <1>4, <1>7, <1>8, <1>9, <1>10, OneThreadFiles

LEMMA WriteStoreFiles ==
    ASSUME FilesInv, NEW t \in Threads, WriteStore(t)
    PROVE  FilesInv'
<1>. PICK c : c = call[t]
  OBVIOUS
<1>. PICK i : i = c.ino
  OBVIOUS
<1>1. LinksInv' /\ LinksInv /\ TypeOK /\ data_call(t) /\ c \in Call
  BY WriteStoreLinks, CallTypes DEF FilesInv, LinksInv, NamesInv
<1>2. c.pc = "store" /\ return(t) /\ UNCHANGED <<dir, disk>> /\ item[i].dirty
  BY <1>1 DEF WriteStore, data_call
<1>3. i \in Inodes /\ settled(i) /\ cached(i)
  BY <1>2, StoringHasItem DEF settled
<1>4. call' = [call EXCEPT ![t] = NoCall] /\ NoCall.pc = "idle"
  BY <1>1, <1>2, Returned
<1>5. /\ item'[i].dirty /\ item'[i].nlinks = item[i].nlinks
      /\ \A j \in Inodes : j # i => item'[j] = item[j]
  <2>1. item' = [item EXCEPT ![i] = [item[i] EXCEPT !.size = longer(c.before, c.len)]]
    BY <1>1, <1>3 DEF WriteStore, TypeOK
  <2>2. item[i] \in Item
    BY <1>1, <1>3 DEF TypeOK
  <2>. QED
    BY <1>1, <1>2, <1>3, <2>1, <2>2 DEF TypeOK, Item
<1>6. \A j \in Inodes : clean(j)'
  <2>1. \A j \in Inodes : settled(j)' <=> settled(j)
    BY <1>1, <1>2, <1>4, <1>5, SettledSame
  <2>. QED
    BY <1>2, <1>5, <2>1, CleanKept DEF FilesInv
<1>7. \A u \in others(t) : keeps_data(u)
  <2>. TAKE u \in others(t)
  <2>1. u \in Threads /\ u # t /\ call'[u] = call[u] /\ data_call(u)
    BY <1>1, <1>4 DEF others, TypeOK, FilesInv
  <2>2. call[u].pc \in {"fill", "put", "store"} => call[u].ino \in Inodes \ {i}
    BY <1>1, <1>2, <1>3, <2>1, MadeByOne, StoringHasItem
  <2>. QED
    BY <1>2, <1>5, <2>1, <2>2 DEF keeps_data, data_call
<1>. QED
  BY <1>1, <1>2, <1>6, <1>7, ReturnsFiles

\* What a sync of inode i writes is clean.
LEMMA SyncedClean ==
    ASSUME TypeOK, NEW i \in Inodes, settled(i), clean(i),
           disk'[i] = synced(disk[i], item[i]),
           item'[i].size = item[i].size, item'[i].tag = item[i].tag
    PROVE  clean(i)'
  BY DEF clean, synced

\* sync_owner writes the item of the file of its path.
LEMMA SyncOwnerIs ==
    ASSUME LinksInv, NEW t \in Threads, SyncOwner(t)
    PROVE  LET i == dir[call[t].from]
           IN  /\ i \in Inodes /\ settled(i) /\ call[t].pc = "sync" /\ return(t)
               /\ UNCHANGED <<dir, mapping>>
               /\ disk'[i] = synced(disk[i], item[i])
               /\ item'[i].nlinks = item[i].nlinks /\ item'[i].size = item[i].size
               /\ item'[i].tag = item[i].tag /\ ~ item'[i].dirty
               /\ \A j \in Inodes : j # i => disk'[j] = disk[j] /\ item'[j] = item[j]
<1>. DEFINE i == dir[call[t].from]
<1>1. TypeOK /\ past_getattr(call[t]) /\ call[t].pc = "sync"
  BY DEF LinksInv, NamesInv, SyncOwner, past_getattr
<1>2. i \in Inodes /\ mapping[call[t].from] = i /\ settled(i) /\ cached(i) /\ item[i] \in Item
  BY <1>1, HasItem
<1>3. /\ disk' = [disk EXCEPT ![i] = synced(disk[i], item[i])]
      /\ item' = [item EXCEPT ![i] = [item[i] EXCEPT !.dirty = FALSE]]
      /\ return(t) /\ UNCHANGED <<dir, mapping>>
  BY <1>1, <1>2 DEF SyncOwner, TypeOK
<1>. QED
  BY <1>1, <1>2, <1>3 DEF TypeOK, Item

LEMMA SyncOwnerFiles ==
    ASSUME FilesInv, NEW t \in Threads, SyncOwner(t)
    PROVE  FilesInv'
<1>. PICK i : i = dir[call[t].from]
  OBVIOUS
<1>1. LinksInv' /\ LinksInv /\ TypeOK /\ data_call(t) /\ clean(i)
  BY SyncOwnerLinks, SyncOwnerIs DEF FilesInv, LinksInv, NamesInv
<1>2. /\ i \in Inodes /\ settled(i) /\ call[t].pc = "sync" /\ return(t)
      /\ dir' = dir
      /\ disk'[i] = synced(disk[i], item[i])
      /\ item'[i].nlinks = item[i].nlinks /\ item'[i].size = item[i].size
      /\ item'[i].tag = item[i].tag
      /\ \A j \in Inodes : j # i => disk'[j] = disk[j] /\ item'[j] = item[j]
  BY <1>1, SyncOwnerIs
<1>3. call' = [call EXCEPT ![t] = NoCall] /\ NoCall.pc = "idle"
  BY <1>1, <1>2, Returned
<1>4. \A j \in Inodes : settled(j)' <=> settled(j)
  BY <1>1, <1>2, <1>3, SettledSame
<1>5. \A j \in Inodes : clean(j)'
  BY <1>1, <1>2, <1>4, SyncedClean, CleanKept DEF FilesInv
<1>6. \A u \in others(t) : keeps_data(u)
  <2>. TAKE u \in others(t)
  <2>1. u \in Threads /\ u # t /\ call'[u] = call[u] /\ data_call(u)
    BY <1>1, <1>3 DEF others, TypeOK, FilesInv
  <2>2. call[u].pc \in {"new", "fill", "put", "store"} => call[u].ino \in Inodes
    BY <1>1, <2>1, MadeByOne, StoringHasItem
  <2>3. call[u].pc \in {"new", "fill"} => call[u].ino # i
    BY <1>1, <1>2, <2>1, MadeByOne
  <2>4. call[u].pc = "store" => call[u].ino # i
    BY <1>1, <1>2, <2>1, StoringHasItem DEF data_call, is_data_call, FilesInv, OneDataCall
  <2>. QED
    BY <1>2, <2>1, <2>2, <2>3, <2>4 DEF keeps_data, data_call
<1>. QED
  BY <1>1, <1>2, <1>5, <1>6, ReturnsFiles

\* full_checkpoint writes the item of every file that an entry of the map leads to, with
\* its data: the entries of an item, of which the first has the data, are its file's.
LEMMA CheckpointIs ==
    ASSUME NamesInv, Checkpoint, NEW i \in Inodes
    PROVE  /\ disk'[i] = IF cached(i) /\ mapped(i) # {} THEN synced(disk[i], item[i])
                                                      ELSE disk[i]
           /\ item'[i] = IF mapped(i) # {} THEN [item[i] EXCEPT !.dirty = FALSE] ELSE item[i]
           /\ \A t \in Threads : call[t].pc \in {"idle", "ready", "getattr"}
           /\ UNCHANGED <<dir, mapping, call>>
<1>1. \A t \in Threads : call[t].pc \in {"idle", "ready", "getattr"}
  BY DEF Checkpoint, between
<1>2. PICK first \in SUBSET Paths :
         /\ met_first(first)
         /\ disk' = [j \in Inodes |->
               LET into == {p \in Paths : dir[p] = j /\ cached(mapping[p])}
                   by   == CHOOSE p \in into : into \cap first # {} => p \in first
               IN  IF into = {} THEN disk[j]
                   ELSE synced(disk[j], [item[mapping[by]] EXCEPT !.dirty = @ /\ by \in first])]
  BY DEF Checkpoint
<1>. DEFINE into == {p \in Paths : dir[p] = i /\ cached(mapping[p])}
            by   == CHOOSE p \in into : into \cap first # {} => p \in first
<1>3. TypeOK /\ item[i] \in Item /\ i # NoInode
  BY CacheNamesAssumption DEF NamesInv, TypeOK
<1>4. \A p \in Paths : mapping[p] # NoInode => mapping[p] = dir[p]
  BY <1>1, NamesAre DEF NamesInv, MappedToOwnInode
<1>5. into = IF cached(i) THEN mapped(i) ELSE {}
  BY <1>3, <1>4 DEF mapped, cached
<1>6. CASE into = {}
  BY <1>1, <1>2, <1>5, <1>6 DEF Checkpoint
<1>7. CASE into # {}
  <2>1. cached(i) /\ mapped(i) # {} /\ mapped(i) = into
    BY <1>5, <1>7
  <2>2. into \cap first # {}
    BY <1>2, <2>1, FS_EmptySet DEF met_first
  <2>3. by \in into /\ by \in first
    BY <2>2
  <2>4. mapping[by] = i
    BY <2>1, <2>3 DEF mapped
  <2>5. disk'[i] = synced(disk[i], [item[mapping[by]] EXCEPT !.dirty = @ /\ by \in first])
    BY <1>2, <1>7
  <2>. HIDE DEF into, by
  <2>6. [item[i] EXCEPT !.dirty = @ /\ by \in first] = item[i]
    BY <1>3, <2>3 DEF Item
  <2>7. disk'[i] = synced(disk[i], item[i])
    BY <2>4, <2>5, <2>6
  <2>. QED
    BY <1>1, <2>1, <2>7 DEF Checkpoint
<1>. QED
  BY <1>6, <1>7

LEMMA CheckpointFiles ==
    ASSUME FilesInv, IsFiniteSet(Paths), Checkpoint
    PROVE  FilesInv'
<1>1. LinksInv' /\ NamesInv /\ TypeOK
  BY CheckpointLinks DEF FilesInv, LinksInv, NamesInv
<1>2. /\ \A t \in Threads : call[t].pc \in {"idle", "ready", "getattr"}
      /\ UNCHANGED <<dir, mapping, call>>
  BY DEF Checkpoint, between
<1>3. \A t \in Threads : keeps_data(t)
  BY <1>2 DEF keeps_data
<1>4. \A i \in Inodes : clean(i)'
  <2>. TAKE i \in Inodes
  <2>1. item[i] \in Item /\ clean(i)
    BY <1>1 DEF TypeOK, FilesInv
  <2>2. /\ item'[i].size = item[i].size /\ item'[i].tag = item[i].tag
        /\ item'[i].nlinks = item[i].nlinks
        /\ mapped(i) = {} => item'[i] = item[i]
    BY <1>1, <2>1, CheckpointIs DEF Item
  <2>3. settled(i)' <=> settled(i)
    BY <1>2, <2>2 DEF settled, cached, fresh
  <2>4. CASE settled(i) /\ mapped(i) # {}
    BY <1>1, <2>1, <2>2, <2>4, CheckpointIs, SyncedClean DEF settled
  <2>5. CASE ~ settled(i) /\ cached(i)
    BY <1>2, <2>5 DEF settled, fresh
  <2>6. CASE ~ cached(i) \/ mapped(i) = {}
    BY <1>1, <2>1, <2>2, <2>3, <2>6, CheckpointIs, CleanKept DEF settled
  <2>. QED
    BY <2>4, <2>5, <2>6 DEF settled
<1>. QED
  BY <1>1, <1>3, <1>4, FilesStep

-----------------------------------------------------------------------------
(* The steps that change names.                                            *)

\* No item is set by a step that leaves the calls of the threads U alone and follows the
\* names, and one of a file that keeps a name stays.
LEMMA TracksSettled ==
    ASSUME LinksInv, NEW U \in SUBSET Threads, \A u \in U : call'[u] = call[u],
           \A t \in Threads \ U : /\ call[t].pc \notin {"new", "fill"}
                                  /\ call'[t].pc \notin {"new", "fill"},
           IsFiniteSet(Paths), NEW i \in Inodes, tracks(i)
    PROVE  /\ settled(i)' => settled(i)
           /\ settled(i) /\ live(i)' => settled(i)'
<1>1. fresh(i)' <=> fresh(i)
  BY DEF fresh
<1>2. settled(i)' => settled(i)
  BY <1>1 DEF tracks, settled, cached
<1>3. settled(i) /\ live(i)' => settled(i)'
  <2>. SUFFICES ASSUME settled(i), live(i)' PROVE settled(i)'
    OBVIOUS
  <2>. PICK n : n = Cardinality(paths_with(names', i))
    OBVIOUS
  <2>1. n \in Nat /\ n # 0
    BY CountType, NamesOf DEF live
  <2>2. item'[i].nlinks = n
    BY <2>1 DEF tracks
  <2>. QED
    BY <1>1, <2>1, <2>2 DEF settled, cached
<1>. QED
  BY <1>2, <1>3

\* Such a step leaves the data of the items that stay.
LEMMA NameFiles ==
    ASSUME FilesInv, LinksInv', IsFiniteSet(Paths), NEW U \in SUBSET Threads,
           \A u \in U : /\ call'[u] = call[u]
                        /\ is_data_call(u) => dir'[call[u].from] = dir[call[u].from],
           \A t \in Threads \ U :
              /\ call[t].pc \notin {"new", "fill"}
              /\ call'[t].pc \notin {"new", "fill", "size", "put", "store", "sync"}
              /\ call'[t].op \notin {"write", "fsync"},
           \A i \in Inodes : tracks(i) /\ keeps_item(i),
           \A i \in Inodes : disk'[i] = disk[i] \/ (~ settled(i) /\ ~ fresh(i) /\ disk'[i] = Empty)
    PROVE  FilesInv'
<1>1. LinksInv /\ TypeOK
  BY DEF FilesInv, LinksInv, NamesInv
<1>2. \A t \in Threads \ U : data_call(t)' /\ ~ is_data_call(t)'
  BY DEF data_call, is_data_call
<1>3. \A i \in Inodes : clean(i)'
  <2>. TAKE i \in Inodes
  <2>1. settled(i)' => settled(i)
    BY <1>1, TracksSettled
  <2>2. CASE disk'[i] = disk[i]
    <3>1. keeps_item(i) /\ clean(i)
      BY DEF FilesInv
    <3>2. settled(i)' => item'[i] # NoItem
      BY DEF settled, cached, NoItem
    <3>. QED
      BY <2>1, <2>2, <3>1, <3>2, CleanKept DEF keeps_item
  <2>3. CASE ~ settled(i) /\ ~ fresh(i) /\ disk'[i] = Empty
    BY <2>1, <2>3 DEF clean, Empty
  <2>. QED
    BY <2>2, <2>3
<1>4. \A u \in U : keeps_data(u)
  <2>. TAKE u \in U
  <2>. PICK c : c = call[u]
    OBVIOUS
  <2>1. u \in Threads /\ call'[u] = c /\ data_call(u) /\ counts_links(u)'
    BY DEF FilesInv, LinksInv
  <2>2. c.pc \in {"new", "fill", "put", "store"} => c.ino \in Inodes
    BY <1>1, <2>1, MadeByOne, StoringHasItem
  <2>3. c.pc \in {"new", "fill"} => fresh(c.ino)
    BY <2>1 DEF fresh
  <2>4. c.pc \in {"put", "store"} => item'[c.ino] # NoItem
    <3>. SUFFICES ASSUME c.pc \in {"put", "store"} PROVE item'[c.ino] # NoItem
      OBVIOUS
    <3>. PICK j : j = dir'[c.from]
      OBVIOUS
    <3>1. c.ino = j /\ cached(j)'
      BY <2>1 DEF counts_links, past_getattr, has_item, settled, cached
    <3>. QED
      BY <3>1 DEF cached, NoItem
  <2>5. c.pc \in {"fill", "put", "store"} => keeps_item(c.ino)
    BY <2>2
  <2>6. c.pc \in {"new", "fill"} => disk'[c.ino].size = disk[c.ino].size
    BY <2>2, <2>3
  <2>7. c.pc = "fill" => item'[c.ino].tag = NoTag
    BY <2>1, <2>5 DEF keeps_item, NoItem, data_call
  <2>8. c.pc = "put" => item'[c.ino].size = item[c.ino].size
    BY <2>4, <2>5 DEF keeps_item
  <2>9. c.pc = "store" => item'[c.ino].dirty
    BY <2>1, <2>4, <2>5 DEF keeps_item, data_call
  <2>. QED
    BY <2>1, <2>6, <2>7, <2>8, <2>9 DEF keeps_data
<1>. QED
  BY <1>2, <1>3, <1>4, FilesStep

\* What a reader finds in a file that keeps a name.
LEMMA ReadersSame ==
    ASSUME FilesInv, FilesInv', IsFiniteSet(Paths), NEW U \in SUBSET Threads,
           \A u \in U : call'[u] = call[u],
           \A t \in Threads \ U : /\ call[t].pc \notin {"new", "fill", "put", "store"}
                                  /\ call'[t].pc \notin {"new", "fill", "put", "store"},
           NEW i \in Inodes, tracks(i), keeps_item(i), disk'[i] = disk[i], live(i)'
    PROVE  seen(i)' = seen(i)
<1>1. LinksInv
  BY DEF FilesInv
<1>2. settled(i)' <=> settled(i)
  BY <1>1, TracksSettled
<1>3. seen_is(i) /\ seen_is(i)'
  BY SeenIs, SeenThen
<1>4. settled(i) => item'[i].size = item[i].size /\ item'[i].tag = item[i].tag
  BY <1>2 DEF keeps_item, settled, cached, NoItem
<1>5. \A u \in Threads : \/ call'[u] = call[u]
                         \/ call[u].pc # "store" /\ call'[u].pc # "store"
  OBVIOUS
<1>. QED
  BY <1>2, <1>3, <1>4, <1>5, SeenOther

\* A step of thread t that changes names and leaves those of the other calls' data.
LEMMA OneThreadNames ==
    ASSUME FilesInv, LinksInv', IsFiniteSet(Paths), NEW t \in Threads, NEW r,
           call' = [call EXCEPT ![t] = r], call[t].pc \notin {"new", "fill"},
           r.pc \notin {"new", "fill", "size", "put", "store", "sync"},
           r.op \notin {"write", "fsync"},
           \A u \in others(t) : is_data_call(u) => dir'[call[u].from] = dir[call[u].from],
           \A i \in Inodes : tracks(i) /\ keeps_item(i),
           \A i \in Inodes : disk'[i] = disk[i] \/ (~ settled(i) /\ ~ fresh(i) /\ disk'[i] = Empty)
    PROVE  FilesInv'
<1>1. call'[t] = r /\ others(t) \in SUBSET Threads
  BY DEF FilesInv, LinksInv, NamesInv, TypeOK, others
<1>2. \A u \in others(t) : /\ call'[u] = call[u]
                           /\ is_data_call(u) => dir'[call[u].from] = dir[call[u].from]
  BY DEF FilesInv, LinksInv, NamesInv, TypeOK, others
<1>3. \A v \in Threads \ others(t) :
         /\ call[v].pc \notin {"new", "fill"}
         /\ call'[v].pc \notin {"new", "fill", "size", "put", "store", "sync"}
         /\ call'[v].op \notin {"write", "fsync"}
  BY <1>1 DEF others
<1>. QED
  BY <1>1, <1>2, <1>3, NameFiles

LEMMA LinkFiles ==
    ASSUME FilesInv, IsFiniteSet(Paths), NEW t \in Threads, Link(t)
    PROVE  FilesInv'
<1>. PICK r : r = [call[t] EXCEPT !.pc = "name"]
  OBVIOUS
<1>1. /\ LinksInv' /\ \A i \in Inodes : tracks(i) /\ keeps_item(i)
      /\ NamesInv /\ TypeOK /\ call[t] \in Call /\ keeps_name(t)
  BY LinkLinks, CallTypes DEF FilesInv, LinksInv, NamesInv
<1>2. /\ call[t].op = "link" /\ call[t].pc = "ready" /\ call' = [call EXCEPT ![t] = r]
      /\ r.pc = "name" /\ r.op = "link" /\ disk' = disk
      /\ dir' = [dir EXCEPT ![call[t].to] = dir[call[t].from]]
  BY <1>1 DEF Link, goto, Call
<1>3. \A u \in others(t) : is_data_call(u) => dir'[call[u].from] = dir[call[u].from]
  <2>. TAKE u \in others(t)
  <2>1. u \in Threads /\ call[u].from \in Paths /\ (is_data_call(u) => dir[call[u].from] # NoInode)
    BY <1>1, CallTypes DEF others, NamesInv, keeps_name, is_data_call, busy
  <2>. QED
    BY <1>1, <1>2, <2>1 DEF keeps_name, TypeOK
<1>. QED
  BY <1>1, <1>2, <1>3, OneThreadNames

\* A call that changes names returns.
LEMMA NamesReturnFiles ==
    ASSUME FilesInv, LinksInv', IsFiniteSet(Paths), NEW t \in Threads, return(t),
           call[t].pc \in {"ready", "name"}, disk' = disk,
           \A u \in others(t) : is_data_call(u) => dir'[call[u].from] = dir[call[u].from],
           \A i \in Inodes : tracks(i) /\ keeps_item(i)
    PROVE  FilesInv'
<1>1. /\ call' = [call EXCEPT ![t] = NoCall] /\ NoCall.op = "none" /\ NoCall.pc = "idle"
  BY Returned DEF FilesInv, LinksInv, NamesInv
<1>. QED
  BY <1>1, OneThreadNames

LEMMA LinkNameFiles ==
    ASSUME FilesInv, IsFiniteSet(Paths), NEW t \in Threads, LinkName(t)
    PROVE  FilesInv'
<1>1. LinksInv' /\ \A i \in Inodes : tracks(i) /\ keeps_item(i)
  BY LinkNameLinks DEF FilesInv
<1>. QED
  BY <1>1, NamesReturnFiles DEF LinkName

\* The calls of the other threads are for names that stay.
LEMMA AloneFiles ==
    ASSUME FilesInv, LinksInv', IsFiniteSet(Paths), NEW t \in Threads, return(t), alone(t),
           busy(t), call[t].pc = "ready", disk' = disk,
           \A o \in Paths : o \notin {call[t].from, call[t].to} => dir'[o] = dir[o],
           \A i \in Inodes : tracks(i) /\ keeps_item(i)
    PROVE  FilesInv'
<1>1. \A u \in others(t) : is_data_call(u) => dir'[call[u].from] = dir[call[u].from]
  <2>. TAKE u \in others(t)
  <2>1. call[u].from \in Paths
    BY CallTypes DEF FilesInv, LinksInv, NamesInv, others
  <2>. QED
    BY <2>1 DEF alone, used, is_data_call, busy
<1>. QED
  BY <1>1, NamesReturnFiles

LEMMA UnlinkFiles ==
    ASSUME FilesInv, IsFiniteSet(Paths), Disturbances = {}, NEW t \in Threads, Unlink(t)
    PROVE  FilesInv'
<1>1. LinksInv' /\ \A i \in Inodes : tracks(i) /\ keeps_item(i)
  BY UnlinkLinks DEF FilesInv
<1>2. /\ busy(t) /\ call[t].pc = "ready" /\ alone(t) /\ return(t) /\ disk' = disk
      /\ dir' = [dir EXCEPT ![call[t].from] = NoInode]
  BY DEF Unlink, busy, below
<1>3. \A o \in Paths : o \notin {call[t].from, call[t].to} => dir'[o] = dir[o]
  BY <1>2 DEF FilesInv, LinksInv, NamesInv, TypeOK
<1>. QED
  BY <1>1, <1>2, <1>3, AloneFiles

LEMMA RenameFiles ==
    ASSUME FilesInv, IsFiniteSet(Paths), Disturbances = {}, NEW t \in Threads, Rename(t)
    PROVE  FilesInv'
<1>1. LinksInv' /\ \A i \in Inodes : tracks(i) /\ keeps_item(i)
  BY RenameLinks DEF FilesInv
<1>2. /\ busy(t) /\ call[t].pc = "ready" /\ alone(t) /\ return(t) /\ disk' = disk
      /\ dir' = IF dir[call[t].from] = dir[call[t].to] THEN dir
                ELSE [dir EXCEPT ![call[t].to] = dir[call[t].from], ![call[t].from] = NoInode]
  BY DEF Rename, busy, below
<1>3. \A o \in Paths : o \notin {call[t].from, call[t].to} => dir'[o] = dir[o]
  BY <1>2 DEF FilesInv, LinksInv, NamesInv, TypeOK
<1>. QED
  BY <1>1, <1>2, <1>3, AloneFiles

LEMMA RenameDirFiles ==
    ASSUME FilesInv, IsFiniteSet(Paths), Disturbances = {}, NEW d, NEW e, RenameDir(d, e)
    PROVE  FilesInv'
<1>1. /\ LinksInv' /\ \A i \in Inodes : tracks(i) /\ keeps_item(i)
      /\ call' = call /\ disk' = disk
      /\ \A u \in Threads : busy(u) => dir'[call[u].from] = dir[call[u].from]
  BY RenameDirLinks DEF FilesInv
<1>2. \A u \in Threads : is_data_call(u) => busy(u)
  BY DEF is_data_call, busy
<1>. QED
  BY <1>1, <1>2, NameFiles

LEMMA BeginCreateFiles ==
    ASSUME FilesInv, IsFiniteSet(Paths), Disturbances = {},
           NEW t \in Threads, NEW p \in Paths, NEW i \in Inodes, BeginCreate(t, p, i)
    PROVE  FilesInv'
<1>. PICK r : r = [asked("create", p, p) EXCEPT !.pc = "getattr"]
  OBVIOUS
<1>1. /\ LinksInv' /\ \A j \in Inodes : tracks(j) /\ keeps_item(j)
      /\ ~ fresh(i) /\ ~ settled(i) /\ NamesInv /\ TypeOK
  BY BeginCreateLinks DEF FilesInv, LinksInv, NamesInv
<1>2. /\ ~ busy(t) /\ call' = [call EXCEPT ![t] = r] /\ dir[p] = NoInode
      /\ dir' = [dir EXCEPT ![p] = i] /\ disk' = [disk EXCEPT ![i] = Empty]
  BY DEF BeginCreate, begin
<1>3. r.op = "create" /\ r.pc = "getattr"
  BY AskedIs, StartTypes DEF Ops, asked, Call
<1>4. call[t].pc = "idle"
  BY <1>1, <1>2 DEF NamesInv, keeps_name, busy
<1>5. \A u \in others(t) : is_data_call(u) => dir'[call[u].from] = dir[call[u].from]
  <2>. TAKE u \in others(t)
  <2>1. u \in Threads /\ call[u].from \in Paths /\ (is_data_call(u) => dir[call[u].from] # NoInode)
    BY <1>1, CallTypes DEF others, NamesInv, keeps_name, is_data_call, busy
  <2>. QED
    BY <1>1, <1>2, <2>1 DEF TypeOK
<1>6. \A j \in Inodes : disk'[j] = disk[j] \/ (~ settled(j) /\ ~ fresh(j) /\ disk'[j] = Empty)
  BY <1>1, <1>2 DEF TypeOK
<1>. QED
  BY <1>1, <1>2, <1>3, <1>4, <1>5, <1>6, OneThreadNames

-----------------------------------------------------------------------------
(* The commands, and the whole.                                            *)

LEMMA ClearFiles ==
    ASSUME FilesInv, Disturbances = {}, nobody_waits, Clear
    PROVE  FilesInv'
<1>1. LinksInv'
  BY ClearLinks DEF FilesInv
<1>2. /\ \A t \in Threads : ~ busy(t) /\ call'[t] = call[t] /\ keeps_name(t)
      /\ disk' = disk /\ item' = [i \in Inodes |-> NoItem]
  BY DEF Clear, nobody_waits, FilesInv, LinksInv, NamesInv
<1>3. \A t \in Threads : keeps_data(t)
  BY <1>2 DEF keeps_data, busy, is_data_call, keeps_name
<1>4. \A i \in Inodes : clean(i)'
  <2>. TAKE i \in Inodes
  <2>1. ~ settled(i)'
    BY <1>2 DEF settled, cached, NoItem
  <2>. QED
    BY <1>2, <2>1 DEF FilesInv, clean
<1>. QED
  BY <1>1, <1>3, <1>4, FilesStep

LEMMA BeginFiles ==
    ASSUME FilesInv, IsFiniteSet(Paths), Disturbances = {}, NEW t \in Threads, Begin(t)
    PROVE  FilesInv'
<1>1. LinksInv /\ LinksInv' /\ NamesInv /\ TypeOK
  BY BeginLinks DEF FilesInv, LinksInv, NamesInv
<1>2. call[t].pc \notin {"new", "fill"}
  <2>1. ~ busy(t)
    BY DEF Begin, BeginGetAttr, BeginFsync, BeginWrite, BeginNames, BeginCreate
  <2>. QED
    BY <1>1, <2>1 DEF NamesInv, keeps_name, busy
<1>3. ASSUME NEW c \in Call, c.op \in Ops \ {"none"}, c.at = c.from, c.pc = "idle",
             names[c.from] # NoInode,
             c.op = "link" => dir[c.to] = NoInode,
             c.op = "rename" => c.from # c.to,
             c.op = "write" => c.len >= 1,
             c.op \in {"write", "fsync"} => one_name(c.from),
             getattr(t, c), UNCHANGED <<dir, disk, item>>
      PROVE  FilesInv'
  <2>1. names[c.from] = dir[c.from] /\ dir[c.from] # NoInode
    BY <1>3, KnownNames DEF Call
  <2>2. named(c)
    BY <1>3, <2>1 DEF named
  <2>3. c.op \in {"write", "fsync"} =>
           \A u \in others(t) : is_data_call(u) => dir[call[u].from] # dir[c.from]
    BY <1>3 DEF one_name, is_data_call, others
  <2>. QED
    BY <1>1, <1>2, <1>3, <2>1, <2>2, <2>3, LooksUpFiles
<1>4. ASSUME NEW p \in Paths, BeginGetAttr(t, p) \/ (one_name(p) /\ BeginFsync(t, p))
      PROVE  FilesInv'
  <2>. PICK op \in {"getattr", "fsync"} : /\ names[p] # NoInode /\ getattr(t, asked(op, p, p))
                                          /\ UNCHANGED <<dir, disk, item>>
                                          /\ op = "fsync" => one_name(p)
    BY <1>4 DEF BeginGetAttr, BeginFsync
  <2>1. op \in Ops \ {"none"}
    BY DEF Ops
  <2>. PICK c : c = asked(op, p, p)
    OBVIOUS
  <2>2. c \in Call /\ c.op = op /\ c.from = p /\ c.to = p /\ c.at = p /\ c.pc = "idle"
    BY <2>1, AskedIs
  <2>. QED
    BY <1>3, <2>1, <2>2
<1>5. ASSUME NEW p \in Paths, NEW len \in 1 .. MaxSize, NEW tag \in Tags,
             one_name(p), BeginWrite(t, p, len, tag)
      PROVE  FilesInv'
  <2>. PICK a : a = asked("write", p, p)
    OBVIOUS
  <2>. PICK c : c = [a EXCEPT !.len = len, !.tag = tag]
    OBVIOUS
  <2>1. "write" \in Ops \ {"none"} /\ len \in 0 .. MaxSize /\ len >= 1
    BY CacheNamesAssumption DEF Ops
  <2>2. /\ a \in Call /\ a.op = "write" /\ a.from = p /\ a.to = p /\ a.at = p
        /\ a.pc = "idle"
    BY <2>1, AskedIs
  <2>3. /\ c \in Call /\ c.op = "write" /\ c.from = p /\ c.to = p /\ c.at = p /\ c.pc = "idle"
        /\ c.len = len
    BY <2>1, <2>2 DEF Call
  <2>4. names[p] # NoInode /\ getattr(t, c) /\ UNCHANGED <<dir, disk, item>> /\ one_name(p)
    BY <1>5 DEF BeginWrite
  <2>. QED
    BY <1>3, <2>1, <2>3, <2>4
<1>6. ASSUME NEW op \in NameOps, NEW p \in Paths, NEW q \in Paths, BeginNames(t, op, p, q)
      PROVE  FilesInv'
  <2>. PICK c : c = asked(op, p, q)
    OBVIOUS
  <2>1. op \in Ops \ {"none", "write", "fsync"}
    BY DEF Ops, NameOps
  <2>2. c \in Call /\ c.op = op /\ c.from = p /\ c.to = q /\ c.at = p /\ c.pc = "idle"
    BY <2>1, AskedIs
  <2>3. names[p] # NoInode /\ getattr(t, c) /\ UNCHANGED <<dir, disk, item>>
    BY <1>6 DEF BeginNames
  <2>4. (op = "rename" => p # q) /\ (op = "link" => dir[q] = NoInode)
    BY <1>6 DEF BeginNames
  <2>. QED
    BY <1>3, <2>1, <2>2, <2>3, <2>4
<1>. QED
  BY <1>4, <1>5, <1>6, BeginCreateFiles DEF Begin

LEMMA NextFiles ==
    ASSUME FilesInv, IsFiniteSet(Paths), Disturbances = {}, [Next]_vars
    PROVE  FilesInv'
<1>1. ASSUME NEW t \in Threads, Step(t) PROVE FilesInv'
  BY <1>1, GetAttrFiles, GetAttrNewFiles, GetAttrFillFiles, CreateItemFiles, WriteSizeFiles,
     WritePutFiles, WriteStoreFiles, SyncOwnerFiles, LinkFiles, LinkNameFiles, UnlinkFiles,
     RenameFiles DEF Step
<1>2. CASE UNCHANGED vars
  <2>1. UNCHANGED <<dir, disk, mapping, item, call>>
    BY <1>2 DEF vars
  <2>2. LinksInv'
    BY <1>2, NextLinks DEF FilesInv
  <2>3. \A t \in Threads : data_call(t)'
    BY <2>1 DEF FilesInv, data_call
  <2>4. OneDataCall'
    BY <2>1 DEF FilesInv, OneDataCall, is_data_call
  <2>5. \A i \in Inodes : clean(i)'
    BY <2>1 DEF FilesInv, clean, settled, fresh, cached
  <2>. QED
    BY <2>2, <2>3, <2>4, <2>5 DEF FilesInv
<1>. QED
  BY <1>1, <1>2, BeginFiles, RenameDirFiles, ClearFiles, CheckpointFiles DEF Next

\* While nothing disturbs the handlers, a write or an fsync is the only one of its file
\* and has the file's item from its lfs_getattr to its return, and lfs_getattr fills an
\* item that nobody has written to: cached data that is not dirty is the file's.
THEOREM FilesInvariant ==
    ASSUME Disturbances = {}, IsFiniteSet(Paths)
    PROVE  Spec => []FilesInv
<1>1. Init => FilesInv
  BY InitFiles
<1>2. FilesInv /\ [Next]_vars => FilesInv'
  BY NextFiles
<1>. QED
  BY <1>1, <1>2, PTL DEF Spec

-----------------------------------------------------------------------------
(* What a sync writes.                                                     *)

\* What sync_owner writes is what the readers see.
LEMMA SyncedSeen ==
    ASSUME FilesInv, NEW i \in Inodes, settled(i),
           \A t \in Threads : call[t].pc = "store" => call[t].ino # i
    PROVE  synced(disk[i], item[i]) = seen(i)
<1>1. clean(i) /\ item[i] \in Item /\ seen_is(i)
  BY SeenIs DEF FilesInv, LinksInv, NamesInv, TypeOK
<1>2. seen(i) = [size |-> item[i].size,
                 tag  |-> IF item[i].size = 0 THEN Zero
                          ELSE IF item[i].tag # NoTag THEN item[i].tag ELSE disk[i].tag]
  BY <1>1 DEF seen_is
<1>3. item[i].size \in Nat /\ (item[i].dirty => item[i].tag # NoTag)
  BY <1>1, CacheNamesAssumption DEF Item
<1>4. item[i].size # 0 =>
         (IF item[i].dirty THEN item[i].tag ELSE disk[i].tag) =
         (IF item[i].tag # NoTag THEN item[i].tag ELSE disk[i].tag)
  BY <1>1, <1>3 DEF clean
<1>. QED
  BY <1>2, <1>4 DEF synced

\* No write is under way in a file that an fsync is of.
LEMMA SyncAlone ==
    ASSUME FilesInv, NEW t \in Threads, call[t].pc = "sync"
    PROVE  \A u \in Threads : call[u].pc = "store" => call[u].ino # dir[call[t].from]
<1>1. is_data_call(t)
  BY DEF FilesInv, data_call, is_data_call
<1>. QED
  BY <1>1, StoringHasItem DEF FilesInv, OneDataCall

\* Where a file below changes.
LEMMA DiskChanges ==
    ASSUME FilesInv, IsFiniteSet(Paths), Disturbances = {}, Next, NEW i \in Inodes,
           disk'[i] # disk[i]
    PROVE  ~ live(i) \/ disk'[i] = seen(i)
<1>1. LinksInv /\ NamesInv /\ TypeOK
  BY DEF FilesInv, LinksInv, NamesInv
<1>2. CASE Checkpoint
  <2>1. cached(i) /\ disk'[i] = synced(disk[i], item[i])
    BY <1>1, <1>2, CheckpointIs
  <2>2. \A t \in Threads : call[t].pc \in {"idle", "ready", "getattr"}
    BY <1>1, <1>2, CheckpointIs
  <2>. QED
    BY <2>1, <2>2, SyncedSeen DEF settled, fresh
<1>3. ASSUME NEW t \in Threads, SyncOwner(t) PROVE disk'[i] = seen(i)
  <2>. PICK j : j = dir[call[t].from]
    OBVIOUS
  <2>1. /\ j \in Inodes /\ settled(j) /\ call[t].pc = "sync"
        /\ disk'[j] = synced(disk[j], item[j])
        /\ \A k \in Inodes : k # j => disk'[k] = disk[k]
    BY <1>1, <1>3, SyncOwnerIs
  <2>. QED
    BY <2>1, SyncAlone, SyncedSeen
<1>4. ASSUME NEW t \in Threads, NEW p \in Paths, NEW j \in Inodes, BeginCreate(t, p, j)
      PROVE  ~ live(i)
  <2>1. \A o \in Paths : names[o] # j
    BY <1>1, <1>4, BeginCreateLinks
  <2>2. i = j
    BY <1>1, <1>4 DEF BeginCreate, TypeOK
  <2>. QED
    BY <2>1, <2>2 DEF live, names_of
<1>5. ASSUME NEW t \in Threads, Begin(t) PROVE ~ live(i)
  BY <1>4, <1>5 DEF Begin, BeginGetAttr, BeginFsync, BeginWrite, BeginNames
<1>6. ASSUME NEW t \in Threads, Step(t) PROVE disk'[i] = seen(i)
  BY <1>3, <1>6 DEF Step, GetAttr, GetAttrNew, GetAttrFill, CreateItem, WriteSize, WritePut,
     WriteStore, Link, LinkName, Unlink, Rename
<1>. QED
  BY <1>2, <1>5, <1>6 DEF Next, RenameDir, Clear

\* Only sync_owner ends an fsync that has got there.
LEMMA FsyncReturns ==
    ASSUME FilesInv, Next, NEW t \in Threads, call[t].pc = "sync", call'[t].pc = "idle"
    PROVE  disk'[dir[call[t].from]] = seen(dir[call[t].from])
<1>1. LinksInv /\ TypeOK /\ busy(t)
  BY DEF FilesInv, LinksInv, NamesInv, data_call, busy
<1>2. ASSUME NEW u \in Threads, Begin(u) PROVE FALSE
  <2>1. ~ busy(u)
    BY <1>2 DEF Begin, BeginGetAttr, BeginFsync, BeginWrite, BeginNames, BeginCreate
  <2>2. \A c : getattr(u, c) \/ begin(u, c) => \E r : call' = [call EXCEPT ![u] = r]
    BY DEF getattr, begin
  <2>3. \E c : getattr(u, c) \/ begin(u, c)
    BY <1>2 DEF Begin, BeginGetAttr, BeginFsync, BeginWrite, BeginNames, BeginCreate
  <2>4. \E r : call' = [call EXCEPT ![u] = r]
    BY <2>2, <2>3
  <2>. QED
    BY <1>1, <2>1, <2>4 DEF TypeOK
<1>3. ASSUME NEW u \in Threads, Step(u) PROVE SyncOwner(t)
  <2>1. \E r : call' = [call EXCEPT ![u] = r]
    BY <1>3 DEF Step, GetAttr, GetAttrNew, GetAttrFill, CreateItem, WriteSize, WritePut,
       WriteStore, SyncOwner, Link, LinkName, Unlink, Rename, getattr, begin, goto, return
  <2>2. u = t
    BY <2>1 DEF TypeOK
  <2>. QED
    BY <1>3, <2>2 DEF Step, GetAttr, GetAttrNew, GetAttrFill, CreateItem, WriteSize, WritePut,
       WriteStore, Link, LinkName, Unlink, Rename
<1>4. SyncOwner(t)
  BY <1>2, <1>3 DEF Next, RenameDir, Clear, Checkpoint
<1>. PICK j : j = dir[call[t].from]
  OBVIOUS
<1>5. j \in Inodes /\ settled(j) /\ disk'[j] = synced(disk[j], item[j])
  BY <1>1, <1>4, SyncOwnerIs
<1>. QED
  BY <1>5, SyncAlone, SyncedSeen

\* sync_owner, for an fsync or a checkpoint, changes a file into what its readers see, and
\* an fsync leaves its file so: never another file's data, nor part of its own, whatever
\* happened to its names.  No two calls may use a file while its item is made, or write
\* or sync it through two names (Disturbances = {}).
THEOREM SyncsAreExact ==
    ASSUME Disturbances = {}, IsFiniteSet(Paths)
    PROVE  Spec => SyncIsExact
<1>1. FilesInv /\ [Next]_vars =>
         [/\ \A i \in Inodes :
                live(i) /\ live(i)' /\ disk'[i] # disk[i] => disk'[i] = seen(i)
          /\ \A t \in Threads : call[t].pc = "sync" /\ call'[t].pc = "idle" =>
                disk'[dir[call[t].from]] = seen(dir[call[t].from])]_vars
  BY DiskChanges, FsyncReturns
<1>. QED
  BY <1>1, FilesInvariant, PTL DEF Spec, SyncIsExact

-----------------------------------------------------------------------------
(* Names and files: every step is one of NamedFiles, or leaves what it has *)
(* unchanged.                                                              *)

\* The files that have a name.
LEMMA LiveIs ==
    ASSUME NEW i
    PROVE  /\ live(i) <=> \E p \in Paths : names[p] = i
           /\ live(i)' <=> \E p \in Paths : names'[p] = i
           /\ names = [p \in Paths |-> names[p]]
           /\ names' = [p \in Paths |-> names'[p]]
  BY DEF live, names_of, names

\* Names, and the contents of the files that have one, are left alone.
LEMMA SameFiles ==
    ASSUME \A p \in Paths : names'[p] = names[p],
           \A i \in Inodes : live(i) => seen(i)' = seen(i) /\ disk'[i] = disk[i]
    PROVE  UNCHANGED Files!vars
<1>1. names' = names /\ \A i : live(i)' <=> live(i)
  BY LiveIs
<1>. QED
  BY <1>1 DEF Files!vars

\* Names change; a file that has a name afterwards had one and keeps its content, or is
\* empty.
LEMMA RenamedFiles ==
    ASSUME NEW new, new = [p \in Paths |-> new[p]], \A p \in Paths : names'[p] = new[p],
           \A i \in Inodes : live(i)' =>
              IF live(i) THEN seen(i)' = seen(i) /\ disk'[i] = disk[i]
                         ELSE seen(i)' = Empty /\ disk'[i] = Empty
    PROVE  Files!Renamed(new)
<1>1. names' = new /\ \A i : live(i)' <=> \E p \in Paths : new[p] = i
  BY LiveIs
<1>2. Files!Empty = Empty
  BY DEF Files!Empty, Empty
<1>. QED
  BY <1>1, <1>2 DEF Files!Renamed

\* A reader finds what he found when nothing is stored and the item's data stay.
LEMMA SeenKept ==
    ASSUME FilesInv, FilesInv', NEW t \in Threads, NEW r, call' = [call EXCEPT ![t] = r],
           call[t].pc # "store", r.pc # "store", NEW i \in Inodes, disk'[i] = disk[i],
           settled(i)' <=> settled(i),
           settled(i) => item'[i].size = item[i].size /\ item'[i].tag = item[i].tag
    PROVE  seen(i)' = seen(i)
<1>1. seen_is(i) /\ seen_is(i)'
  BY SeenIs, SeenThen
<1>2. call'[t] = r /\ \A u \in Threads : u # t => call'[u] = call[u]
  BY DEF FilesInv, LinksInv, NamesInv, TypeOK
<1>3. \A u \in Threads : \/ call[u].pc # "store" /\ call'[u].pc # "store"
                         \/ call'[u] = call[u]
  BY <1>2
<1>. QED
  BY <1>1, <1>3, SeenOther

\* A thread that makes no item begins to make one.
LEMMA FreshThen ==
    ASSUME TypeOK, NEW t \in Threads, NEW r, call' = [call EXCEPT ![t] = r],
           call[t].pc \notin {"new", "fill"}, NEW j
    PROVE  fresh(j)' <=> fresh(j) \/ (r.ino = j /\ r.pc \in {"new", "fill"})
<1>1. call'[t] = r /\ \A u \in Threads : u # t => call'[u] = call[u]
  BY DEF TypeOK
<1>. QED
  BY <1>1 DEF fresh

LEMMA LookupRefines ==
    ASSUME FilesInv, FilesInv', NEW t \in Threads, NEW c \in Call,
           call[t].pc \notin {"new", "fill", "name", "store"}, c.pc # "name", named(c),
           getattr(t, c), UNCHANGED <<dir, disk, item>>
    PROVE  UNCHANGED Files!vars
<1>. PICK i : i = inode_of(c.at)
  OBVIOUS
<1>. PICK n : n = [c EXCEPT !.pc = "new", !.ino = i, !.size = disk[dir[c.at]].size,
                            !.nlinks = links(dir[c.at])]
  OBVIOUS
<1>. PICK r : r = IF cached(i) THEN resumed(c) ELSE n
  OBVIOUS
<1>1. call' = [call EXCEPT ![t] = r] /\ TypeOK
  BY DEF getattr, begin, inode_of, FilesInv, LinksInv, NamesInv
<1>2. r.pc \notin {"fill", "name", "store"} /\ (r.pc = "new" => r.ino = i /\ ~ cached(i))
  <2>1. n.pc = "new" /\ n.ino = i
    BY DEF Call
  <2>2. resumed(c).pc \notin {"new", "fill", "name", "store"}
    BY <1>1, Resumed, ResumedCounts
  <2>. QED
    BY <2>1, <2>2
<1>3. \A j \in Inodes : fresh(j)' <=> fresh(j) \/ (r.ino = j /\ r.pc \in {"new", "fill"})
  BY <1>1, FreshThen
<1>4. \A j \in Inodes : settled(j)' <=> settled(j)
  BY <1>2, <1>3 DEF settled, cached
<1>5. \A j \in Inodes : seen(j)' = seen(j)
  BY <1>1, <1>2, <1>4, SeenKept
<1>6. \A p \in Paths : names'[p] = names[p]
  BY <1>1, <1>2, SameNames
<1>. QED
  BY <1>5, <1>6, SameFiles

LEMMA GetAttrRefines ==
    ASSUME FilesInv, FilesInv', NEW t \in Threads, GetAttr(t)
    PROVE  UNCHANGED Files!vars
<1>. DEFINE c == call[t]
<1>1. LinksInv /\ c.pc = "getattr"
  BY DEF FilesInv, GetAttr
<1>2. c \in Call /\ named(c)
  BY <1>1, GetAttrServes
<1>3. getattr(t, c) /\ UNCHANGED <<dir, disk, item>>
  BY DEF GetAttr
<1>. QED
  BY <1>1, <1>2, <1>3, LookupRefines

LEMMA GetAttrNewRefines ==
    ASSUME FilesInv, FilesInv', NEW t \in Threads, GetAttrNew(t)
    PROVE  UNCHANGED Files!vars
<1>. PICK c : c = call[t]
  OBVIOUS
<1>. PICK i : i = c.ino
  OBVIOUS
<1>. PICK r : r = [c EXCEPT !.pc = "fill"]
  OBVIOUS
<1>1. LinksInv /\ TypeOK /\ c \in Call /\ c.pc = "new"
  BY CallTypes DEF FilesInv, LinksInv, NamesInv, GetAttrNew
<1>2. i \in Inodes /\ fresh(i) /\ ~ settled(i)
  BY <1>1, MadeByOne
<1>3. call' = [call EXCEPT ![t] = r] /\ call'[t] = r /\ UNCHANGED <<dir, disk>>
  BY <1>1 DEF GetAttrNew, goto, TypeOK
<1>4. r.pc = "fill" /\ r.ino = i
  BY <1>1 DEF Call
<1>5. \A j \in Inodes : j # i => item'[j] = item[j]
  BY <1>1 DEF GetAttrNew, TypeOK
<1>6. ~ settled(i)'
  BY <1>3, <1>4 DEF settled, fresh
<1>7. \A j \in Inodes : fresh(j)' <=> fresh(j)
  <2>1. \A u \in Threads : u # t => call'[u] = call[u]
    BY <1>1, <1>3 DEF TypeOK
  <2>. QED
    BY <1>1, <1>3, <1>4, <2>1 DEF fresh
<1>8. \A j \in Inodes : settled(j)' <=> settled(j)
  BY <1>2, <1>5, <1>6, <1>7 DEF settled, cached
<1>9. \A j \in Inodes : seen(j)' = seen(j)
  BY <1>1, <1>2, <1>3, <1>4, <1>5, <1>8, SeenKept
<1>10. \A p \in Paths : names'[p] = names[p]
  BY <1>1, <1>3, <1>4, SameNames
<1>. QED
  BY <1>3, <1>9, <1>10, SameFiles

\* The item that is set now shows the file, as before without it.
LEMMA GetAttrFillRefines ==
    ASSUME FilesInv, FilesInv', NEW t \in Threads, GetAttrFill(t)
    PROVE  UNCHANGED Files!vars
<1>. PICK c : c = call[t]
  OBVIOUS
<1>. PICK i : i = c.ino
  OBVIOUS
<1>. PICK r : r = resumed(c)
  OBVIOUS
<1>1. /\ LinksInv /\ TypeOK /\ c \in Call /\ c.pc = "fill" /\ counts_links(t) /\ data_call(t)
  BY CallTypes DEF FilesInv, LinksInv, NamesInv, GetAttrFill
<1>2. i \in Inodes /\ ~ settled(i) /\ ~ creating(t, i) /\ cached(i)
  BY <1>1, MadeByOne DEF counts_links
<1>3. call' = [call EXCEPT ![t] = r] /\ call'[t] = r /\ UNCHANGED <<dir, disk>>
  BY <1>1 DEF GetAttrFill, begin, TypeOK
<1>4. r.pc \notin {"name", "new", "fill", "put", "store"}
  BY <1>1, FillServes, Resumed, ResumedCounts
<1>5. item' = [item EXCEPT ![i] = [item[i] EXCEPT !.size = c.size, !.nlinks = c.nlinks]]
  BY <1>1, <1>2 DEF GetAttrFill, TypeOK
<1>6. \A j \in Inodes : j # i => item'[j] = item[j]
  BY <1>1, <1>5 DEF TypeOK
<1>7. item'[i].size = disk[i].size /\ item'[i].tag = NoTag
  <2>1. item[i] \in Item /\ item[i].tag = NoTag /\ c.size = disk[i].size
    BY <1>1, <1>2 DEF TypeOK, data_call
  <2>. QED
    BY <1>1, <1>2, <1>5, <2>1 DEF TypeOK, Item
<1>8. \A j \in Inodes : j # i => (settled(j)' <=> settled(j))
  <2>1. \A u \in Threads : u # t => call'[u] = call[u]
    BY <1>1, <1>3 DEF TypeOK
  <2>2. \A j \in Inodes : j # i => (fresh(j)' <=> fresh(j))
    BY <1>1, <1>3, <1>4, <2>1 DEF fresh
  <2>. QED
    BY <1>6, <2>2 DEF settled, cached
<1>9. \A j \in Inodes : j # i => seen(j)' = seen(j)
  BY <1>1, <1>3, <1>4, <1>6, <1>8, SeenKept
<1>10. seen(i)' = seen(i)
  <2>1. seen_is(i) /\ seen_is(i)' /\ clean(i) /\ disk[i] \in Content
    BY <1>1, <1>2, SeenIs, SeenThen DEF FilesInv, TypeOK
  <2>2. \A u \in Threads : call'[u].pc = "store" => call'[u].ino # i
    <3>. SUFFICES ASSUME NEW u \in Threads, call'[u].pc = "store" PROVE call'[u].ino # i
      OBVIOUS
    <3>1. u # t /\ call'[u] = call[u]
      BY <1>1, <1>3, <1>4 DEF TypeOK
    <3>. QED
      BY <1>2, <3>1, StoringHasItem
  <2>3. seen(i) = disk[i]
    BY <1>2, <2>1 DEF seen_is
  <2>4. seen(i)' = disk[i]
    <3>1. disk[i] = [size |-> disk[i].size,
                     tag  |-> IF disk[i].size = 0 THEN Zero ELSE disk[i].tag]
      BY <2>1 DEF Content, clean
    <3>2. CASE settled(i)'
      BY <1>3, <1>7, <2>1, <2>2, <3>1, <3>2 DEF seen_is
    <3>3. CASE ~ settled(i)'
      BY <1>3, <2>1, <3>3 DEF seen_is
    <3>. QED
      BY <3>2, <3>3
  <2>. QED
    BY <2>3, <2>4
<1>11. \A p \in Paths : names'[p] = names[p]
  BY <1>1, <1>3, <1>4, SameNames
<1>. QED
  BY <1>3, <1>9, <1>10, <1>11, SameFiles

LEMMA CreateItemRefines ==
    ASSUME FilesInv, FilesInv', NEW t \in Threads, CreateItem(t)
    PROVE  UNCHANGED Files!vars
<1>1. LinksInv /\ TypeOK /\ call[t].pc = "made" /\ past_getattr(call[t]) /\ return(t)
  BY DEF FilesInv, LinksInv, NamesInv, CreateItem, past_getattr
<1>2. UNCHANGED <<dir, disk, item>>
  BY <1>1, HasItem DEF CreateItem
<1>3. call' = [call EXCEPT ![t] = NoCall] /\ NoCall.pc = "idle"
  BY <1>1, Returned
<1>4. \A i \in Inodes : settled(i)' <=> settled(i)
  BY <1>1, <1>2, <1>3, SettledSame
<1>5. \A i \in Inodes : seen(i)' = seen(i)
  BY <1>1, <1>2, <1>3, <1>4, SeenKept
<1>6. \A p \in Paths : names'[p] = names[p]
  BY <1>1, <1>2, <1>3, SameNames
<1>. QED
  BY <1>2, <1>5, <1>6, SameFiles

LEMMA WriteSizeRefines ==
    ASSUME FilesInv, FilesInv', NEW t \in Threads, WriteSize(t)
    PROVE  UNCHANGED Files!vars
<1>. PICK i : i = mapping[call[t].from]
  OBVIOUS
<1>. PICK n : n = IF cached(i) THEN item[i].size ELSE disk[dir[call[t].from]].size
  OBVIOUS
<1>. PICK r : r = [call[t] EXCEPT !.pc = "put", !.ino = i, !.before = n]
  OBVIOUS
<1>1. call' = [call EXCEPT ![t] = r] /\ r.pc = "put"
  <2>1. call[t] \in Call
    BY CallTypes DEF FilesInv, LinksInv, NamesInv
  <2>2. call' = [call EXCEPT ![t] = r]
    BY DEF WriteSize, begin
  <2>. QED
    BY <2>1, <2>2 DEF Call
<1>2. TypeOK /\ call[t].pc = "size" /\ UNCHANGED <<dir, disk, item>>
  BY DEF FilesInv, LinksInv, NamesInv, WriteSize
<1>3. \A j \in Inodes : settled(j)' <=> settled(j)
  BY <1>1, <1>2, SettledSame
<1>4. \A j \in Inodes : seen(j)' = seen(j)
  BY <1>1, <1>2, <1>3, SeenKept
<1>5. \A p \in Paths : names'[p] = names[p]
  BY <1>1, <1>2, SameNames
<1>. QED
  BY <1>2, <1>4, <1>5, SameFiles

\* One content changes, as a write of length len and tag tag does.
LEMMA WritesFile ==
    ASSUME \A p \in Paths : names'[p] = names[p], NEW i \in Inodes, live(i), NEW len, NEW tag,
           \A j \in Inodes : disk'[j] = disk[j] /\ (j # i => seen(j)' = seen(j)),
           seen(i)' = [size |-> IF len > seen(i).size THEN len ELSE seen(i).size, tag |-> tag]
    PROVE  Files!Write(i, len, tag)
<1>1. names' = names /\ (\A j : live(j)' <=> live(j)) /\ \E p \in Paths : names[p] = i
  BY LiveIs
<1>. QED
  BY <1>1 DEF Files!Write

LEMMA WritePutRefines ==
    ASSUME FilesInv, FilesInv', NEW t \in Threads, WritePut(t)
    PROVE  Files!Write(call[t].ino, call[t].len, call[t].tag)
<1>. PICK c : c = call[t]
  OBVIOUS
<1>. PICK i : i = c.ino
  OBVIOUS
<1>. PICK r : r = [c EXCEPT !.pc = "store", !.tag = Zero]
  OBVIOUS
<1>1. LinksInv /\ TypeOK /\ data_call(t) /\ c \in Call /\ c.pc = "put" /\ c.before = item[i].size
  BY CallTypes DEF FilesInv, LinksInv, NamesInv, WritePut, data_call
<1>2. /\ i \in Inodes /\ settled(i) /\ cached(i) /\ i = dir[c.from]
      /\ c.len \in 1 .. MaxSize /\ c.before \in 0 .. MaxSize
      /\ \A u \in Threads : call[u].ino = i /\ call[u].pc \in {"put", "store"} => u = t
  BY <1>1, StoringHasItem DEF settled
<1>3. UNCHANGED <<dir, disk>> /\ call' = [call EXCEPT ![t] = r] /\ call'[t] = r
  BY <1>1, <1>2 DEF WritePut, begin, TypeOK
<1>4. r.pc = "store" /\ r.len = c.len /\ r.ino = i /\ r.before = c.before
  BY <1>1 DEF Call
<1>5. /\ item'[i].tag = c.tag /\ item'[i].nlinks = item[i].nlinks
      /\ \A j \in Inodes : j # i => item'[j] = item[j]
  <2>1. item' = [item EXCEPT ![i] = [item[i] EXCEPT !.tag = c.tag, !.dirty = TRUE]]
    BY <1>1, <1>2 DEF WritePut, TypeOK
  <2>2. item[i] \in Item
    BY <1>1, <1>2 DEF TypeOK
  <2>. QED
    BY <1>1, <1>2, <2>1, <2>2 DEF TypeOK, Item
<1>6. \A j \in Inodes : settled(j)' <=> settled(j)
  BY <1>1, <1>3, <1>4, <1>5, SettledSame
<1>7. \A j \in Inodes : seen_is(j) /\ seen_is(j)'
  BY SeenIs, SeenThen
<1>8. seen(i)' = [size |-> longer(c.before, c.len), tag |-> c.tag]
  <2>1. /\ call'[t].pc = "store" /\ call'[t].ino = i
        /\ call'[t].before = c.before /\ call'[t].len = c.len
    BY <1>3, <1>4
  <2>2. seen_is(i)'
    BY <1>2, <1>7
  <2>3. seen(i)' = [size |-> longer(call'[t].before, call'[t].len), tag |-> item'[i].tag]
    BY <2>1, <2>2 DEF seen_is
  <2>. QED
    BY <1>5, <2>1, <2>3
<1>9. seen(i).size = c.before
  <2>1. \A u \in Threads : call[u].pc = "store" => call[u].ino # i
    BY <1>1, <1>2
  <2>. QED
    BY <1>1, <1>2, <1>7, <2>1 DEF seen_is
<1>10. \A j \in Inodes : j # i => seen(j)' = seen(j)
  <2>. SUFFICES ASSUME NEW j \in Inodes, j # i PROVE seen(j)' = seen(j)
    OBVIOUS
  <2>1. \A u \in Threads : \/ call'[u] = call[u]
                           \/ call[u].pc # "store" /\ call'[u].ino # j
    BY <1>1, <1>3, <1>4 DEF TypeOK
  <2>2. item'[j] = item[j] /\ disk'[j] = disk[j]
    BY <1>3, <1>5
  <2>. QED
    BY <1>6, <1>7, <2>1, <2>2, SeenOther
<1>11. \A p \in Paths : names'[p] = names[p]
  BY <1>1, <1>3, <1>4, SameNames
<1>12. live(i)
  <2>1. past_getattr(c)
    BY <1>1 DEF past_getattr
  <2>2. c.from \in Paths /\ names[c.from] = i
    BY <1>1, <1>2, <2>1, HasItem
  <2>. QED
    BY <2>2, LiveIs
<1>13. seen(i)' = [size |-> IF c.len > seen(i).size THEN c.len ELSE seen(i).size, tag |-> c.tag]
  BY <1>2, <1>8, <1>9, CacheNamesAssumption DEF longer
<1>. QED
  BY <1>2, <1>3, <1>10, <1>11, <1>12, <1>13, WritesFile

\* The item has the size that readers found already.
LEMMA WriteStoreRefines ==
    ASSUME FilesInv, FilesInv', NEW t \in Threads, WriteStore(t)
    PROVE  UNCHANGED Files!vars
<1>. PICK c : c = call[t]
  OBVIOUS
<1>. PICK i : i = c.ino
  OBVIOUS
<1>1. /\ LinksInv /\ TypeOK /\ c \in Call /\ c.pc = "store" /\ item[i].dirty
      /\ return(t) /\ UNCHANGED <<dir, disk>>
  BY CallTypes DEF FilesInv, LinksInv, NamesInv, WriteStore, data_call
<1>2. /\ i \in Inodes /\ settled(i) /\ cached(i)
      /\ c.len \in 1 .. MaxSize /\ c.before \in 0 .. MaxSize
      /\ \A u \in Threads : call[u].ino = i /\ call[u].pc \in {"put", "store"} => u = t
  BY <1>1, StoringHasItem DEF settled
<1>3. call' = [call EXCEPT ![t] = NoCall] /\ call'[t] = NoCall /\ NoCall.pc = "idle"
  BY <1>1, Returned
<1>4. /\ item'[i].size = longer(c.before, c.len) /\ item'[i].tag = item[i].tag
      /\ item[i].tag # NoTag /\ item'[i].nlinks = item[i].nlinks
      /\ \A j \in Inodes : j # i => item'[j] = item[j]
  <2>1. item' = [item EXCEPT ![i] = [item[i] EXCEPT !.size = longer(c.before, c.len)]]
    BY <1>1, <1>2 DEF WriteStore, TypeOK
  <2>2. item[i] \in Item
    BY <1>1, <1>2 DEF TypeOK
  <2>. QED
    BY <1>1, <1>2, <2>1, <2>2 DEF TypeOK, Item
<1>5. \A j \in Inodes : settled(j)' <=> settled(j)
  BY <1>1, <1>3, <1>4, SettledSame
<1>6. \A j \in Inodes : seen_is(j) /\ seen_is(j)'
  BY SeenIs, SeenThen
<1>7. \A u \in Threads : u # t => call'[u] = call[u]
  BY <1>1, <1>3 DEF TypeOK
<1>8. seen(i)' = seen(i)
  <2>1. seen(i) = [size |-> longer(c.before, c.len), tag |-> item[i].tag]
    BY <1>1, <1>2, <1>6 DEF seen_is
  <2>2. \A u \in Threads : call'[u].pc = "store" => call'[u].ino # i
    BY <1>2, <1>3, <1>7
  <2>3. longer(c.before, c.len) # 0
    BY <1>2 DEF longer
  <2>. QED
    BY <1>2, <1>4, <1>5, <1>6, <2>1, <2>2, <2>3 DEF seen_is
<1>9. \A j \in Inodes : j # i => seen(j)' = seen(j)
  <2>. SUFFICES ASSUME NEW j \in Inodes, j # i PROVE seen(j)' = seen(j)
    OBVIOUS
  <2>1. \A u \in Threads : \/ call'[u] = call[u]
                           \/ call[u].ino # j /\ call'[u].pc # "store"
    BY <1>3, <1>7
  <2>. QED
    BY <1>1, <1>4, <1>5, <1>6, <2>1, SeenOther
<1>10. \A p \in Paths : names'[p] = names[p]
  BY <1>1, <1>3, SameNames
<1>. QED
  BY <1>1, <1>8, <1>9, <1>10, SameFiles

\* The files in S become what their readers see.
LEMMA SyncsFiles ==
    ASSUME \A p \in Paths : names'[p] = names[p], NEW S \in SUBSET Inodes,
           \A i \in Inodes : /\ seen(i)' = seen(i)
                             /\ disk'[i] = IF i \in S THEN seen(i) ELSE disk[i]
    PROVE  Files!Sync(S)
<1>1. names' = names /\ \A i : live(i)' <=> live(i)
  BY LiveIs
<1>. QED
  BY <1>1 DEF Files!Sync

\* A synced item shows what it showed.
LEMMA SyncedSame ==
    ASSUME FilesInv, FilesInv', NEW i \in Inodes, settled(i), settled(i)',
           \A t \in Threads : call[t].pc = "store" => call[t].ino # i,
           \A t \in Threads : call'[t].pc = "store" => call'[t].ino # i,
           item'[i].size = item[i].size, item'[i].tag = item[i].tag, disk'[i] = seen(i)
    PROVE  seen(i)' = seen(i)
<1>1. seen_is(i) /\ seen_is(i)'
  BY SeenIs, SeenThen
<1>2. seen(i) = [size |-> item[i].size,
                 tag  |-> IF item[i].size = 0 THEN Zero
                          ELSE IF item[i].tag # NoTag THEN item[i].tag ELSE disk[i].tag]
  BY <1>1 DEF seen_is
<1>3. seen(i)' = [size |-> item[i].size,
                  tag  |-> IF item[i].size = 0 THEN Zero
                           ELSE IF item[i].tag # NoTag THEN item[i].tag ELSE disk'[i].tag]
  BY <1>1 DEF seen_is
<1>4. disk'[i].tag = IF item[i].size = 0 THEN Zero
                     ELSE IF item[i].tag # NoTag THEN item[i].tag ELSE disk[i].tag
  BY <1>2
<1>. QED
  BY <1>2, <1>3, <1>4

LEMMA SyncOwnerRefines ==
    ASSUME FilesInv, FilesInv', NEW t \in Threads, SyncOwner(t)
    PROVE  \E S \in SUBSET Inodes : Files!Sync(S)
<1>. PICK i : i = dir[call[t].from]
  OBVIOUS
<1>1. LinksInv /\ TypeOK
  BY DEF FilesInv, LinksInv, NamesInv
<1>2. /\ i \in Inodes /\ settled(i) /\ call[t].pc = "sync" /\ return(t)
      /\ UNCHANGED <<dir, mapping>>
      /\ disk'[i] = synced(disk[i], item[i])
      /\ item'[i].nlinks = item[i].nlinks /\ item'[i].size = item[i].size
      /\ item'[i].tag = item[i].tag
      /\ \A j \in Inodes : j # i => disk'[j] = disk[j] /\ item'[j] = item[j]
  BY <1>1, SyncOwnerIs
<1>3. call' = [call EXCEPT ![t] = NoCall] /\ NoCall.pc = "idle"
  BY <1>1, <1>2, Returned
<1>4. \A j \in Inodes : settled(j)' <=> settled(j)
  BY <1>1, <1>2, <1>3, SettledSame
<1>5. \A u \in Threads : /\ call[u].pc = "store" => call[u].ino # i
                         /\ call'[u].pc = "store" => call'[u].ino # i
  <2>1. \A u \in Threads : call[u].pc = "store" => call[u].ino # i
    BY <1>2, SyncAlone
  <2>2. call'[t].pc = "idle" /\ \A u \in Threads : u # t => call'[u] = call[u]
    BY <1>1, <1>3 DEF TypeOK
  <2>. QED
    BY <2>1, <2>2
<1>6. disk'[i] = seen(i)
  BY <1>2, <1>5, SyncedSeen
<1>7. seen(i)' = seen(i)
  BY <1>2, <1>4, <1>5, <1>6, SyncedSame
<1>8. \A j \in Inodes : j # i => seen(j)' = seen(j)
  BY <1>2, <1>3, <1>4, SeenKept
<1>9. \A p \in Paths : names'[p] = names[p]
  BY <1>1, <1>2, <1>3, SameNames
<1>10. Files!Sync({i})
  <2>1. {i} \in SUBSET Inodes
    BY <1>2
  <2>2. \A j \in Inodes : /\ seen(j)' = seen(j)
                          /\ disk'[j] = IF j \in {i} THEN seen(j) ELSE disk[j]
    BY <1>2, <1>6, <1>7, <1>8
  <2>. QED
    BY <1>9, <2>1, <2>2, SyncsFiles
<1>. QED
  BY <1>2, <1>10

LEMMA CheckpointRefines ==
    ASSUME FilesInv, FilesInv', Checkpoint
    PROVE  \E S \in SUBSET Inodes : Files!Sync(S)
<1>. PICK S : S = {i \in Inodes : cached(i) /\ mapped(i) # {}}
  OBVIOUS
<1>1. NamesInv /\ TypeOK
  BY DEF FilesInv, LinksInv, NamesInv
<1>2. /\ \A t \in Threads : call[t].pc \in {"idle", "ready", "getattr"}
      /\ UNCHANGED <<dir, mapping, call>>
  BY DEF Checkpoint, between
<1>3. \A i \in Inodes : /\ seen(i)' = seen(i)
                        /\ disk'[i] = IF i \in S THEN seen(i) ELSE disk[i]
  <2>. TAKE i \in Inodes
  <2>1. item[i] \in Item /\ seen_is(i) /\ seen_is(i)'
    BY <1>1, SeenIs, SeenThen DEF TypeOK
  <2>2. /\ item'[i].size = item[i].size /\ item'[i].tag = item[i].tag
        /\ item'[i].nlinks = item[i].nlinks
    BY <1>1, <2>1, CheckpointIs DEF Item
  <2>3. (settled(i) <=> cached(i)) /\ (settled(i)' <=> cached(i)) /\ (cached(i)' <=> cached(i))
    BY <1>2, <2>2 DEF settled, cached, fresh
  <2>4. \A t \in Threads : call[t].pc # "store" /\ call'[t].pc # "store"
    BY <1>2
  <2>5. CASE i \in S
    <3>1. disk'[i] = seen(i)
      BY <1>1, <2>3, <2>4, <2>5, CheckpointIs, SyncedSeen
    <3>. QED
      BY <2>2, <2>3, <2>4, <2>5, <3>1, SyncedSame
  <2>6. CASE i \notin S
    <3>1. disk'[i] = disk[i]
      BY <1>1, <2>6, CheckpointIs
    <3>. QED
      BY <2>1, <2>2, <2>3, <2>4, <2>6, <3>1, SeenOther
  <2>. QED
    BY <2>5, <2>6
<1>4. \A p \in Paths : names'[p] = names[p]
  BY <1>2 DEF names
<1>5. S \in SUBSET Inodes
  OBVIOUS
<1>6. Files!Sync(S)
  BY <1>3, <1>4, <1>5, SyncsFiles
<1>. QED
  BY <1>5, <1>6

\* A cleared cache shows the files below.
LEMMA ClearRefines ==
    ASSUME FilesInv, FilesInv', Clear
    PROVE  Files!Lose
<1>1. UNCHANGED <<dir, disk, call>> /\ item' = [i \in Inodes |-> NoItem]
  BY DEF Clear
<1>2. \A i \in Inodes : seen(i)' = disk[i]
  <2>. TAKE i \in Inodes
  <2>1. seen_is(i)' /\ ~ settled(i)'
    BY <1>1, SeenThen DEF settled, cached, NoItem
  <2>. QED
    BY <1>1, <2>1 DEF seen_is
<1>3. \A p \in Paths : names'[p] = names[p]
  BY <1>1 DEF names
<1>4. names' = names /\ \A i : live(i)' <=> live(i)
  BY <1>3, LiveIs
<1>. QED
  BY <1>1, <1>2, <1>4 DEF Files!Lose

\* What a step of thread t shows of the files that keep a name.
LEMMA OneThreadReaders ==
    ASSUME FilesInv, FilesInv', IsFiniteSet(Paths), NEW t \in Threads, NEW r,
           call' = [call EXCEPT ![t] = r],
           call[t].pc \notin {"new", "fill", "put", "store"},
           r.pc \notin {"new", "fill", "put", "store"},
           NEW i \in Inodes, tracks(i), keeps_item(i), disk'[i] = disk[i], live(i)'
    PROVE  seen(i)' = seen(i)
<1>1. others(t) \in SUBSET Threads /\ \A u \in others(t) : call'[u] = call[u]
  BY DEF FilesInv, LinksInv, NamesInv, TypeOK, others
<1>2. \A u \in Threads \ others(t) : /\ call[u].pc \notin {"new", "fill", "put", "store"}
                                     /\ call'[u].pc \notin {"new", "fill", "put", "store"}
  BY DEF FilesInv, LinksInv, NamesInv, TypeOK, others
<1>. QED
  BY <1>1, <1>2, ReadersSame

LEMMA LinkRefines ==
    ASSUME FilesInv, FilesInv', IsFiniteSet(Paths), NEW t \in Threads, Link(t)
    PROVE  UNCHANGED Files!vars
<1>. PICK r : r = [call[t] EXCEPT !.pc = "name"]
  OBVIOUS
<1>1. /\ \A i \in Inodes : tracks(i) /\ keeps_item(i)
      /\ \A p \in Paths : names'[p] = names[p]
  BY LinkLinks DEF FilesInv
<1>2. /\ call' = [call EXCEPT ![t] = r] /\ call[t].pc = "ready" /\ r.pc = "name" /\ disk' = disk
  BY CallTypes DEF Link, goto, Call, FilesInv, LinksInv, NamesInv
<1>3. \A i \in Inodes : live(i) => seen(i)' = seen(i)
  <2>1. \A i : live(i)' <=> live(i)
    BY <1>1, LiveIs
  <2>. QED
    BY <1>1, <1>2, <2>1, OneThreadReaders
<1>. QED
  BY <1>1, <1>2, <1>3, SameFiles

\* What a call that changes names, and returns, shows of the files that keep one.
LEMMA NamesReturnReaders ==
    ASSUME FilesInv, FilesInv', IsFiniteSet(Paths), NEW t \in Threads, return(t),
           call[t].pc \in {"ready", "name"}, disk' = disk,
           \A i \in Inodes : tracks(i) /\ keeps_item(i)
    PROVE  \A i \in Inodes : live(i)' => seen(i)' = seen(i) /\ disk'[i] = disk[i]
<1>1. call' = [call EXCEPT ![t] = NoCall] /\ NoCall.pc = "idle"
  BY Returned DEF FilesInv, LinksInv, NamesInv
<1>. QED
  BY <1>1, OneThreadReaders

LEMMA LinkNameRefines ==
    ASSUME FilesInv, FilesInv', IsFiniteSet(Paths), NEW t \in Threads, LinkName(t)
    PROVE  \E p, q \in Paths : Files!Link(p, q)
<1>. PICK p : p = call[t].from
  OBVIOUS
<1>. PICK q : q = call[t].to
  OBVIOUS
<1>. PICK new : new = [names EXCEPT ![q] = names[p]]
  OBVIOUS
<1>1. /\ \A i \in Inodes : tracks(i) /\ keeps_item(i)
      /\ p \in Paths /\ q \in Paths /\ names[p] # NoInode /\ names[q] = NoInode
      /\ names'[q] = names[p] /\ \A o \in Paths : o # q => names'[o] = names[o]
  BY LinkNameLinks DEF FilesInv
<1>2. new = [o \in Paths |-> new[o]] /\ \A o \in Paths : names'[o] = new[o]
  <2>1. names = [o \in Paths |-> names[o]]
    BY LiveIs
  <2>. QED
    BY <1>1, <2>1
<1>3. \A i \in Inodes : live(i)' => seen(i)' = seen(i) /\ disk'[i] = disk[i]
  BY <1>1, NamesReturnReaders DEF LinkName
<1>4. \A i : live(i)' => live(i)
  BY <1>1, LiveIs
<1>5. Files!Renamed(new)
  BY <1>2, <1>3, <1>4, RenamedFiles
<1>6. Files!Link(p, q)
  BY <1>1, <1>5 DEF Files!Link, Files!Renamed
<1>. QED
  BY <1>1, <1>6

LEMMA UnlinkRefines ==
    ASSUME FilesInv, FilesInv', IsFiniteSet(Paths), Disturbances = {}, NEW t \in Threads, Unlink(t)
    PROVE  \E p \in Paths : Files!Unlink(p)
<1>. PICK p : p = call[t].from
  OBVIOUS
<1>. PICK new : new = [names EXCEPT ![p] = NoInode]
  OBVIOUS
<1>1. /\ \A i \in Inodes : tracks(i) /\ keeps_item(i)
      /\ p \in Paths /\ names[p] # NoInode
      /\ names'[p] = NoInode /\ \A o \in Paths : o # p => names'[o] = names[o]
  BY UnlinkLinks DEF FilesInv
<1>2. new = [o \in Paths |-> new[o]] /\ \A o \in Paths : names'[o] = new[o]
  <2>1. names = [o \in Paths |-> names[o]]
    BY LiveIs
  <2>. QED
    BY <1>1, <2>1
<1>3. \A i \in Inodes : live(i)' => seen(i)' = seen(i) /\ disk'[i] = disk[i]
  BY <1>1, NamesReturnReaders DEF Unlink
<1>4. \A i \in Inodes : live(i)' => live(i)
  BY <1>1, LiveIs, CacheNamesAssumption
<1>5. Files!Renamed(new)
  BY <1>2, <1>3, <1>4, RenamedFiles
<1>6. Files!Unlink(p)
  BY <1>1, <1>5 DEF Files!Unlink, Files!Renamed
<1>. QED
  BY <1>1, <1>6

LEMMA RenameRefines ==
    ASSUME FilesInv, FilesInv', IsFiniteSet(Paths), Disturbances = {}, NEW t \in Threads, Rename(t)
    PROVE  \E p, q \in Paths : Files!Rename(p, q)
<1>. PICK p : p = call[t].from
  OBVIOUS
<1>. PICK q : q = call[t].to
  OBVIOUS
<1>. PICK new : new = Files!moved(p, q)
  OBVIOUS
<1>1. /\ \A i \in Inodes : tracks(i) /\ keeps_item(i)
      /\ p \in Paths /\ q \in Paths /\ p # q /\ names[p] # NoInode
      /\ names'[q] = names[p] /\ names'[p] = NoInode
      /\ \A o \in Paths : o \notin {p, q} => names'[o] = names[o]
  BY RenameLinks DEF FilesInv
<1>2. new = [o \in Paths |-> new[o]] /\ \A o \in Paths : names'[o] = new[o]
  <2>1. names = [o \in Paths |-> names[o]]
    BY LiveIs
  <2>. QED
    BY <1>1, <2>1 DEF Files!moved
<1>3. \A i \in Inodes : live(i)' => seen(i)' = seen(i) /\ disk'[i] = disk[i]
  BY <1>1, NamesReturnReaders DEF Rename
<1>4. \A i \in Inodes : live(i)' => live(i)
  BY <1>1, LiveIs, CacheNamesAssumption
<1>5. Files!Renamed(new)
  BY <1>2, <1>3, <1>4, RenamedFiles
<1>6. Files!Rename(p, q)
  BY <1>1, <1>5 DEF Files!Rename, Files!Renamed
<1>. QED
  BY <1>1, <1>6

LEMMA RenameDirRefines ==
    ASSUME FilesInv, FilesInv', IsFiniteSet(Paths), Disturbances = {}, NEW d, NEW e,
           RenameDir(d, e)
    PROVE  Files!RenameDir(d, e)
<1>. PICK new : new = Files!moved_dir(d, e)
  OBVIOUS
<1>1. /\ \A i \in Inodes : tracks(i) /\ keeps_item(i)
      /\ call' = call /\ disk' = disk
      /\ d # e /\ \A p \in Paths : p[1] = e => names[p] = NoInode
      /\ \A p \in Paths : names'[p] = new[p]
  BY RenameDirLinks DEF FilesInv, Files!moved_dir
<1>2. \A i \in Inodes : live(i)' => seen(i)' = seen(i)
  BY <1>1, ReadersSame
<1>3. \A i \in Inodes : live(i)' => live(i)
  <2>1. \A p \in Paths : new[p] = NoInode \/ \E q \in Paths : new[p] = names[q]
    BY DEF Files!moved_dir
  <2>. QED
    <3>. SUFFICES ASSUME NEW i \in Inodes, live(i)'
                  PROVE  live(i)
      OBVIOUS
    <3>1. PICK p \in Paths : names'[p] = i
      BY LiveIs
    <3>2. PICK q \in Paths : names[q] = i
      BY <1>1, <2>1, <3>1, CacheNamesAssumption
    <3>. QED
      BY <3>2, LiveIs
<1>4. new = [p \in Paths |-> new[p]]
  BY DEF Files!moved_dir
<1>5. Files!Renamed(new)
  BY <1>1, <1>2, <1>3, <1>4, RenamedFiles
<1>. QED
  BY <1>1, <1>5 DEF Files!RenameDir, Files!Renamed

\* A file is created empty under a number that no name and no item has.
LEMMA BeginCreateRefines ==
    ASSUME FilesInv, FilesInv', IsFiniteSet(Paths), Disturbances = {},
           NEW t \in Threads, NEW p \in Paths, NEW i \in Inodes, BeginCreate(t, p, i)
    PROVE  Files!Create(p, i)
<1>. PICK r : r = [asked("create", p, p) EXCEPT !.pc = "getattr"]
  OBVIOUS
<1>. PICK new : new = [names EXCEPT ![p] = i]
  OBVIOUS
<1>1. /\ \A j \in Inodes : tracks(j) /\ keeps_item(j)
      /\ names[p] = NoInode /\ \A o \in Paths : names[o] # i
      /\ names'[p] = i /\ \A o \in Paths : o # p => names'[o] = names[o]
      /\ ~ settled(i) /\ LinksInv /\ NamesInv /\ TypeOK
  BY BeginCreateLinks DEF FilesInv, LinksInv, NamesInv
<1>2. /\ ~ busy(t) /\ call' = [call EXCEPT ![t] = r]
      /\ disk'[i] = Empty /\ \A j \in Inodes : j # i => disk'[j] = disk[j]
  BY <1>1 DEF BeginCreate, begin, TypeOK
<1>3. r.pc = "getattr" /\ call[t].pc = "idle"
  <2>1. r.pc = "getattr"
    BY AskedIs, StartTypes DEF Ops, asked, Call
  <2>. QED
    BY <1>1, <1>2, <2>1 DEF NamesInv, keeps_name, busy
<1>4. new = [o \in Paths |-> new[o]] /\ \A o \in Paths : names'[o] = new[o]
  <2>1. names = [o \in Paths |-> names[o]]
    BY LiveIs
  <2>. QED
    BY <1>1, <2>1
<1>5. \A j \in Inodes : j # i /\ live(j)' => live(j) /\ seen(j)' = seen(j) /\ disk'[j] = disk[j]
  <2>1. \A j \in Inodes : j # i /\ live(j)' => live(j)
    BY <1>1, LiveIs
  <2>. QED
    BY <1>1, <1>2, <1>3, <2>1, OneThreadReaders
<1>6. ~ live(i) /\ seen(i)' = Empty
  <2>1. ~ live(i)
    BY <1>1, LiveIs
  <2>2. ~ settled(i)'
    <3>1. others(t) \in SUBSET Threads /\ \A u \in others(t) : call'[u] = call[u]
      BY <1>1, <1>2 DEF others, TypeOK
    <3>2. \A u \in Threads \ others(t) : /\ call[u].pc \notin {"new", "fill"}
                                         /\ call'[u].pc \notin {"new", "fill"}
      BY <1>1, <1>2, <1>3 DEF others, TypeOK
    <3>. QED
      BY <1>1, <3>1, <3>2, TracksSettled
  <2>3. seen_is(i)'
    BY SeenThen
  <2>. QED
    BY <1>2, <2>1, <2>2, <2>3 DEF seen_is
<1>7. Files!Renamed(new)
  BY <1>2, <1>4, <1>5, <1>6, RenamedFiles
<1>. QED
  BY <1>1, <1>7 DEF Files!Create, Files!Renamed

\* A call that begins with lfs_getattr changes no name and no content.
LEMMA BeginRefines ==
    ASSUME FilesInv, FilesInv', IsFiniteSet(Paths), Disturbances = {}, NEW t \in Threads, Begin(t)
    PROVE  Files!Next \/ UNCHANGED Files!vars
<1>1. call[t].pc = "idle"
  BY DEF Begin, BeginGetAttr, BeginFsync, BeginWrite, BeginNames, BeginCreate, FilesInv,
     LinksInv, NamesInv, keeps_name, busy
<1>2. ASSUME NEW c \in Call, c.op # "none", c.at = c.from, c.pc = "idle",
             names[c.from] # NoInode,
             c.op = "link" => dir[c.to] = NoInode, c.op = "rename" => c.from # c.to,
             getattr(t, c), UNCHANGED <<dir, disk, item>>
      PROVE  UNCHANGED Files!vars
  <2>1. dir[c.from] # NoInode
    BY <1>2, KnownNames DEF Call
  <2>2. named(c)
    BY <1>2, <2>1 DEF named
  <2>. QED
    BY <1>1, <1>2, <2>2, LookupRefines
<1>3. ASSUME NEW op \in {"getattr", "fsync"}, NEW p \in Paths, names[p] # NoInode,
             getattr(t, asked(op, p, p)), UNCHANGED <<dir, disk, item>>
      PROVE  UNCHANGED Files!vars
  <2>1. op \in Ops
    BY DEF Ops
  <2>. QED
    BY <1>2, <1>3, <2>1, AskedIs
<1>4. ASSUME NEW p \in Paths, NEW len \in 1 .. MaxSize, NEW tag \in Tags, BeginWrite(t, p, len, tag)
      PROVE  UNCHANGED Files!vars
  <2>. PICK a : a = asked("write", p, p)
    OBVIOUS
  <2>. PICK c : c = [a EXCEPT !.len = len, !.tag = tag]
    OBVIOUS
  <2>1. len \in 0 .. MaxSize
    BY CacheNamesAssumption
  <2>2. a \in Call /\ a.op = "write" /\ a.from = p /\ a.at = p /\ a.pc = "idle"
    BY AskedIs DEF Ops
  <2>3. c \in Call /\ c.op = "write" /\ c.from = p /\ c.at = p /\ c.pc = "idle"
    BY <2>1, <2>2 DEF Call
  <2>. QED
    BY <1>2, <1>4, <2>3 DEF BeginWrite
<1>5. ASSUME NEW op \in NameOps, NEW p \in Paths, NEW q \in Paths, BeginNames(t, op, p, q)
      PROVE  UNCHANGED Files!vars
  <2>. PICK c : c = asked(op, p, q)
    OBVIOUS
  <2>1. c \in Call /\ c.op = op /\ c.from = p /\ c.to = q /\ c.at = p /\ c.pc = "idle"
    BY AskedIs DEF Ops, NameOps
  <2>2. op # "none" /\ (op = "rename" => p # q) /\ (op = "link" => dir[q] = NoInode)
    BY <1>5 DEF BeginNames, NameOps
  <2>3. names[p] # NoInode /\ getattr(t, c) /\ UNCHANGED <<dir, disk, item>>
    BY <1>5 DEF BeginNames
  <2>. QED
    BY <1>2, <2>1, <2>2, <2>3
<1>6. ASSUME NEW p \in Paths, BeginGetAttr(t, p) \/ BeginFsync(t, p)
      PROVE  UNCHANGED Files!vars
  BY <1>3, <1>6 DEF BeginGetAttr, BeginFsync
<1>. QED
  BY <1>4, <1>5, <1>6, BeginCreateRefines DEF Begin, Files!Next

LEMMA InitRefines ==
    ASSUME Init
    PROVE  Files!Init
<1>1. names \in [Paths -> Inodes \cup {NoInode}]
  BY DEF Init, names
<1>2. \A i \in Inodes : seen(i) = disk[i]
  BY DEF Init, seen, cached, NoItem
<1>3. Empty \in Content /\ Files!Content = Content
  BY CacheNamesAssumption DEF Empty, Content, Files!Content
<1>4. \A i \in Inodes : disk[i] \in Content
  BY DEF Init
<1>. QED
  BY <1>1, <1>2, <1>3, <1>4 DEF Files!Init

\* Every step of the cache is a step of the names and files or leaves them unchanged.
LEMMA StepRefines ==
    ASSUME FilesInv, FilesInv', IsFiniteSet(Paths), Disturbances = {}, [Next]_vars
    PROVE  [Files!Next]_(Files!vars)
<1>1. ASSUME NEW t \in Threads,
             \/ GetAttr(t) \/ GetAttrNew(t) \/ GetAttrFill(t) \/ CreateItem(t)
             \/ WriteSize(t) \/ WriteStore(t) \/ Link(t)
      PROVE  UNCHANGED Files!vars
  BY <1>1, GetAttrRefines, GetAttrNewRefines, GetAttrFillRefines, CreateItemRefines,
     WriteSizeRefines, WriteStoreRefines, LinkRefines
<1>2. ASSUME NEW t \in Threads, WritePut(t) PROVE Files!Next
  <2>1. call[t].ino \in Inodes /\ call[t].len \in 1 .. MaxSize
    BY <1>2, StoringHasItem DEF WritePut
  <2>2. call[t].tag \in Tags
    BY CallTypes DEF FilesInv, LinksInv, NamesInv
  <2>. QED
    BY <1>2, <2>1, <2>2, WritePutRefines DEF Files!Next
<1>3. ASSUME NEW t \in Threads, LinkName(t) \/ Unlink(t) \/ Rename(t) PROVE Files!Next
  BY <1>3, LinkNameRefines, UnlinkRefines, RenameRefines DEF Files!Next
<1>4. ASSUME NEW t \in Threads, SyncOwner(t) PROVE Files!Next
  BY <1>4, SyncOwnerRefines DEF Files!Next
<1>5. ASSUME NEW p \in Paths, NEW q \in Paths, RenameDir(p[1], q[1]) PROVE Files!Next
  BY <1>5, RenameDirRefines DEF Files!Next
<1>6. CASE Clear
  BY <1>6, ClearRefines DEF Files!Next
<1>7. CASE Checkpoint
  BY <1>7, CheckpointRefines DEF Files!Next
<1>8. CASE UNCHANGED vars
  <2>1. UNCHANGED <<dir, disk, item, call>>
    BY <1>8 DEF vars
  <2>2. \A i \in Inodes : seen(i)' = seen(i)
    BY <2>1 DEF seen, cached, fresh
  <2>3. \A p \in Paths : names'[p] = names[p]
    BY <2>1 DEF names
  <2>. QED
    BY <2>1, <2>2, <2>3, SameFiles
<1>. QED
  BY <1>1, <1>2, <1>3, <1>4, <1>5, <1>6, <1>7, <1>8, BeginRefines DEF Next, Step

-----------------------------------------------------------------------------

\* With the cache of names and items in front of it the file system below keeps its
\* promise: a call that changes a name changes no file's content, a file that gets a
\* number that was used before starts empty, a write changes what the readers of its file
\* find and nothing else, and only a clear loses what was not synced.  Calls on different
\* files, and lookups of files that have their items, overlap as they like; the rest is
\* assumed away (Disturbances = {}).
THEOREM CacheImplementsFiles ==
    ASSUME Disturbances = {}, IsFiniteSet(Paths)
    PROVE  Spec => FilesSpec
<1>1. Init => Files!Init
  BY InitRefines
<1>2. FilesInv /\ FilesInv' /\ [Next]_vars => [Files!Next]_(Files!vars)
  BY StepRefines
<1>3. Spec => []FilesInv
  BY FilesInvariant
<1>. QED
  BY <1>1, <1>2, <1>3, PTL DEF Spec, FilesSpec, Files!Spec

=============================================================================
