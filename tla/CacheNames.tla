----------------------------- MODULE CacheNames -----------------------------
(***************************************************************************)
(* The path to inode map of the cache, the cached items, and the handlers  *)
(* that change them: lfs_getattr, lfs_create, lfs_write, lfs_fsync,        *)
(* lfs_link, lfs_unlink, lfs_rename and the commands clear and checkpoint. *)
(* Threads run handlers; a step is what a handler does under one hold of   *)
(* the cache's locks.                                                      *)
(*                                                                         *)
(* What the kernel and libfuse hold over a call is in the guards: the      *)
(* names of the file system change one at a time, a file that is removed   *)
(* or renamed has no other call under its name, and there is one write or  *)
(* fsync at a time per name (not per file: two links are two files to the  *)
(* kernel).  With entry_timeout 0 the kernel looks a name up, which is a   *)
(* call of lfs_getattr, before it passes on a call that changes it.        *)
(***************************************************************************)
EXTENDS Integers, FiniteSets

CONSTANTS
    Paths,        \* pairs of a directory and a name in it
    Inodes,       \* inode numbers, which the file system below reuses
    NoInode,      \* the empty string, and the inode of a name that does not exist
    Threads,      \* the threads of FUSE
    Tags,         \* what a write can put in a file
    Zero,         \* the tag of a hole
    NoTag,        \* an item without cached data
    MaxSize,      \* bound on the size of a file
    Disturbances  \* what else may happen, see below

\* What users, applications and the file system below may do and the code does not
\* stand.  Nothing in the code rules it out, and the handlers and commands are modelled
\* for all of it; a disturbance that is not in the set is assumed away where a call
\* begins or is scheduled (see "What is assumed" at the end of the model).
\* "fail":   unlink or rename of the file system below fails;
\* "clear":  the cache is cleared between a lookup and the call it is for;
\* "relink": a rename of one link of a file to another;
\* "race":   calls on one file overlap while its item is created, or write it
\*           through two links.
ASSUME CacheNamesAssumption ==
    /\ Paths \subseteq (STRING \X STRING) /\ Paths # {}
    /\ NoInode \notin Inodes
    /\ Zero \in Tags /\ NoTag \notin Tags
    /\ MaxSize \in Nat
    /\ Disturbances \subseteq {"fail", "clear", "relink", "race"}

VARIABLES
    dir,      \* below: the inode of each name
    disk,     \* below: the content of each inode
    mapping,  \* Cache::file_inode_mapping
    item,     \* Cache::contents: per inode, links, size, data and its dirty flag
    call      \* per thread: the call it runs

vars == <<dir, disk, mapping, item, call>>

Content == [size : 0 .. MaxSize, tag : Tags]
Empty == [size |-> 0, tag |-> Zero]

\* An item has at least one link; none stands for no item.  What is dirty is data.
Item ==
    {it \in [nlinks : Nat, size : 0 .. MaxSize, tag : Tags \cup {NoTag}, dirty : BOOLEAN] :
        it.dirty => it.tag # NoTag}
NoItem == [nlinks |-> 0, size |-> 0, tag |-> NoTag, dirty |-> FALSE]

\* An item as its constructor makes it.
NewItem == [NoItem EXCEPT !.nlinks = 1]

NameOps == {"link", "unlink", "rename"}
Ops == {"none", "getattr", "create", "write", "fsync"} \cup NameOps

\* at is the path of the lfs_getattr under way, ino what it found, size and
\* nlinks the stat that it keeps, before the size that a write starts from.
Call == [op : Ops, from : Paths, to : Paths, at : Paths, ino : Inodes \cup {NoInode},
         size : 0 .. MaxSize, nlinks : Nat, before : 0 .. MaxSize,
         len : 0 .. MaxSize, tag : Tags,
         pc : {"idle", "getattr", "new", "fill", "ready", "name", "size", "put",
               "store", "sync", "made"}]

AnyPath == CHOOSE p \in Paths : TRUE

NoCall == [op |-> "none", from |-> AnyPath, to |-> AnyPath, at |-> AnyPath,
           ino |-> NoInode, size |-> 0, nlinks |-> 0, before |-> 0, len |-> 0,
           tag |-> Zero, pc |-> "idle"]

TypeOK ==
    /\ dir \in [Paths -> Inodes \cup {NoInode}]
    /\ disk \in [Inodes -> Content]
    /\ mapping \in [Paths -> Inodes \cup {NoInode}]
    /\ item \in [Inodes -> Item]
    /\ call \in [Threads -> Call]

\* LazyFS starts over a directory that may hold linked files, synced ones.
Init ==
    /\ dir \in [Paths -> Inodes \cup {NoInode}]
    /\ disk \in [Inodes -> Content]
    /\ \A i \in Inodes :
          (disk[i].size = 0 \/ \A p \in Paths : dir[p] # i) => disk[i] = Empty
    /\ mapping = [p \in Paths |-> NoInode]
    /\ item = [i \in Inodes |-> NoItem]
    /\ call = [t \in Threads |-> NoCall]

-----------------------------------------------------------------------------

cached(i) == i # NoInode /\ item[i].nlinks > 0

links(i) == Cardinality({p \in Paths : dir[p] = i})

\* The names that the kernel knows: the directory of a new link is locked, and
\* nobody looks the name up, until lfs_link returns.
names == [p \in Paths |->
    IF \E t \in Threads : call[t].pc = "name" /\ call[t].to = p THEN NoInode ELSE dir[p]]

busy(t) == call[t].op # "none"

\* The paths of the call that thread t runs.
used(t) == IF busy(t) THEN {call[t].from, call[t].to} ELSE {}

others(t) == Threads \ {t}

begin(t, c) == call' = [call EXCEPT ![t] = c]

goto(t, label) == call' = [call EXCEPT ![t].pc = label]

return(t) == call' = [call EXCEPT ![t] = NoCall]

-----------------------------------------------------------------------------
(* lfs_getattr, called by the kernel and by the other handlers.            *)

\* Where the call c goes when lfs_getattr returns.
resumed(c) ==
    LET back(label) == [c EXCEPT !.pc = label, !.ino = NoInode, !.size = 0, !.nlinks = 0]
    IN  CASE c.op = "getattr" -> NoCall
          [] c.op = "create"  -> back("made")
          [] c.op = "write"   -> back("size")
          [] c.op = "fsync"   -> back("sync")
          [] c.op = "rename" /\ c.at = c.from /\ dir[c.to] # NoInode
                              -> [back("getattr") EXCEPT !.at = c.to]
          [] OTHER            -> [back("ready") EXCEPT !.at = c.from]

\* The inode that the cache takes a path to be.
inode_of(p) == IF mapping[p] = NoInode THEN dir[p] ELSE mapping[p]

\* The first part of lfs_getattr for the call c: lstat, the inode of the path (a new
\* entry of the map when it has none) and the search for the inode's item.
getattr(t, c) ==
    LET p == c.at
        i == inode_of(p)
    IN  /\ mapping' = [mapping EXCEPT ![p] = i]
        /\ begin(t, IF cached(i) THEN resumed(c)
                    ELSE [c EXCEPT !.pc = "new", !.ino = i,
                                   !.size = disk[dir[p]].size, !.nlinks = links(dir[p])])

GetAttr(t) ==
    /\ call[t].pc = "getattr"
    /\ getattr(t, call[t])
    /\ UNCHANGED <<dir, disk, item>>

\* put_data_blocks without blocks creates the item, unless it is there by now.
GetAttrNew(t) ==
    LET i == call[t].ino
    IN  /\ call[t].pc = "new"
        /\ item' = IF cached(i) THEN item ELSE [item EXCEPT ![i] = NewItem]
        /\ goto(t, "fill")
        /\ UNCHANGED <<dir, disk, mapping>>

\* The item gets the size and the links that lstat returned.
GetAttrFill(t) ==
    LET i == call[t].ino
    IN  /\ call[t].pc = "fill"
        /\ item' = IF cached(i)
                   THEN [item EXCEPT ![i].size = call[t].size, ![i].nlinks = call[t].nlinks]
                   ELSE item
        /\ begin(t, resumed(call[t]))
        /\ UNCHANGED <<dir, disk, mapping>>

-----------------------------------------------------------------------------
(* Calls begin, most of them with lfs_getattr.                             *)

asked(op, p, q) == [NoCall EXCEPT !.op = op, !.from = p, !.to = q, !.at = p]

\* A stat, an open or a read: lfs_getattr is what they change of this state.
BeginGetAttr(t, p) ==
    /\ ~busy(t) /\ names[p] # NoInode
    /\ getattr(t, asked("getattr", p, p))
    /\ UNCHANGED <<dir, disk, item>>

\* No write or fsync is under way under this name.
data_free(p) == \A u \in Threads : call[u].op \in {"write", "fsync"} => call[u].from # p

BeginWrite(t, p, len, tag) ==
    /\ ~busy(t) /\ names[p] # NoInode /\ data_free(p)
    /\ getattr(t, [asked("write", p, p) EXCEPT !.len = len, !.tag = tag])
    /\ UNCHANGED <<dir, disk, item>>

BeginFsync(t, p) ==
    /\ ~busy(t) /\ names[p] # NoInode /\ data_free(p)
    /\ getattr(t, asked("fsync", p, p))
    /\ UNCHANGED <<dir, disk, item>>

\* The kernel lets one call change names at a time.
names_free == \A u \in Threads : call[u].op \notin NameOps \cup {"create"}

\* The kernel looks up the names of a link, an unlink or a rename.
BeginNames(t, op, p, q) ==
    /\ ~busy(t) /\ names_free /\ names[p] # NoInode
    /\ CASE op = "link"   -> dir[q] = NoInode
         [] op = "unlink" -> q = p
         [] op = "rename" -> q # p
    /\ getattr(t, asked(op, p, q))
    /\ UNCHANGED <<dir, disk, item>>

\* lfs_create: the file below is created, with any number that is not in use.
BeginCreate(t, p, i) ==
    /\ ~busy(t) /\ names_free /\ dir[p] = NoInode /\ links(i) = 0
    /\ dir' = [dir EXCEPT ![p] = i]
    /\ disk' = [disk EXCEPT ![i] = Empty]
    /\ begin(t, [asked("create", p, p) EXCEPT !.pc = "getattr"])
    /\ UNCHANGED <<mapping, item>>

-----------------------------------------------------------------------------
(* The handlers, after their lfs_getattr.                                  *)

\* The rest of lfs_create: an item for the inode that lstat returned.
CreateItem(t) ==
    LET i == dir[call[t].from]
    IN  /\ call[t].pc = "made"
        /\ item' = IF cached(i) THEN item ELSE [item EXCEPT ![i] = NewItem]
        /\ return(t)
        /\ UNCHANGED <<dir, disk, mapping>>

\* lfs_write reads the size, stores its data, and stores the size.
WriteSize(t) ==
    LET i == mapping[call[t].from]
    IN  /\ call[t].pc = "size"
        /\ begin(t, [call[t] EXCEPT !.pc = "put", !.ino = i,
                        !.before = IF cached(i) THEN item[i].size
                                   ELSE disk[dir[call[t].from]].size])
        /\ UNCHANGED <<dir, disk, mapping, item>>

WritePut(t) ==
    LET i == call[t].ino
    IN  /\ call[t].pc = "put"
        /\ item' = [item EXCEPT ![i] =
              [(IF cached(i) THEN @ ELSE NewItem) EXCEPT !.tag = call[t].tag, !.dirty = TRUE]]
        /\ begin(t, [call[t] EXCEPT !.pc = "store", !.tag = Zero])
        /\ UNCHANGED <<dir, disk, mapping>>

\* Faulty variant: a write is taken for an append.
longer_always(m, n) == m + n

longer(m, n) == IF m > n THEN m ELSE n

WriteStore(t) ==
    LET i == call[t].ino
    IN  /\ call[t].pc = "store"
        /\ item' = IF cached(i)
                   THEN [item EXCEPT ![i].size = longer(call[t].before, call[t].len)]
                   ELSE item
        /\ return(t)
        /\ UNCHANGED <<dir, disk, mapping>>

\* sync_pages on a file with content c: dirty data is written, then ftruncate.
synced(c, it) ==
    [size |-> it.size,
     tag  |-> IF it.size = 0 THEN Zero ELSE IF it.dirty THEN it.tag ELSE c.tag]

\* sync_owner writes the item of the path's inode to the file at the path.
SyncOwner(t) ==
    LET p == call[t].from
        i == mapping[p]
    IN  /\ call[t].pc = "sync"
        /\ IF cached(i)
           THEN /\ disk' = [disk EXCEPT ![dir[p]] = synced(@, item[i])]
                /\ item' = [item EXCEPT ![i].dirty = FALSE]
           ELSE UNCHANGED <<disk, item>>
        /\ return(t)
        /\ UNCHANGED <<dir, mapping>>

\* lfs_link: link, and in a second step the entry of the map and the count.
Link(t) ==
    /\ call[t].op = "link" /\ call[t].pc = "ready"
    /\ dir' = [dir EXCEPT ![call[t].to] = dir[call[t].from]]
    /\ goto(t, "name")
    /\ UNCHANGED <<disk, mapping, item>>

\* Faulty variant: the entry without the count (increase is false).
LinkNameUncounted(t) ==
    LET i == mapping[call[t].from]
    IN  /\ call[t].pc = "name"
        /\ mapping' = IF i = NoInode THEN mapping ELSE [mapping EXCEPT ![call[t].to] = i]
        /\ return(t)
        /\ UNCHANGED <<dir, disk, item>>

LinkName(t) ==
    LET i == mapping[call[t].from]
    IN  /\ call[t].pc = "name"
        /\ mapping' = IF i = NoInode THEN mapping ELSE [mapping EXCEPT ![call[t].to] = i]
        /\ item' = IF cached(i) THEN [item EXCEPT ![i].nlinks = @ + 1] ELSE item
        /\ return(t)
        /\ UNCHANGED <<dir, disk>>

\* The call below does what it should, or fails.
below(new) == dir' \in {new} \cup (IF "fail" \in Disturbances THEN {dir} ELSE {})

\* libfuse waits until no call is under way under a name that goes.
alone(t) == \A u \in others(t) : used(u) \cap used(t) = {}

\* Faulty variant: the item stays, with the one link that it is left with.
unlinked_kept(it, n) ==
    IF n = 0 THEN it ELSE [it EXCEPT !.nlinks = IF @ > n THEN @ - n ELSE 1]

\* n links of an item go; the item goes with the last one.
unlinked(it, n) ==
    IF n = 0 THEN it ELSE IF it.nlinks > n THEN [it EXCEPT !.nlinks = @ - n] ELSE NoItem

\* Faulty variant: the entry is erased only with the item.
UnlinkMapped(t) ==
    LET p == call[t].from
        i == mapping[p]
    IN  /\ call[t].op = "unlink" /\ call[t].pc = "ready" /\ alone(t)
        /\ IF cached(i)
           THEN /\ mapping' = IF item[i].nlinks = 1 THEN [mapping EXCEPT ![p] = NoInode]
                                                   ELSE mapping
                /\ item' = [item EXCEPT ![i] = unlinked(@, 1)]
           ELSE UNCHANGED <<mapping, item>>
        /\ below([dir EXCEPT ![p] = NoInode])
        /\ return(t)
        /\ UNCHANGED disk

\* remove_cached_item, then unlink.
Unlink(t) ==
    LET p == call[t].from
        i == mapping[p]
    IN  /\ call[t].op = "unlink" /\ call[t].pc = "ready" /\ alone(t)
        /\ IF cached(i)
           THEN /\ mapping' = [mapping EXCEPT ![p] = NoInode]
                /\ item' = [item EXCEPT ![i] = unlinked(@, 1)]
           ELSE UNCHANGED <<mapping, item>>
        /\ below([dir EXCEPT ![p] = NoInode])
        /\ return(t)
        /\ UNCHANGED disk

\* Faulty variant: an entry that is there is not replaced (insert of the map).
rename_items_insert(M) ==
    LET moved   == {m \in M : mapping[m[1]] # NoInode}
        over(i) == Cardinality({m \in moved : mapping[m[2]] = i})
    IN  /\ mapping' = [p \in Paths |->
              IF mapping[p] = NoInode /\ \E m \in moved : m[2] = p
              THEN mapping[(CHOOSE m \in moved : m[2] = p)[1]]
              ELSE IF \E m \in moved : m[1] = p THEN NoInode ELSE mapping[p]]
        /\ item' = [i \in Inodes |-> unlinked(item[i], over(i))]

\* rename_item for every pair of an old and a new path in M: the old path's inode
\* is now the new path's, and the new path's item loses a link.
rename_items(M) ==
    LET moved   == {m \in M : mapping[m[1]] # NoInode}
        over(i) == Cardinality({m \in moved : mapping[m[2]] = i})
    IN  /\ mapping' = [p \in Paths |->
              IF \E m \in moved : m[2] = p
              THEN mapping[(CHOOSE m \in moved : m[2] = p)[1]]
              ELSE IF \E m \in moved : m[1] = p THEN NoInode ELSE mapping[p]]
        /\ item' = [i \in Inodes |-> unlinked(item[i], over(i))]

\* rename of the file system below does nothing to two links of one file.
Rename(t) ==
    LET p == call[t].from
        q == call[t].to
    IN  /\ call[t].op = "rename" /\ call[t].pc = "ready" /\ alone(t)
        /\ rename_items({<<p, q>>})
        /\ below(IF dir[p] = dir[q] THEN dir
                 ELSE [dir EXCEPT ![q] = dir[p], ![p] = NoInode])
        /\ return(t)
        /\ UNCHANGED disk

files(d) == {p \in Paths : p[1] = d /\ dir[p] # NoInode}

\* lfs_recursive_rename and rename, of directory d to e, absent or empty.
RenameDir(d, e) ==
    LET M == {<<p, <<e, p[2]>>>> : p \in files(d)}
    IN  /\ d # e /\ names_free
        /\ files(d) # {} /\ files(e) = {}
        /\ \A m \in M : m[2] \in Paths
        /\ \A u \in Threads : used(u) \cap files(d) = {}
        /\ rename_items(M)
        /\ below([p \in Paths |->
              IF \E m \in M : m[2] = p THEN dir[<<d, p[2]>>]
              ELSE IF p[1] = d THEN NoInode ELSE dir[p]])
        /\ UNCHANGED <<disk, call>>

-----------------------------------------------------------------------------
(* The commands, which hold the command lock exclusively: no handler is    *)
(* under way, but a thread may be between a lookup and its handler.        *)

between(t) ==
    \/ call[t].pc \in {"idle", "ready"}
    \/ call[t].op = "rename" /\ call[t].pc = "getattr"

mapped(i) == {p \in Paths : mapping[p] = i}

\* The entries of the map that a walk over it meets first, one per item; the map
\* is a hash table, so any of an item's may be the first.
met_first(first) ==
    /\ \A p \in first : cached(mapping[p])
    /\ \A i \in Inodes :
          cached(i) /\ mapped(i) # {} => Cardinality(first \cap mapped(i)) = 1

\* clear_all_cache: remove_cached_item erases the entry and removes the item, and
\* does nothing for the other entries of the item; then every item is gone.
Clear ==
    /\ \A t \in Threads : between(t)
    /\ \E first \in SUBSET Paths :
          /\ met_first(first)
          /\ mapping' = [p \in Paths |-> IF p \in first THEN NoInode ELSE mapping[p]]
    /\ item' = [i \in Inodes |-> NoItem]
    /\ UNCHANGED <<dir, disk, call>>

\* full_checkpoint: sync_owner for every entry of the map.  The first entry of an
\* item gets its dirty data, each of them a file of the item's size.
Checkpoint ==
    /\ \A t \in Threads : between(t)
    /\ \E first \in SUBSET Paths :
          /\ met_first(first)
          /\ disk' = [i \in Inodes |->
                LET into == {p \in Paths : dir[p] = i /\ cached(mapping[p])}
                    by   == CHOOSE p \in into : into \cap first # {} => p \in first
                IN  IF into = {} THEN disk[i]
                    ELSE synced(disk[i],
                                [item[mapping[by]] EXCEPT !.dirty = @ /\ by \in first])]
    /\ item' = [i \in Inodes |-> IF mapped(i) # {} THEN [item[i] EXCEPT !.dirty = FALSE]
                                                 ELSE item[i]]
    /\ UNCHANGED <<dir, mapping, call>>

-----------------------------------------------------------------------------
(* What is assumed of the users, the applications and the schedule.        *)

\* A thread other than t makes or fills the item of inode i.
creating(t, i) == \E u \in others(t) : call[u].ino = i /\ call[u].pc \in {"new", "fill"}

\* Nobody looks for the item of an inode while another call makes it.
item_at_rest(t, p) == "race" \in Disturbances \/ ~creating(t, inode_of(p))

\* Nobody writes or syncs a file under two names at a time.
one_name(p) ==
    \/ "race" \in Disturbances
    \/ \A u \in Threads : call[u].op \in {"write", "fsync"} => dir[call[u].from] # dir[p]

\* Nobody renames a link of a file over another link of it.
other_file(op, p, q) == "relink" \in Disturbances \/ (op = "rename" => dir[q] # dir[p])

\* Nobody clears the cache between a lookup and the call that it is for.
nobody_waits == "clear" \in Disturbances \/ \A t \in Threads : ~busy(t)

-----------------------------------------------------------------------------

Begin(t) ==
    \/ \E p \in Paths : item_at_rest(t, p) /\ BeginGetAttr(t, p)
    \/ \E p \in Paths : item_at_rest(t, p) /\ one_name(p) /\ BeginFsync(t, p)
    \/ \E p \in Paths, len \in 1 .. MaxSize, tag \in Tags \ {Zero} :
          item_at_rest(t, p) /\ one_name(p) /\ BeginWrite(t, p, len, tag)
    \/ \E op \in NameOps, p, q \in Paths :
          item_at_rest(t, p) /\ other_file(op, p, q) /\ BeginNames(t, op, p, q)
    \/ \E p \in Paths, i \in Inodes : BeginCreate(t, p, i)

Step(t) ==
    \/ item_at_rest(t, call[t].at) /\ GetAttr(t)
    \/ GetAttrNew(t) \/ GetAttrFill(t) \/ CreateItem(t)
    \/ WriteSize(t) \/ WritePut(t) \/ WriteStore(t) \/ SyncOwner(t)
    \/ Link(t) \/ LinkName(t) \/ Unlink(t) \/ Rename(t)

Next ==
    \/ \E t \in Threads : Begin(t) \/ Step(t)
    \/ \E p, q \in Paths : RenameDir(p[1], q[1])
    \/ nobody_waits /\ Clear
    \/ Checkpoint

Spec == Init /\ [][Next]_vars

-----------------------------------------------------------------------------
(* Properties.                                                             *)

\* lfs_getattr has not set the size and the links of the item yet.
fresh(i) == \E t \in Threads : call[t].ino = i /\ call[t].pc \in {"new", "fill"}

\* The map never leads a path to the inode of another file: not after a clear that
\* leaves entries behind, not when names and inode numbers are used again.
MappedToOwnInode == \A p \in Paths : mapping[p] # NoInode => mapping[p] = names[p]

\* The strengthening that makes MappedToOwnInode inductive, whichever calls overlap and
\* whatever is renamed, as long as unlink and rename below succeed and no clear comes
\* between a lookup and its call.
changes_names(t) == call[t].op \in NameOps \cup {"create"}

OneChangesNames == \A t, u \in Threads : changes_names(t) /\ changes_names(u) => t = u

\* A call keeps the name that it is for, and lfs_getattr is at one of its names.
keeps_name(t) ==
    LET c == call[t]
    IN  /\ c.op = "none" => c.pc = "idle"
        /\ busy(t) => dir[c.from] # NoInode
        /\ c.op = "rename" => c.from # c.to
        /\ c.at # c.from => c.op = "rename" /\ c.at = c.to /\ dir[c.to] # NoInode
        /\ c.op = "link" /\ c.pc # "name" => dir[c.to] = NoInode
        /\ c.pc = "name" => c.op = "link" /\ dir[c.to] = dir[c.from]

\* After its lfs_getattr a call that changes names finds the inode of its name in
\* the map, and an unlink finds the item of the inode.
finds_name(t) ==
    LET c == call[t]
        i == mapping[c.from]
    IN  /\ c.pc \in {"new", "fill"} => c.ino # NoInode /\ c.nlinks >= 1
        /\ c.op \in NameOps /\ (c.pc # "getattr" \/ c.at # c.from) => i # NoInode
        /\ c.op = "unlink" /\ c.pc \in {"new", "fill"} => c.ino = i
        /\ c.op = "unlink" /\ c.pc \in {"fill", "ready"} => cached(i)

\* The name of a link has no call under it until lfs_link returns.
NewNameUnused ==
    \A t, u \in Threads : call[t].pc = "name" /\ busy(u) => call[u].from # call[t].to

NamesInv ==
    /\ TypeOK
    /\ OneChangesNames
    /\ \A t \in Threads : keeps_name(t) /\ finds_name(t)
    /\ NewNameUnused
    /\ MappedToOwnInode

\* An item counts the names of its file, so that it goes with the last one and not
\* before, and no item is left for the next file with its number.
names_of(i) == {p \in Paths : names[p] = i}

settled(i) == cached(i) /\ ~fresh(i)

ItemCountsLinks ==
    \A i \in Inodes : settled(i) => item[i].nlinks = Cardinality(names_of(i))

\* The strengthening that makes ItemCountsLinks inductive when nothing disturbs: the
\* path leads to its file's item, and the item is set.
has_item(p) == mapping[p] = dir[p] /\ settled(dir[p])

\* The call c has been served by lfs_getattr for its first name.
past_getattr(c) ==
    \/ c.pc \in {"made", "size", "put", "store", "sync", "ready", "name"}
    \/ c.at # c.from

\* What lfs_getattr brings is the count of the names, for an item that it makes itself;
\* after it a call has its file's item, and a rename that of the file it replaces.
counts_links(t) ==
    LET c == call[t]
    IN  /\ c.pc \in {"new", "fill"} =>
              /\ mapping[c.at] = c.ino
              /\ c.nlinks = Cardinality(names_of(c.ino))
              /\ cached(c.ino) <=> c.pc = "fill"
        /\ c.pc \in {"put", "store"} => c.ino = dir[c.from]
        /\ past_getattr(c) => has_item(c.from)
        /\ c.op = "rename" =>
              /\ dir[c.to] # dir[c.from]
              /\ c.pc = "ready" /\ dir[c.to] # NoInode => has_item(c.to)

\* One thread makes the item of an inode.
OneMakesItem ==
    \A t, u \in Threads :
        call[t].ino = call[u].ino /\ {call[t].pc, call[u].pc} \subseteq {"new", "fill"} => t = u

LinksInv ==
    /\ NamesInv
    /\ OneMakesItem
    /\ \A t \in Threads : counts_links(t)
    /\ ItemCountsLinks

\* What the data of items and files is while nothing disturbs.  What lfs_getattr found
\* is the file's size until the item has it, and the item has no data before; a write
\* has read the size that it compares with, and its data stays dirty until it returns.
data_call(t) ==
    LET c == call[t]
    IN  /\ c.pc \in {"size", "put", "store"} => c.op = "write"
        /\ c.pc = "sync" => c.op = "fsync"
        /\ c.op = "write" => c.len >= 1
        /\ c.pc \in {"new", "fill"} => c.size = disk[c.ino].size
        /\ c.pc = "fill" => item[c.ino].tag = NoTag
        /\ c.pc = "put" => c.before = item[c.ino].size
        /\ c.pc = "store" => item[c.ino].dirty

is_data_call(t) == call[t].op \in {"write", "fsync"}

OneDataCall ==
    \A t, u \in Threads :
        is_data_call(t) /\ is_data_call(u) /\ dir[call[t].from] = dir[call[u].from] => t = u

\* Data that is not dirty is the file's.
clean(i) ==
    /\ disk[i].size = 0 => disk[i].tag = Zero
    /\ settled(i) /\ item[i].size > 0 /\ item[i].tag # NoTag =>
          item[i].dirty \/ item[i].tag = disk[i].tag

FilesInv ==
    /\ LinksInv
    /\ \A t \in Threads : data_call(t)
    /\ OneDataCall
    /\ \A i \in Inodes : clean(i)

\* What a reader finds in a file, under any of its names.
seen(i) ==
    LET size == IF \E t \in Threads : call[t].ino = i /\ call[t].pc = "store"
                THEN LET t == CHOOSE t \in Threads : call[t].ino = i /\ call[t].pc = "store"
                     IN  longer(call[t].before, call[t].len)
                ELSE item[i].size
    IN  IF ~cached(i) \/ fresh(i) THEN disk[i]
        ELSE [size |-> size,
              tag  |-> IF size = 0 THEN Zero
                       ELSE IF item[i].tag # NoTag THEN item[i].tag ELSE disk[i].tag]

live(i) == names_of(i) # {}

\* A file below changes only into what its readers see, and an fsync that returns left
\* its file so: a sync writes the file's own content, all of it.  This needs one_name and
\* item_at_rest: when an fsync meets the call that makes the item of its file, it fails.
SyncIsExact ==
    [][/\ \A i \in Inodes :
             live(i) /\ live(i)' /\ disk'[i] # disk[i] => disk'[i] = seen(i)
       /\ \A t \in Threads : call[t].pc = "sync" /\ call'[t].pc = "idle" =>
             disk'[dir[call[t].from]] = seen(dir[call[t].from])]_vars

\* A checkpoint writes all the data that is not durable yet, whatever happened to the
\* names of its files.  It does not: an item that no entry of the map leads to is missed.
CheckpointWritesAll ==
    [][Checkpoint => \A i \in Inodes : live(i) => disk'[i] = seen(i)]_vars

\* Names and files behave as without the cache of names: a call that changes a name
\* changes no content, and only clear loses one.
Files == INSTANCE NamedFiles WITH
    names   <- names,
    content <- [i \in Inodes |-> IF live(i) THEN seen(i) ELSE Empty],
    durable <- [i \in Inodes |-> IF live(i) THEN disk[i] ELSE Empty]

FilesSpec == Files!Spec
=============================================================================
