----------------------------- MODULE NamedFiles -----------------------------
(***************************************************************************)
(* What names and files promise, without a cache of them: a name leads to  *)
(* one file, several names may lead to the same one, a file lives as long  *)
(* as it has a name, and a file number that is used again starts an empty  *)
(* file.  A file has a content and a durable content; only a sync makes    *)
(* the first the second, and only a loss the second the first.  No change  *)
(* of a name touches a content.                                            *)
(***************************************************************************)
EXTENDS Integers

CONSTANTS
    Paths,     \* pairs of a directory and a name in it
    Inodes,    \* the numbers of files
    NoInode,   \* the file of a name that does not exist
    Tags,      \* what a write can put in a file
    Zero,      \* what a file holds before a write
    MaxSize    \* bound on the size of a file

VARIABLES
    names,     \* the file that each name leads to
    content,   \* what a reader sees
    durable    \* what survives a loss of the cache

vars == <<names, content, durable>>

Content == [size : 0 .. MaxSize, tag : Tags]

Empty == [size |-> 0, tag |-> Zero]

Init ==
    /\ names \in [Paths -> Inodes \cup {NoInode}]
    /\ content \in [Inodes -> Content]
    /\ durable = content

\* Names change; the files that lose their last name are gone.
Renamed(new) ==
    LET kept(c) == [i \in Inodes |-> IF \E p \in Paths : new[p] = i THEN c[i] ELSE Empty]
    IN  /\ names' = new
        /\ content' = kept(content)
        /\ durable' = kept(durable)

Create(p, i) ==
    /\ names[p] = NoInode
    /\ \A q \in Paths : names[q] # i
    /\ Renamed([names EXCEPT ![p] = i])

Link(p, q) ==
    /\ names[p] # NoInode /\ names[q] = NoInode
    /\ Renamed([names EXCEPT ![q] = names[p]])

Unlink(p) ==
    /\ names[p] # NoInode
    /\ Renamed([names EXCEPT ![p] = NoInode])

moved(p, q) == [names EXCEPT ![q] = names[p], ![p] = NoInode]

Rename(p, q) ==
    /\ names[p] # NoInode
    /\ Renamed(moved(p, q))

moved_dir(d, e) ==
    [p \in Paths |->
        IF p[1] = d THEN NoInode
        ELSE IF p[1] = e /\ <<d, p[2]>> \in Paths THEN names[<<d, p[2]>>]
        ELSE names[p]]

\* The files of directory d get their names in directory e, which was empty.
RenameDir(d, e) ==
    /\ d # e
    /\ \A p \in Paths : p[1] = e => names[p] = NoInode
    /\ Renamed(moved_dir(d, e))

Write(i, len, tag) ==
    /\ \E p \in Paths : names[p] = i
    /\ content' = [content EXCEPT ![i] =
          [size |-> IF len > @.size THEN len ELSE @.size, tag |-> tag]]
    /\ UNCHANGED <<names, durable>>

\* The files in S become durable.
Sync(S) ==
    /\ durable' = [i \in Inodes |-> IF i \in S THEN content[i] ELSE durable[i]]
    /\ UNCHANGED <<names, content>>

Lose ==
    /\ content' = durable
    /\ UNCHANGED <<names, durable>>

Next ==
    \/ \E p \in Paths, i \in Inodes : Create(p, i)
    \/ \E p, q \in Paths : Link(p, q) \/ Rename(p, q) \/ RenameDir(p[1], q[1])
    \/ \E p \in Paths : Unlink(p)
    \/ \E i \in Inodes, len \in 1 .. MaxSize, tag \in Tags : Write(i, len, tag)
    \/ \E S \in SUBSET Inodes : Sync(S)
    \/ Lose

Spec == Init /\ [][Next]_vars
=============================================================================
