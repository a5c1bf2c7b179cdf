----------------------------- MODULE BlockStore -----------------------------
(***************************************************************************)
(* What the page cache of LazyFS promises to the file-system layer, with   *)
(* no pages, no mappings and no flags: a bounded store of file blocks in   *)
(* front of the underlying file system.                                    *)
(*                                                                         *)
(* Every block has a volatile content (what a reader sees) and a durable   *)
(* content (what a crash leaves).  They differ only for the blocks the     *)
(* store holds.  Dirty content reaches the durable side when its owner is  *)
(* synced, and never before; a write bypasses the store only when the      *)
(* store is at its capacity.                                               *)
(***************************************************************************)
EXTENDS Integers, FiniteSets

CONSTANTS
    Owners,     \* the content ids (inode numbers)
    Blocks,     \* the block numbers of a file
    Values,     \* the contents a block can have
    Zero,       \* the content of a block never written
    Capacity    \* how many blocks the store can hold

VARIABLES
    held,       \* the <<owner, block>> pairs held by the store
    volatile,   \* what a reader sees
    durable,    \* what is on the underlying file system
    reply       \* the content returned by the last read

vars == <<held, volatile, durable, reply>>

TypeOK ==
    /\ held \subseteq (Owners \X Blocks)
    /\ volatile \in [Owners -> [Blocks -> Values]]
    /\ durable \in [Owners -> [Blocks -> Values]]
    /\ reply \in Values

Init ==
    /\ held = {}
    /\ durable \in [Owners -> [Blocks -> Values]]
    /\ volatile = durable
    /\ reply = Zero

\* A write kept by the store: nothing becomes durable.
Write(o, b, v) ==
    /\ <<o, b>> \notin held => Cardinality(held) < Capacity
    /\ held' = held \cup {<<o, b>>}
    /\ volatile' = [volatile EXCEPT ![o][b] = v]
    /\ UNCHANGED <<durable, reply>>

\* A write the store has no room for goes to the underlying file system.
WriteThrough(o, b, v) ==
    /\ <<o, b>> \notin held
    /\ Cardinality(held) = Capacity
    /\ volatile' = [volatile EXCEPT ![o][b] = v]
    /\ durable' = [durable EXCEPT ![o][b] = v]
    /\ UNCHANGED <<held, reply>>

Read(o, b) ==
    /\ reply' = volatile[o][b]
    /\ UNCHANGED <<held, volatile, durable>>

\* Everything written to o becomes durable; o's blocks stay in the store.
Sync(o) ==
    /\ durable' = [durable EXCEPT ![o] = volatile[o]]
    /\ UNCHANGED <<held, volatile, reply>>

\* The store drops some blocks without writing them anywhere.
Discard(S) ==
    /\ held' = held \ S
    /\ volatile' = [o \in Owners |-> [b \in Blocks |->
                       IF <<o, b>> \in S THEN durable[o][b] ELSE volatile[o][b]]]
    /\ UNCHANGED <<durable, reply>>

\* The file is gone: a file that reuses its inode starts empty.
Delete(o) ==
    /\ held' = held \ ({o} \X Blocks)
    /\ volatile' = [volatile EXCEPT ![o] = [b \in Blocks |-> Zero]]
    /\ durable' = [durable EXCEPT ![o] = [b \in Blocks |-> Zero]]
    /\ UNCHANGED reply

Next ==
    \/ \E o \in Owners, b \in Blocks, v \in Values :
          Write(o, b, v) \/ WriteThrough(o, b, v)
    \/ \E o \in Owners, b \in Blocks : Read(o, b)
    \/ \E o \in Owners : Sync(o) \/ Delete(o)
    \/ \E S \in SUBSET held : Discard(S)

Spec == Init /\ [][Next]_vars
=============================================================================
