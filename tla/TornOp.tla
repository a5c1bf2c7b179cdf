------------------------------- MODULE TornOp -------------------------------
(***************************************************************************)
(* The torn-op fault: one write of a file is split into parts, some of the *)
(* parts reach the disk at once, and LazyFS kills itself.  The code is the *)
(* check of the fault's parameters in SplitWriteF::validate and the offset *)
(* arithmetic of split_write.                                              *)
(*                                                                         *)
(* Bytes are named by their place in the buffer of the write: split_write  *)
(* writes byte i of the buffer at the offset of the write plus i.  The     *)
(* list of files under injection is part of TornSeq.  FaultCommands says   *)
(* where the faults come from and composes them with the crash faults.     *)
(***************************************************************************)
EXTENDS Integers, Sequences, FiniteSets, SequencesExt

CONSTANTS
    Files,      \* the files that a fault can be for
    NoFault,    \* no fault for this file
    Sizes,      \* the sizes of the application's writes
    MaxWrites   \* bound on the number of writes of a file

ASSUME TornOpAssumption ==
    /\ Sizes \subseteq Nat \ {0}
    /\ MaxWrites \in Nat

VARIABLES
    fault,      \* per file: its fault
    counter,    \* per file: SplitWriteF::counter
    torn,       \* the file and the size of the write that was split
    persisted,  \* the bytes of that write that are on the disk
    killed      \* LazyFS has killed itself

torn_vars == <<fault, counter, torn, persisted, killed>>

\* A fault as its constructor makes it; parts is -1 when it has parts_bytes.
SplitWriteF ==
    [occurrence : Nat, persist : Seq(Nat), parts : Int, parts_bytes : Seq(Nat)]

custom(f) == f.parts = -1

nr_parts(f) == IF custom(f) THEN Len(f.parts_bytes) ELSE f.parts

\* Faulty variants: one of the bounds of persist is not checked.
valid_from_zero(f) ==
    /\ f.occurrence > 0
    /\ custom(f) \/ f.parts > 0
    /\ \A i \in DOMAIN f.parts_bytes : f.parts_bytes[i] > 0
    /\ \A i \in DOMAIN f.persist : f.persist[i] <= nr_parts(f)

valid_unbounded(f) ==
    /\ f.occurrence > 0
    /\ custom(f) \/ f.parts > 0
    /\ \A i \in DOMAIN f.parts_bytes : f.parts_bytes[i] > 0
    /\ \A i \in DOMAIN f.persist : f.persist[i] > 0

valid(f) ==
    /\ f.occurrence > 0
    /\ custom(f) \/ f.parts > 0
    /\ \A i \in DOMAIN f.parts_bytes : f.parts_bytes[i] > 0
    /\ \A i \in DOMAIN f.persist : f.persist[i] > 0 /\ f.persist[i] <= nr_parts(f)

TornTypeOK ==
    /\ \A f \in Files : fault[f] # NoFault => fault[f] \in SplitWriteF
    /\ counter \in [Files -> 0 .. MaxWrites]
    /\ torn.size \in Sizes \cup {0}
    /\ persisted \subseteq Nat
    /\ killed \in BOOLEAN

TornInit ==
    /\ counter = [f \in Files |-> 0]
    /\ torn = [file |-> CHOOSE f \in Files : TRUE, size |-> 0]
    /\ persisted = {}

-----------------------------------------------------------------------------

\* The length of part p; a valid fault names no part past the last.
length_at(lengths, p) == IF p \in DOMAIN lengths THEN lengths[p] ELSE 0

\* The bytes of the parts before part p.
bytes_before(lengths, p) ==
    LET before[q \in Nat] ==
            IF q <= 1 THEN 0 ELSE before[q - 1] + length_at(lengths, q - 1)
    IN  before[p]

\* Faulty variant: the part itself counts as before it.
custom_piece_next(f, i) ==
    [from |-> bytes_before(f.parts_bytes, f.persist[i] + 1),
     len  |-> length_at(f.parts_bytes, f.persist[i])]

\* What is written for entry i of persist when the parts have given lengths.
custom_piece(f, i) ==
    [from |-> bytes_before(f.parts_bytes, f.persist[i]),
     len  |-> length_at(f.parts_bytes, f.persist[i])]

\* The same for equal parts: the last entry of persist takes the rest too.
equal_piece(f, i, size) ==
    LET each == size \div f.parts
    IN  [from |-> (f.persist[i] - 1) * each,
         len  |-> each + (IF i = Len(f.persist) THEN size % f.parts ELSE 0)]

pieces(f, size) ==
    {IF custom(f) THEN custom_piece(f, i) ELSE equal_piece(f, i, size) : i \in DOMAIN f.persist}

bytes_of(piece) == piece.from .. (piece.from + piece.len - 1)

\* Given lengths must add up to the size of the write, or nothing is done.
fits(f, size) ==
    custom(f) /\ f.persist # <<>> => bytes_before(f.parts_bytes, nr_parts(f) + 1) = size

\* Faulty variant: the writes before this one are compared.
tears_late(f, size) ==
    /\ fault[f] # NoFault
    /\ counter[f] = fault[f].occurrence
    /\ fits(fault[f], size)

\* The write of size bytes to file f is the one to tear.
tears(f, size) ==
    /\ fault[f] # NoFault
    /\ counter[f] + 1 = fault[f].occurrence
    /\ fits(fault[f], size)

\* split_write, at the end of a write of size bytes to file f: the write counts,
\* and the pieces of the one to tear are written.
split_write(f, size) ==
    /\ counter[f] < MaxWrites
    /\ counter' = IF fault[f] = NoFault THEN counter ELSE [counter EXCEPT ![f] = @ + 1]
    /\ IF tears(f, size)
       THEN /\ torn' = [file |-> f, size |-> size]
            /\ persisted' = UNION {bytes_of(piece) : piece \in pieces(fault[f], size)}
       ELSE UNCHANGED <<torn, persisted>>

-----------------------------------------------------------------------------
(* Properties.                                                             *)

\* Where part p of a write of size bytes begins: the parts follow each other, and each
\* has the given length or an equal share.
begins(f, p, size) ==
    IF custom(f) THEN bytes_before(f.parts_bytes, p) ELSE (p - 1) * (size \div f.parts)

part(f, p, size) ==
    {i \in 0 .. size - 1 : begins(f, p, size) <= i /\ i < begins(f, p + 1, size)}

\* The bytes that an uneven division leaves, when p is the part that is listed last.
rest(f, p, size) ==
    {i \in 0 .. size - 1 :
        /\ ~custom(f)
        /\ begins(f, p + 1, size) <= i /\ i < begins(f, p + 1, size) + (size % f.parts)}

\* The bytes that a fault with these parameters is to leave on the disk.
wanted(f, size) ==
    (UNION {part(f, f.persist[i], size) : i \in DOMAIN f.persist})
        \cup (IF f.persist = <<>> THEN {} ELSE rest(f, Last(f.persist), size))

\* Whatever the parameters that were accepted, split_write reads no byte outside
\* the buffer of the write.
WithinWrite == persisted \subseteq 0 .. torn.size - 1
=============================================================================
