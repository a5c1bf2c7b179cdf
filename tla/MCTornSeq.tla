----------------------------- MODULE MCTornSeq -----------------------------
(* Instances of TornSeq for TLC. *)
EXTENDS TornSeq

CONSTANTS f1, f2

\* One fault with any list of the first three writes, and 0; or two faults whose lists do
\* not hold the first write.
Sound ==
    [{f1} -> UNION {SetToSeqs(S) : S \in SUBSET (0 .. 3) \ {{}}}]
    \cup
    {(f1 :> p) @@ (f2 :> <<2>>) : p \in {<<3>>, <<2, 3>>}}
=============================================================================
