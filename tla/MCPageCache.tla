---------------------------- MODULE MCPageCache ----------------------------
(* Instances of PageCache for TLC. *)
EXTENDS PageCache, TLC

CONSTANTS o1, o2, p1, p2, p3, none, nopage

MCOwners == {o1, o2}
MCBlocks == {0, 1}
ThreeBlocks == {0, 1, 2}
MCValues == {0, 1}
OneValue == {0}
TwoPages == {p1, p2}
ThreePages == {p1, p2, p3}

============================================================================
