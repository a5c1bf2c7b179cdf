---------------------------- MODULE MCCacheNames ----------------------------
(* Instances of CacheNames for TLC. *)
EXTENDS CacheNames, TLC

\* Two directories; one name is in both, so that one can be renamed to the other.
ThreePaths == {<<"a", "x">>, <<"a", "y">>, <<"b", "x">>}
TwoPaths == {<<"a", "x">>, <<"b", "x">>}

Undisturbed == {}
Racing == {"race"}
Overlapping == {"race", "relink"}

\* Threads and inode numbers are interchangeable: no definition tells them apart.
Symmetry == Permutations(Threads) \cup Permutations(Inodes)
=============================================================================
