---------------------------- MODULE MCClearFault ----------------------------
(* Instances of ClearFault for TLC. *)
EXTENDS ClearFault

\* The faults whose triggers under the command lock do nothing but kill: timing
\* before where every run of the handler starts outside the lock, with a crash
\* everywhere else; timing after with a crash, on calls that the kernel serialises.
Sound ==
    [timing : {"before"}, op : {"fsync", "read"}, occurrence : {1, 2}, crash : BOOLEAN]
    \cup
    [timing : {"before"}, op : {"write", "truncate"}, occurrence : {1, 2}, crash : {TRUE}]
    \cup
    [timing : {"before"}, op : {"unlink"}, occurrence : {1, 2}, crash : {TRUE}]
    \cup
    [timing : {"after"}, op : {"fsync", "write"}, occurrence : {1, 2}, crash : {TRUE}]

\* Timing after without a crash.
AfterNoCrash ==
    [timing : {"after"}, op : {"fsync"}, occurrence : {1}, crash : {FALSE}]

\* Timing before without a crash, on a call that runs its own handler inside.
BeforeNested ==
    [timing : {"before"}, op : {"write"}, occurrence : {1}, crash : {FALSE}]

\* Timing before without a crash, on unlink.
BeforeUnlink ==
    [timing : {"before"}, op : {"unlink"}, occurrence : {1}, crash : {FALSE}]

\* Timing after with a crash, on a write that may be sparse.
AfterWrite ==
    [timing : {"after"}, op : {"write"}, occurrence : {1}, crash : {TRUE}]

\* Timing after with a crash, on unlink.
AfterUnlink ==
    [timing : {"after"}, op : {"unlink"}, occurrence : {1}, crash : {TRUE}]
=============================================================================
