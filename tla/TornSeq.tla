------------------------------ MODULE TornSeq ------------------------------
(***************************************************************************)
(* The torn-seq fault: in the occurrence-th group of writes to a file with *)
(* no fsync between them, the writes that the list persist names reach the *)
(* disk at once, and after the last of them LazyFS kills itself.  The code *)
(* is persist_write, called at the end of lfs_write, with the counters of  *)
(* ReorderF, the one pending write of LazyFS and the reset in lfs_fsync.   *)
(*                                                                         *)
(* A group has at least two writes, so the first write is kept aside until *)
(* the second one comes.  One thread at a time writes or syncs a file (the *)
(* kernel holds its inode lock); handlers of several files interleave at   *)
(* the lock sections of persist_write.  A file has at most one fault; the  *)
(* writes to a file without one change nothing here.                       *)
(***************************************************************************)
EXTENDS Integers, Sequences, FiniteSets, SequencesExt

CONSTANTS
    Files,        \* the files
    Given,        \* the configured lists: functions from some files to lists
    Occurrences,  \* the numbers a user may give as occurrence
    NoWrite,      \* no pending write
    MaxWrites,    \* bound on the writes of a file between two fsyncs
    MaxRuns       \* bound on the times a file is synced, plus one

\* A write is named by its file, its run of writes and its number in the run.
Writes == [file : Files, run : 1 .. MaxRuns, n : 1 .. MaxWrites]

ASSUME TornSeqAssumption ==
    /\ \A lists \in Given :
          /\ DOMAIN lists \subseteq Files
          /\ \A f \in DOMAIN lists :
                lists[f] \in Seq(Nat) /\ lists[f] # <<>> /\ IsInjective(lists[f])
    /\ Occurrences \subseteq Nat
    /\ MaxWrites \in Nat /\ MaxRuns \in Nat \ {0}
    /\ NoWrite \notin Writes

\* The configuration parser sorts each list.  The errors that the check of a fault
\* finds go to a variable that hides the one that is read, so a list with a 0, or
\* occurrence 0, is accepted.
configured(lists) == [f \in DOMAIN lists |-> SortSeq(lists[f], <)]

Configurations == {configured(lists) : lists \in Given}

\* std::sort leaves the largest number last.
ASSUME SortAssumption ==
    \A lists \in Configurations : \A f \in DOMAIN lists :
        LET list == lists[f]
        IN  /\ list \in Seq(Nat) /\ list # <<>>
            /\ \A n \in Range(list) : n <= Last(list)

VARIABLES
    persist,          \* per file with a fault: ReorderF::persist
    occurrence,       \* per file: ReorderF::occurrence
    counter,          \* per file: writes since the last fsync
    group_counter,    \* per file: groups of two or more writes so far
    pending_write,    \* the first write of a group, kept aside
    injecting_fault,  \* the files with a group in progress
    crash_faults,     \* the files with a crash fault "after write"
    pc,               \* per file: where its handler is
    persisted,        \* the writes that the fault has written to the disk
    killed,           \* LazyFS has killed itself
    runs              \* history: per file, the number of writes between fsyncs

fault == <<persist, occurrence>>
vars == <<fault, counter, group_counter, pending_write, injecting_fault,
          crash_faults, pc, persisted, killed, runs>>

TypeOK ==
    /\ persist \in Configurations
    /\ occurrence \in [Files -> Occurrences]
    /\ counter \in [Files -> 0 .. MaxWrites]
    /\ group_counter \in [Files -> 0 .. MaxRuns]
    /\ pending_write \in Writes \cup {NoWrite}
    /\ injecting_fault \subseteq Files /\ crash_faults \subseteq Files
    /\ pc \in [Files -> {"idle", "group", "persist", "trigger", "forget"}]
    /\ persisted \subseteq Writes
    /\ killed \in BOOLEAN
    /\ \A f \in Files : runs[f] \in Seq(0 .. MaxWrites)

Init ==
    /\ persist \in Configurations
    /\ occurrence \in [Files -> Occurrences]
    /\ counter = [f \in Files |-> 0]
    /\ group_counter = [f \in Files |-> 0]
    /\ pending_write = NoWrite
    /\ injecting_fault = {} /\ crash_faults = {}
    /\ pc = [f \in Files |-> "idle"]
    /\ persisted = {}
    /\ killed = FALSE
    /\ runs = [f \in Files |-> <<0>>]

-----------------------------------------------------------------------------

this_write(f) == [file |-> f, run |-> Len(runs[f]), n |-> counter[f]]

goto(f, label) == pc' = [pc EXCEPT ![f] = label]

\* A write has gone through the cache; the fault of its file counts it.
CountWrite(f) ==
    /\ ~ killed /\ pc[f] = "idle"
    /\ Last(runs[f]) < MaxWrites
    /\ counter' = [counter EXCEPT ![f] = @ + 1]
    /\ runs' = [runs EXCEPT ![f][Len(runs[f])] = @ + 1]
    /\ goto(f, "group")
    /\ UNCHANGED <<fault, group_counter, pending_write, injecting_fault,
                   crash_faults, persisted, killed>>

\* Faulty variant: every write is the start of a group.
starts_group_always(f) == counter[f] >= 1

\* The second write of a run makes it a group.
starts_group(f) == counter[f] = 2

\* The pending write is written when it belongs to the group to tear.
persist_pending(f) ==
    group_counter[f] + (IF starts_group(f) THEN 1 ELSE 0) = occurrence[f]

\* The section of persist_write under write_lock.  A list of one write ends here
\* with the crash fault, and the pending write stays.
CountGroup(f) ==
    /\ ~ killed /\ pc[f] = "group"
    /\ IF starts_group(f)
       THEN /\ injecting_fault' = injecting_fault \cup {f}
            /\ group_counter' = [group_counter EXCEPT ![f] = @ + 1]
       ELSE UNCHANGED <<injecting_fault, group_counter>>
    /\ \/ /\ pending_write = NoWrite
          /\ goto(f, "persist")
          /\ UNCHANGED <<pending_write, persisted, crash_faults>>
       \/ /\ pending_write # NoWrite /\ ~ persist_pending(f)
          /\ pending_write' = NoWrite
          /\ goto(f, "persist")
          /\ UNCHANGED <<persisted, crash_faults>>
       \/ /\ pending_write # NoWrite /\ persist_pending(f)
          /\ persisted' = persisted \cup {pending_write}
          /\ IF Len(persist[f]) = 1
             THEN /\ crash_faults' = crash_faults \cup {f}
                  /\ goto(f, "trigger")
                  /\ UNCHANGED pending_write
             ELSE /\ pending_write' = NoWrite
                  /\ goto(f, "persist")
                  /\ UNCHANGED crash_faults
    /\ UNCHANGED <<fault, counter, killed, runs>>

\* Faulty variant: the crash is not for the last write but for any listed one.
is_last_first(f) == counter[f] = Head(persist[f])

is_last(f) == counter[f] = Last(persist[f])

\* The rest of persist_write: a write of the list is kept aside or written.
PersistWrite(f) ==
    /\ ~ killed /\ pc[f] = "persist"
    /\ goto(f, "trigger")
    /\ IF counter[f] \in Range(persist[f]) /\ counter[f] = 1
       THEN pending_write' = this_write(f)
       ELSE UNCHANGED pending_write
    /\ IF /\ counter[f] \in Range(persist[f]) /\ counter[f] # 1
          /\ group_counter[f] = occurrence[f]
       THEN /\ persisted' = persisted \cup {this_write(f)}
            /\ crash_faults' = IF is_last(f) THEN crash_faults \cup {f} ELSE crash_faults
       ELSE UNCHANGED <<persisted, crash_faults>>
    /\ UNCHANGED <<fault, counter, group_counter, injecting_fault, killed, runs>>

\* Faulty variant: the crash fault is looked up before the write is persisted.
TriggerNever(f) ==
    /\ ~ killed /\ pc[f] = "trigger"
    /\ goto(f, "idle")
    /\ UNCHANGED <<fault, counter, group_counter, pending_write, injecting_fault,
                   crash_faults, persisted, killed, runs>>

\* trigger_crash_fault at the end of lfs_write: log the report and kill, or return.
Trigger(f) ==
    /\ ~ killed /\ pc[f] = "trigger"
    /\ IF f \in crash_faults
       THEN killed' = TRUE /\ UNCHANGED pc
       ELSE goto(f, "idle") /\ UNCHANGED killed
    /\ UNCHANGED <<fault, counter, group_counter, pending_write, injecting_fault,
                   crash_faults, persisted, runs>>

\* lfs_fsync: restart_counter.
RestartCounter(f) ==
    /\ ~ killed /\ pc[f] = "idle"
    /\ Len(runs[f]) < MaxRuns
    /\ counter' = [counter EXCEPT ![f] = 0]
    /\ goto(f, "forget")
    /\ UNCHANGED <<fault, group_counter, pending_write, injecting_fault,
                   crash_faults, persisted, killed, runs>>

\* Faulty variant: fsync leaves the pending write.
ForgetNothing(f) ==
    /\ ~ killed /\ pc[f] = "forget"
    /\ injecting_fault' = injecting_fault \ {f}
    /\ runs' = [runs EXCEPT ![f] = Append(@, 0)]
    /\ goto(f, "idle")
    /\ UNCHANGED <<fault, counter, group_counter, pending_write, crash_faults,
                   persisted, killed>>

\* lfs_fsync: check_and_delete_pendingwrite, then the sync ends the run.
ForgetPending(f) ==
    /\ ~ killed /\ pc[f] = "forget"
    /\ pending_write' = IF pending_write # NoWrite /\ pending_write.file = f
                        THEN NoWrite ELSE pending_write
    /\ injecting_fault' = injecting_fault \ {f}
    /\ runs' = [runs EXCEPT ![f] = Append(@, 0)]
    /\ goto(f, "idle")
    /\ UNCHANGED <<fault, counter, group_counter, crash_faults, persisted, killed>>

\* The steps of a handler that has begun.
Handler(f) ==
    \/ CountGroup(f)
    \/ PersistWrite(f)
    \/ Trigger(f)
    \/ ForgetPending(f)

Next == \E f \in DOMAIN persist : CountWrite(f) \/ RestartCounter(f) \/ Handler(f)

\* A handler that has begun goes on: it waits for nothing but write_lock, which
\* every holder releases.  The application need not make another call.
Fairness == \A f \in Files : WF_vars(f \in DOMAIN persist /\ Handler(f))

Spec == Init /\ [][Next]_vars /\ Fairness

-----------------------------------------------------------------------------
(* Properties.                                                             *)

\* There is one pending write for all files, so the fault is right when one file has
\* a fault, or none has one that lists the first write.
Alone ==
    \A lists \in Configurations :
        \/ \E f \in Files : DOMAIN lists = {f}
        \/ \A f \in DOMAIN lists : 1 \notin Range(lists[f])

\* The runs of f that are groups, up to run r: two or more writes.
groups(f, r) == {q \in 1 .. r : runs[f][q] >= 2}

\* The run that the fault of f is to tear.
is_target(f, r) ==
    r \in groups(f, Len(runs[f])) /\ Cardinality(groups(f, r)) = occurrence[f]

\* The fault writes nothing but the listed writes of the group that it names:
\* neither of an earlier group nor of a run that stayed at one write.
OnlyTargetPersisted ==
    \A w \in persisted : w.n \in Range(persist[w.file]) /\ is_target(w.file, w.run)

\* When LazyFS kills itself for a file, all the listed writes of the group are on
\* the disk, however the handlers of other files ran.  No write has number 0.
TornAsConfigured ==
    killed => \A f \in crash_faults :
        {w.n : w \in {v \in persisted : v.file = f}} = Range(persist[f]) \ {0}

\* The strengthening that makes the two invariants above inductive.
\* The counters of the fault are the history of the writes: counter is the length
\* of the last run, and group_counter the number of groups, once it is counted.
follows_runs(f) ==
    /\ Len(runs[f]) \in 1 .. MaxRuns
    /\ counter[f] = IF pc[f] = "forget" THEN 0 ELSE Last(runs[f])
    /\ pc[f] \in {"group", "persist"} => counter[f] >= 1
    /\ pc[f] = "forget" => Len(runs[f]) < MaxRuns
    /\ Cardinality(groups(f, Len(runs[f]))) =
          group_counter[f] + (IF pc[f] = "group" /\ starts_group(f) THEN 1 ELSE 0)

\* The first write of the run of f is counted, and has not been dropped.
first_write_waits(f) ==
    \/ pc[f] \in {"trigger", "idle"} /\ counter[f] = 1
    \/ pc[f] = "group" /\ starts_group(f)

\* The pending write is the first of the current run of its file, which lists it,
PendingIsFirst ==
    pending_write # NoWrite =>
        LET f == pending_write.file
        IN  /\ f \in DOMAIN persist /\ 1 \in Range(persist[f])
            /\ pending_write.n = 1 /\ pending_write.run = Len(runs[f])
            /\ first_write_waits(f) \/ pc[f] = "forget" \/ f \in crash_faults

\* and a listed first write is pending.
first_is_pending(f) ==
    1 \in Range(persist[f]) /\ first_write_waits(f) /\ f \notin crash_faults =>
        pending_write = [file |-> f, run |-> Len(runs[f]), n |-> 1]

numbers(f) == {w.n : w \in {v \in persisted : v.file = f}}

\* The listed writes of the group to tear are on the disk as far as it has come.
persisted_so_far(f) ==
    /\ group_counter[f] < occurrence[f] => numbers(f) = {}
    /\ /\ group_counter[f] = occurrence[f] /\ counter[f] >= 2
       /\ ~ (pc[f] = "group" /\ starts_group(f))
       => numbers(f) = {n \in Range(persist[f]) : 1 <= n /\
              (IF pc[f] \in {"group", "persist"} THEN n < counter[f] ELSE n <= counter[f])}
    /\ f \in crash_faults =>
          pc[f] = "trigger" /\ numbers(f) = Range(persist[f]) \ {0}

TornInv ==
    /\ TypeOK
    /\ crash_faults \subseteq DOMAIN persist
    /\ runs \in [Files -> Seq(0 .. MaxWrites)]
    /\ \A f \in Files : follows_runs(f)
    /\ PendingIsFirst
    /\ \A f \in DOMAIN persist : first_is_pending(f) /\ persisted_so_far(f)
    /\ OnlyTargetPersisted

\* A group that gets to its last listed write ends in the crash, if the fault is one
\* that the check finds right.
reached(f) ==
    /\ 0 \notin Range(persist[f])
    /\ \E r \in 1 .. Len(runs[f]) :
          /\ is_target(f, r)
          /\ \A n \in Range(persist[f]) : n <= runs[f][r]

FaultFires == \A f \in Files : (f \in DOMAIN persist /\ reached(f)) ~> killed
=============================================================================
