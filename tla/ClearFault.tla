----------------------------- MODULE ClearFault -----------------------------
(***************************************************************************)
(* The configured clear-cache fault and the command lock.  A handler calls *)
(* trigger_configured_clear_fault before it takes cache_command_lock       *)
(* shared and again at its end, where it still holds it; a fault without a *)
(* crash clears the cache, for which the lock must be taken exclusively.   *)
(* The commands of the FIFO worker take it exclusively too.                *)
(*                                                                         *)
(* One fault is configured, for one operation on one file.  The calls of   *)
(* that operation on that file are the matching calls.  A handler may run  *)
(* the handler of the operation itself, with both of its triggers and      *)
(* under its own shared lock: a write that starts past the end of the file *)
(* runs lfs_write for the zeros of the gap, a truncate that makes the file *)
(* longer runs lfs_write, and an open with O_TRUNC runs lfs_truncate.  The *)
(* last two are the host calls of a fault on write and on truncate.  All   *)
(* other calls matter only as holders of the lock.                         *)
(*                                                                         *)
(* fsync stands for the operations on a file that the kernel serialises    *)
(* and that run no other handler, read for the ones that it does not       *)
(* serialise; the second trigger of unlink passes "before".                *)
(***************************************************************************)
EXTENDS Integers, Sequences, FiniteSets

CONSTANTS
    Threads,      \* the threads of FUSE that run handlers
    Given,        \* the faults that a user may configure
    MaxCalls,     \* bound on the calls of the application
    MaxCommands   \* bound on the commands in the FIFO

ClearF ==
    [timing : {"before", "after"}, op : {"fsync", "read", "write", "truncate", "unlink"},
     occurrence : Nat \ {0}, crash : BOOLEAN]

ASSUME ClearFaultAssumption ==
    /\ Given \subseteq ClearF
    /\ MaxCalls \in Nat /\ MaxCommands \in Nat

VARIABLES
    fault,      \* the configured fault
    counter,    \* ClearF::counter
    pc,         \* per thread: where the handler is that it runs
    role,       \* per thread: "matching", "host" or any "other" call
    nested,     \* per thread: the handler that its call runs inside, if any,
                \* is "ahead" or "running"; "none" when there is none (any more)
    shared,     \* the threads that hold cache_command_lock shared
    worker,     \* the FIFO worker: "idle", or "waiting" for the lock
    killed,     \* LazyFS has killed itself
    calls,      \* calls begun
    commands,   \* commands begun
    begun,      \* history: runs of the handler of the operation begun
    finished,   \* history: those whose work is done
    returned,   \* history: matching calls that have returned
    injected    \* history: begun and finished at each injection of the fault, and
                \* whether it came in a run inside a matching call

lock == <<shared, worker>>
history == <<begun, finished, returned, injected>>
vars == <<fault, counter, pc, role, nested, lock, killed, calls, commands, history>>

\* A call runs the handler at most twice, and only unlink counts a run twice.
TypeOK ==
    /\ fault \in Given
    /\ counter \in 0 .. 2 * MaxCalls
    /\ pc \in [Threads -> {"idle", "enter", "getattr", "inside", "end", "return",
                           "clear_first", "clear_last"}]
    /\ role \in [Threads -> {"matching", "host", "other"}]
    /\ nested \in [Threads -> {"none", "ahead", "running"}]
    /\ shared \subseteq Threads
    /\ worker \in {"idle", "waiting"}
    /\ killed \in BOOLEAN
    /\ calls \in 0 .. MaxCalls /\ commands \in 0 .. MaxCommands
    /\ begun \in 0 .. 2 * MaxCalls /\ finished \in 0 .. 2 * MaxCalls
    /\ returned \in 0 .. MaxCalls
    /\ injected \in Seq([begun : 0 .. 2 * MaxCalls, finished : 0 .. 2 * MaxCalls,
                          inner : BOOLEAN])

Init ==
    /\ fault \in Given
    /\ counter = 0
    /\ pc = [t \in Threads |-> "idle"]
    /\ role = [t \in Threads |-> "other"]
    /\ nested = [t \in Threads |-> "none"]
    /\ shared = {}
    /\ worker = "idle"
    /\ killed = FALSE
    /\ calls = 0 /\ commands = 0
    /\ begun = 0 /\ finished = 0 /\ returned = 0 /\ injected = <<>>

-----------------------------------------------------------------------------

goto(t, label) == pc' = [pc EXCEPT ![t] = label]

\* The kernel runs one fsync, write or unlink of a file at a time, a truncate that
\* makes it longer included, but several reads; an open with O_TRUNC may meet a
\* truncate.
serialised == fault.op \in {"fsync", "write", "unlink"}

\* The calls that run the handler of the operation, themselves or inside.
active == {t \in Threads : role[t] # "other"}

\* Thread t is in the handler of the operation.
runs_op(t) == IF nested[t] = "running" THEN TRUE ELSE role[t] = "matching"

\* What the handler passes to its second trigger.
timing_at_end == IF fault.op = "unlink" THEN "before" ELSE "after"

\* Faulty variants: from the occurrence on, not at it; one call early; past it.
fires_from(optiming) == fault.timing = optiming /\ counter >= fault.occurrence

fires_early(optiming) == fault.timing = optiming /\ counter + 1 = fault.occurrence

fires_late(optiming) == fault.timing = optiming /\ counter > fault.occurrence

\* The value that the call finds is compared: fetch_add returns the old one, and
\* the trigger at the end only loads it.
fires(optiming) == fault.timing = optiming /\ counter = fault.occurrence

\* Faulty variant: the call is counted at both triggers.
counted_twice(optiming) == counter + 1

\* Only the trigger before the operation counts.
counted(optiming) == IF optiming = "before" THEN counter + 1 ELSE counter

\* trigger_configured_clear_fault in a run of the handler, inner when a matching call
\* runs it inside: count, and when the fault fires kill the process or go on to
\* clear the cache.
trigger(t, optiming, inner, clear, otherwise) ==
    /\ counter' = counted(optiming)
    /\ injected' = IF fires(optiming)
                   THEN Append(injected, [begun |-> begun', finished |-> finished,
                                          inner |-> inner])
                   ELSE injected
    /\ killed' = (fires(optiming) /\ fault.crash)
    /\ goto(t, IF fires(optiming) THEN clear ELSE otherwise)

\* A call that runs the handler waits, where the kernel serialises them, for the
\* one before it.
begin(t, kind, inside) ==
    /\ ~ killed /\ pc[t] = "idle" /\ calls < MaxCalls
    /\ serialised => active = {}
    /\ calls' = calls + 1
    /\ role' = [role EXCEPT ![t] = kind]
    /\ nested' = [nested EXCEPT ![t] = inside]

\* A matching call begins: the trigger before the lock.  A write may be sparse.
BeginMatching(t) ==
    /\ \E inside \in {"none", "ahead"} :
          /\ inside = "ahead" => fault.op = "write"
          /\ begin(t, "matching", inside)
    /\ begun' = begun + 1
    /\ trigger(t, "before", FALSE, "clear_first", "enter")
    /\ UNCHANGED <<fault, lock, commands, finished, returned>>

\* A call of another operation begins that will run the handler: a truncate that
\* makes the file longer, or an open with O_TRUNC.
BeginHost(t) ==
    /\ fault.op \in {"write", "truncate"}
    /\ begin(t, "host", "ahead")
    /\ goto(t, "enter")
    /\ UNCHANGED <<fault, counter, lock, killed, commands, history>>

\* Any other call begins.
BeginOther(t) ==
    /\ ~ killed /\ pc[t] = "idle" /\ calls < MaxCalls
    /\ calls' = calls + 1
    /\ goto(t, "enter")
    /\ UNCHANGED <<fault, counter, role, nested, lock, killed, commands, history>>

\* Faulty variant: a waiting exclusive request goes first.
shared_after_exclusive == worker # "waiting"

\* The lock prefers readers, as glibc's does by default: a shared request waits
\* only for an exclusive holder, and none outlives its step.
shared_granted == TRUE

\* The handler takes the lock shared; a handler that runs inside another one, whose
\* thread has it already, takes it once more and gives that back when it returns.
Enter(t) ==
    /\ ~ killed /\ pc[t] = "enter"
    /\ shared_granted
    /\ shared' = shared \cup {t}
    /\ goto(t, "getattr")
    /\ UNCHANGED <<fault, counter, role, nested, worker, killed, calls, commands, history>>

\* It calls lfs_getattr (unlink does not), which takes and releases the lock shared
\* once more.
GetAttr(t) ==
    /\ ~ killed /\ pc[t] = "getattr"
    /\ shared_granted
    /\ goto(t, "inside")
    /\ UNCHANGED <<fault, counter, role, nested, lock, killed, calls, commands, history>>

\* The handler runs the handler of the operation: its trigger "before" comes under
\* the shared lock.
BeginNested(t) ==
    /\ ~ killed /\ pc[t] = "inside" /\ nested[t] = "ahead"
    /\ nested' = [nested EXCEPT ![t] = "running"]
    /\ begun' = begun + 1
    /\ trigger(t, "before", role[t] = "matching", "clear_first", "enter")
    /\ UNCHANGED <<fault, role, lock, calls, commands, finished, returned>>

\* The handler does its work.
Work(t) ==
    /\ ~ killed /\ pc[t] = "inside" /\ nested[t] # "ahead"
    /\ finished' = IF runs_op(t) THEN finished + 1 ELSE finished
    /\ goto(t, IF runs_op(t) THEN "end" ELSE "return")
    /\ UNCHANGED <<fault, counter, role, nested, lock, killed, calls, commands, begun,
                   returned, injected>>

\* The handler of the operation ends with a trigger, under the shared lock.
EndTrigger(t) ==
    /\ ~ killed /\ pc[t] = "end"
    /\ UNCHANGED <<fault, role, nested, lock, calls, commands, begun, finished, returned>>
    /\ trigger(t, timing_at_end, role[t] = "matching" /\ nested[t] = "running",
               "clear_last", "return")

\* A handler that ran inside another one returns to it.
ReturnNested(t) ==
    /\ ~ killed /\ pc[t] = "return" /\ nested[t] = "running"
    /\ nested' = [nested EXCEPT ![t] = "none"]
    /\ goto(t, "inside")
    /\ UNCHANGED <<fault, counter, role, lock, killed, calls, commands, history>>

\* Faulty variant: the lock is not released on return.
return_locked(t) ==
    /\ ~ killed /\ pc[t] = "return" /\ nested[t] # "running"
    /\ returned' = IF role[t] = "matching" THEN returned + 1 ELSE returned
    /\ role' = [role EXCEPT ![t] = "other"]
    /\ goto(t, "idle")
    /\ UNCHANGED <<fault, counter, nested, lock, killed, calls, commands, begun, finished,
                   injected>>

\* The call returns and releases the lock.
Return(t) ==
    /\ ~ killed /\ pc[t] = "return" /\ nested[t] # "running"
    /\ shared' = shared \ {t}
    /\ returned' = IF role[t] = "matching" THEN returned + 1 ELSE returned
    /\ role' = [role EXCEPT ![t] = "other"]
    /\ goto(t, "idle")
    /\ UNCHANGED <<fault, counter, nested, worker, killed, calls, commands, begun, finished,
                   injected>>

\* command_fault_clear_cache from a handler: exclusive, so when nobody, this
\* thread included, holds the lock shared.
Clear(t) ==
    /\ ~ killed /\ pc[t] \in {"clear_first", "clear_last"}
    /\ shared = {}
    /\ goto(t, IF pc[t] = "clear_first" THEN "enter" ELSE "return")
    /\ UNCHANGED <<fault, counter, role, nested, lock, killed, calls, commands, history>>

\* The worker reads a command that takes the lock: clear, checkpoint or usage.
BeginCommand ==
    /\ ~ killed /\ worker = "idle" /\ commands < MaxCommands
    /\ commands' = commands + 1
    /\ worker' = "waiting"
    /\ UNCHANGED <<fault, counter, pc, role, nested, shared, killed, calls, history>>

\* It gets the lock, runs the command and releases it.
RunCommand ==
    /\ ~ killed /\ worker = "waiting"
    /\ shared = {}
    /\ worker' = "idle"
    /\ UNCHANGED <<fault, counter, pc, role, nested, shared, killed, calls, commands, history>>

\* The steps of a handler that has begun.
Handler(t) ==
    \/ Enter(t) \/ GetAttr(t) \/ BeginNested(t) \/ Work(t)
    \/ EndTrigger(t) \/ Clear(t) \/ ReturnNested(t) \/ Return(t)

Next ==
    \/ \E t \in Threads : BeginMatching(t) \/ BeginHost(t) \/ BeginOther(t) \/ Handler(t)
    \/ BeginCommand
    \/ RunCommand

\* Threads that have begun go on when they can.  The lock prefers readers, so an
\* exclusive request is sure to succeed only once the readers pause; the calls
\* are finite in number here, and the application need not make another one.
Fairness == (\A t \in Threads : WF_vars(Handler(t))) /\ WF_vars(RunCommand)

Spec == Init /\ [][Next]_vars /\ Fairness

-----------------------------------------------------------------------------
(* Properties.                                                             *)

\* The fault is injected once, however the calls overlap and nest.
InjectedOnce == Len(injected) <= 1

\* A fault with timing "after" is injected at the end of the configured run of the
\* handler: the runs up to it have done their work and no later one has begun.  The
\* run that fills the gap of a sparse write is counted after the one of the write,
\* which is still to do its work.
InjectedAfterOccurrence ==
    fault.timing = "after" =>
        \A i \in DOMAIN injected :
            /\ injected[i].begun = fault.occurrence
            /\ injected[i].finished + (IF injected[i].inner THEN 1 ELSE 0) = fault.occurrence

\* A fault with timing "after" is injected once the configured number of runs, and
\* not one more, have begun and done their work.
FaultInjected ==
    fault.timing = "after" /\ begun = fault.occurrence /\ finished = fault.occurrence
        ~> injected # <<>>

\* Every call returns unless the fault kills the process: handlers, the fault and
\* the commands never wait for each other for good.
CallsReturn == \A t \in Threads : (pc[t] # "idle") ~> (pc[t] = "idle" \/ killed)

\* A command of the FIFO is carried out.
CommandsRun == (worker = "waiting") ~> (worker = "idle" \/ killed)

\* Counted as the application counts: when the configured number of calls of the
\* operation have returned, a fault with timing "after" has been injected.
InjectedByThen ==
    fault.timing = "after" /\ returned >= fault.occurrence => injected # <<>>
=============================================================================
