-------------------------- MODULE ClearFaultProofs --------------------------
(***************************************************************************)
(* Theorems about ClearFault, for any threads, any number of calls and any *)
(* occurrence: when the configured fault is injected.                      *)
(***************************************************************************)
EXTENDS ClearFault, FiniteSetTheorems, TLAPS

\* An injection that is to be recorded.
InjectedRecord == [begun : Nat, finished : Nat, inner : BOOLEAN]

\* The faults for which a handler ends with the trigger "after", and for which an
\* injection that comes at that trigger ends the process.
Expected(f) == f.op # "unlink" /\ (f.timing = "after" => f.crash)

\* With timing "before" an injection leaves the counter past the occurrence; with
\* timing "after" it ends the process.
OnceInv ==
    /\ fault \in Given
    /\ counter \in Nat
    /\ injected \in Seq(InjectedRecord)
    /\ begun \in Nat /\ finished \in Nat
    /\ Len(injected) <= 1
    /\ injected # <<>> => IF fault.timing = "before"
                          THEN counter > fault.occurrence ELSE killed

\* Initially nothing is injected.
LEMMA OnceInit ==
    Init => OnceInv
  BY DEF Init, OnceInv

\* An injection is the first one: fetch_add gives each value of the counter to one
\* run of the handler, and after a crash there is no other run.
LEMMA FirstInjection ==
    ASSUME OnceInv, injected = <<>>, NEW inner \in BOOLEAN,
           injected' = Append(injected, [begun |-> begun', finished |-> finished,
                                         inner |-> inner]),
           begun' \in Nat
    PROVE  injected' \in Seq(InjectedRecord) /\ Len(injected') = 1
  <1>1. [begun |-> begun', finished |-> finished, inner |-> inner] \in InjectedRecord
    BY DEF OnceInv, InjectedRecord
  <1>2. QED
    BY <1>1

\* A trigger before the operation, of a call or of a run inside one.
LEMMA OnceBefore ==
    ASSUME Expected(fault), fault \in ClearF, OnceInv,
           NEW t, NEW inner \in BOOLEAN, trigger(t, "before", inner, "clear_first", "enter"), ~ killed,
           begun' = begun + 1, finished' = finished, fault' = fault
    PROVE  OnceInv'
  <1>1. counter' = counter + 1 /\ fault.occurrence \in Nat
    BY DEF trigger, counted, ClearF
  <1>2. CASE fires("before")
    <2>1. /\ fault.timing = "before" /\ counter = fault.occurrence
          /\ injected' = Append(injected, [begun |-> begun', finished |-> finished,
                                           inner |-> inner])
      BY <1>2 DEF trigger, fires
    <2>2. injected = <<>>
      BY <1>1, <2>1 DEF OnceInv
    <2>3. injected' \in Seq(InjectedRecord) /\ Len(injected') = 1
      BY <2>1, <2>2, FirstInjection DEF OnceInv
    <2>4. QED
      BY <1>1, <2>1, <2>3 DEF OnceInv
  <1>3. CASE ~ fires("before")
    <2>1. injected' = injected /\ killed' = FALSE
      BY <1>3 DEF trigger
    <2>2. QED
      BY <1>1, <2>1 DEF OnceInv
  <1>4. QED
    BY <1>2, <1>3

\* Every step keeps OnceInv.
LEMMA OnceStep ==
    ASSUME \A f \in Given : Expected(f), OnceInv, [Next]_vars
    PROVE  OnceInv'
  <1>0. /\ Expected(fault) /\ fault \in ClearF /\ fault.occurrence \in Nat
        /\ timing_at_end = "after"
    BY ClearFaultAssumption DEF OnceInv, ClearF, Expected, timing_at_end
  <1>1. ASSUME NEW t \in Threads, BeginMatching(t) PROVE OnceInv'
    <2>1. /\ trigger(t, "before", FALSE, "clear_first", "enter")
          /\ begun' = begun + 1 /\ finished' = finished /\ fault' = fault /\ ~ killed
      BY <1>1 DEF BeginMatching, begin
    <2>2. QED
      BY <1>0, <2>1, OnceBefore
  <1>2. ASSUME NEW t \in Threads, BeginNested(t) PROVE OnceInv'
    <2>1. /\ trigger(t, "before", role[t] = "matching", "clear_first", "enter")
          /\ begun' = begun + 1 /\ finished' = finished /\ fault' = fault /\ ~ killed
      BY <1>2 DEF BeginNested
    <2>2. QED
      BY <1>0, <2>1, OnceBefore
  <1>3. ASSUME NEW t \in Threads, EndTrigger(t) PROVE OnceInv'
    <2>1. /\ counter' = counter /\ begun' = begun
          /\ finished' = finished /\ fault' = fault /\ ~ killed
      BY <1>0, <1>3 DEF EndTrigger, trigger, counted
    <2>2. CASE fires("after")
      <3>1. PICK inner \in BOOLEAN :
               injected' = Append(injected, [begun |-> begun', finished |-> finished,
                                             inner |-> inner])
        BY <1>0, <1>3, <2>1, <2>2 DEF EndTrigger, trigger
      <3>2. fault.timing = "after" /\ killed'
        BY <1>0, <1>3, <2>2 DEF EndTrigger, trigger, fires, Expected
      <3>3. injected = <<>>
        BY <2>1, <3>2 DEF OnceInv
      <3>4. injected' \in Seq(InjectedRecord) /\ Len(injected') = 1
        BY <2>1, <3>1, <3>3, FirstInjection DEF OnceInv
      <3>5. QED
        BY <2>1, <3>2, <3>4 DEF OnceInv
    <2>3. CASE ~ fires("after")
      <3>1. injected' = injected
        BY <1>0, <1>3, <2>3 DEF EndTrigger, trigger
      <3>2. QED
        BY <2>1, <3>1 DEF OnceInv
    <2>4. QED
      BY <2>2, <2>3
  <1>4. ASSUME NEW t \in Threads, Work(t) PROVE OnceInv'
    BY <1>4 DEF Work, OnceInv
  <1>5. ASSUME UNCHANGED <<fault, counter, killed, begun, finished, injected>> PROVE OnceInv'
    BY <1>5 DEF OnceInv
  <1>6. QED
    BY <1>1, <1>2, <1>3, <1>4, <1>5
    DEF Next, Handler, vars, history, BeginHost, BeginOther, Enter, GetAttr, ReturnNested,
        Return, Clear, BeginCommand, RunCommand

\* A clear-cache fault is injected at most once, however many threads make the
\* configured call at the same time, and with the runs inside other calls.
THEOREM FaultIsInjectedOnce ==
    ASSUME \A f \in Given : Expected(f)
    PROVE  Spec => []InjectedOnce
  <1>1. Init => OnceInv
    BY OnceInit
  <1>2. OnceInv /\ [Next]_vars => OnceInv'
    BY OnceStep
  <1>3. OnceInv => InjectedOnce
    BY DEF OnceInv, InjectedOnce
  <1>4. QED
    BY <1>1, <1>2, <1>3, PTL DEF Spec

-----------------------------------------------------------------------------
\* The faults on an operation that the kernel serialises.
Serialised(f) == Expected(f) /\ f.op \in {"fsync", "write"}

Labels == {"idle", "enter", "getattr", "inside", "end", "return", "clear_first", "clear_last"}
Roles == {"matching", "host", "other"}
Places == {"none", "ahead", "running"}

\* Where a handler is that is still to do its work.
ToWork == {"clear_first", "enter", "getattr", "inside"}

\* The run of a matching call is under way, before its work, and so is the run inside
\* a call.
outer_open(t) == role[t] = "matching" /\ (nested[t] = "running" \/ pc[t] \in ToWork)
inner_open(t) == nested[t] = "running" /\ pc[t] \in ToWork

opened(t) == (IF outer_open(t) THEN 1 ELSE 0) + (IF inner_open(t) THEN 1 ELSE 0)

\* What each thread is at, whatever the others do.
ThreadsInv ==
    /\ pc \in [Threads -> Labels]
    /\ role \in [Threads -> Roles]
    /\ nested \in [Threads -> Places]
    /\ \A t \in Threads :
          /\ pc[t] = "idle" => role[t] = "other"
          /\ role[t] = "other" => nested[t] = "none"
          /\ nested[t] = "ahead" => pc[t] \in ToWork
          /\ pc[t] \in {"clear_first", "end", "clear_last"} => role[t] # "other"
          /\ pc[t] = "end" /\ role[t] = "host" => nested[t] = "running"

LEMMA ThreadsInit == Init => ThreadsInv
BY DEF Init, ThreadsInv, Labels, Roles, Places

LEMMA ThreadsStep == ASSUME ThreadsInv, [Next]_vars PROVE ThreadsInv'
<1>. USE DEF ThreadsInv, Labels, Roles, Places, ToWork
<1>1. ASSUME NEW t \in Threads, BeginMatching(t) PROVE ThreadsInv'
  BY <1>1 DEF BeginMatching, begin, trigger, goto
<1>2. ASSUME NEW t \in Threads, BeginHost(t) PROVE ThreadsInv'
  BY <1>2 DEF BeginHost, begin, goto
<1>3. ASSUME NEW t \in Threads, BeginOther(t) PROVE ThreadsInv'
  BY <1>3 DEF BeginOther, goto
<1>4. ASSUME NEW t \in Threads, Enter(t) PROVE ThreadsInv'
  BY <1>4 DEF Enter, goto
<1>5. ASSUME NEW t \in Threads, GetAttr(t) PROVE ThreadsInv'
  BY <1>5 DEF GetAttr, goto
<1>6. ASSUME NEW t \in Threads, BeginNested(t) PROVE ThreadsInv'
  BY <1>6 DEF BeginNested, trigger, goto
<1>7. ASSUME NEW t \in Threads, Work(t) PROVE ThreadsInv'
  BY <1>7 DEF Work, goto, runs_op
<1>8. ASSUME NEW t \in Threads, EndTrigger(t) PROVE ThreadsInv'
  BY <1>8 DEF EndTrigger, trigger, goto
<1>9. ASSUME NEW t \in Threads, Clear(t) PROVE ThreadsInv'
  BY <1>9 DEF Clear, goto
<1>10. ASSUME NEW t \in Threads, ReturnNested(t) PROVE ThreadsInv'
  BY <1>10 DEF ReturnNested, goto
<1>11. ASSUME NEW t \in Threads, Return(t) PROVE ThreadsInv'
  BY <1>11 DEF Return, goto
<1>12. CASE BeginCommand \/ RunCommand \/ UNCHANGED vars
  BY <1>12 DEF BeginCommand, RunCommand, vars
<1>. QED
  BY <1>1, <1>2, <1>3, <1>4, <1>5, <1>6, <1>7, <1>8, <1>9, <1>10, <1>11, <1>12 DEF Next, Handler

\* One call at a time runs the handler: the counts of runs begun and finished differ
\* by the ones that it has open, at most two.  A trigger that found the fault at the
\* end of a run has ended the process.
SerialInv ==
    /\ ThreadsInv
    /\ fault \in Given
    /\ begun \in Nat /\ finished \in Nat
    /\ counter = begun
    /\ \A t, u \in active : t = u
    /\ active = {} => begun = finished
    /\ \A t \in active : begun = finished + opened(t)
    /\ injected \in Seq(InjectedRecord)
    /\ \A t \in Threads : pc[t] = "clear_last" => killed
    /\ InjectedAfterOccurrence

\* Initially no call is under way.
LEMMA SerialInit ==
    Init => SerialInv
<1>. SUFFICES ASSUME Init PROVE SerialInv
  OBVIOUS
<1>1. active = {}
  BY DEF Init, active
<1>2. injected \in Seq(InjectedRecord)
  BY DEF Init
<1>. QED
  BY <1>1, <1>2, ThreadsInit DEF Init, SerialInv, InjectedAfterOccurrence

\* A step that moves no count, opens and ends no run and begins no call of the
\* operation.
LEMMA SerialSame ==
    ASSUME SerialInv, ThreadsInv',
           UNCHANGED <<fault, counter, begun, finished, injected, role>>,
           killed => killed',
           \A t \in active : opened(t)' = opened(t),
           \A t \in Threads : pc'[t] = "clear_last" => pc[t] = "clear_last"
    PROVE  SerialInv'
  <1>1. active' = active
    BY DEF active
  <1>2. \A t \in Threads : pc'[t] = "clear_last" => killed'
    BY DEF SerialInv
  <1>3. InjectedAfterOccurrence'
    BY DEF SerialInv, InjectedAfterOccurrence
  <1>4. QED
    BY <1>1, <1>2, <1>3 DEF SerialInv

\* A trigger before the operation injects nothing, or a fault with timing before.
LEMMA SerialBefore ==
    ASSUME SerialInv, NEW t, NEW inner \in BOOLEAN,
           trigger(t, "before", inner, "clear_first", "enter"),
           begun' = begun + 1, finished' = finished, fault' = fault
    PROVE  injected' \in Seq(InjectedRecord) /\ InjectedAfterOccurrence'
  <1>1. CASE fires("before")
    <2>1. /\ fault.timing = "before"
          /\ injected' = Append(injected, [begun |-> begun', finished |-> finished,
                                           inner |-> inner])
      BY <1>1 DEF trigger, fires
    <2>2. [begun |-> begun', finished |-> finished, inner |-> inner] \in InjectedRecord
      BY DEF SerialInv, InjectedRecord
    <2>3. injected' \in Seq(InjectedRecord)
      BY <2>1, <2>2 DEF SerialInv
    <2>4. QED
      BY <2>1, <2>3 DEF InjectedAfterOccurrence
  <1>2. CASE ~ fires("before")
    BY <1>2 DEF trigger, SerialInv, InjectedAfterOccurrence
  <1>3. QED
    BY <1>1, <1>2

\* Every step keeps the counts together and injects, if at all, at the end of the
\* configured run.
LEMMA SerialStep ==
    ASSUME \A f \in Given : Serialised(f), SerialInv, [Next]_vars
    PROVE  SerialInv'
  <1>0. /\ fault \in ClearF /\ serialised /\ timing_at_end = "after"
        /\ fault.timing = "after" => fault.crash
        /\ ThreadsInv /\ ThreadsInv'
    BY ClearFaultAssumption, ThreadsStep
    DEF SerialInv, ClearF, Serialised, Expected, serialised, timing_at_end
  <1>1. ASSUME NEW t \in Threads, BeginMatching(t) PROVE SerialInv'
    <2>1. /\ active = {} /\ fault' = fault /\ role[t] = "other"
          /\ begun' = begun + 1 /\ counter' = counter + 1 /\ finished' = finished
          /\ ~ killed /\ role' = [role EXCEPT ![t] = "matching"]
          /\ \E inside \in {"none", "ahead"} : nested' = [nested EXCEPT ![t] = inside]
          /\ \E label \in {"enter", "clear_first"} : pc' = [pc EXCEPT ![t] = label]
      BY <1>0, <1>1 DEF BeginMatching, begin, trigger, counted, goto, ThreadsInv
    <2>2. active' = {t}
      BY <1>0, <2>1 DEF active, ThreadsInv
    <2>3. opened(t)' = 1
      BY <1>0, <2>1 DEF opened, outer_open, inner_open, ToWork, ThreadsInv
    <2>4. injected' \in Seq(InjectedRecord) /\ InjectedAfterOccurrence'
      BY <1>1, <2>1, SerialBefore DEF BeginMatching
    <2>5. \A u \in Threads : pc'[u] = "clear_last" => killed'
      BY <1>0, <2>1 DEF SerialInv, ThreadsInv
    <2>6. QED
      BY <1>0, <2>1, <2>2, <2>3, <2>4, <2>5 DEF SerialInv
  <1>2. ASSUME NEW t \in Threads, BeginHost(t) PROVE SerialInv'
    <2>1. /\ active = {} /\ UNCHANGED <<fault, begun, counter, finished, injected, killed>>
          /\ role' = [role EXCEPT ![t] = "host"] /\ nested' = [nested EXCEPT ![t] = "ahead"]
          /\ pc' = [pc EXCEPT ![t] = "enter"]
      BY <1>0, <1>2 DEF BeginHost, begin, goto, history
    <2>2. active' = {t}
      BY <1>0, <2>1 DEF active, ThreadsInv
    <2>3. opened(t)' = 0
      BY <1>0, <2>1 DEF opened, outer_open, inner_open, ToWork, ThreadsInv
    <2>4. InjectedAfterOccurrence'
      BY <2>1 DEF SerialInv, InjectedAfterOccurrence
    <2>5. \A u \in Threads : pc'[u] = "clear_last" => killed'
      BY <1>0, <2>1 DEF SerialInv, ThreadsInv
    <2>6. QED
      BY <1>0, <2>1, <2>2, <2>3, <2>4, <2>5 DEF SerialInv
  <1>3. ASSUME NEW t \in Threads,
               BeginOther(t) \/ Enter(t) \/ GetAttr(t) \/ Clear(t)
        PROVE  SerialInv'
    <2>1. /\ UNCHANGED <<fault, counter, begun, finished, injected, role, nested, killed>>
          /\ ~ killed
          /\ \E label \in {"enter", "getattr", "inside", "return"} : pc' = [pc EXCEPT ![t] = label]
      BY <1>3 DEF BeginOther, Enter, GetAttr, Clear, goto, history
    <2>2. \/ t \notin active
          \/ pc[t] \in ToWork /\ pc'[t] \in ToWork
      <3>1. pc[t] # "clear_last"
        BY <2>1 DEF SerialInv
      <3>2. QED
        BY <1>0, <1>3, <3>1
        DEF BeginOther, Enter, GetAttr, Clear, goto, ToWork, active, ThreadsInv
    <2>3. ASSUME NEW u \in active PROVE opened(u)' = opened(u)
      <3>1. u # t => pc'[u] = pc[u]
        BY <1>0, <2>1 DEF ThreadsInv, active
      <3>2. (pc'[u] \in ToWork) = (pc[u] \in ToWork)
        BY <2>2, <2>3, <3>1
      <3>3. QED
        BY <2>1, <3>2 DEF opened, outer_open, inner_open
    <2>4. \A u \in Threads : pc'[u] = "clear_last" => pc[u] = "clear_last"
      BY <1>0, <2>1 DEF ThreadsInv
    <2>5. QED
      BY <1>0, <2>1, <2>3, <2>4, SerialSame
  <1>4. ASSUME NEW t \in Threads, BeginNested(t) PROVE SerialInv'
    <2>1. /\ UNCHANGED <<fault, finished, role>> /\ pc[t] = "inside" /\ nested[t] = "ahead"
          /\ begun' = begun + 1 /\ counter' = counter + 1 /\ ~ killed
          /\ nested' = [nested EXCEPT ![t] = "running"]
          /\ \E label \in {"enter", "clear_first"} : pc' = [pc EXCEPT ![t] = label]
      BY <1>4 DEF BeginNested, trigger, counted, goto
    <2>2. active' = active /\ active = {t}
      BY <1>0, <2>1 DEF active, ThreadsInv, SerialInv
    <2>3. opened(t)' = opened(t) + 1 /\ opened(t) \in {0, 1}
      BY <1>0, <2>1 DEF opened, outer_open, inner_open, ToWork, ThreadsInv
    <2>4. injected' \in Seq(InjectedRecord) /\ InjectedAfterOccurrence'
      BY <1>4, <2>1, SerialBefore DEF BeginNested
    <2>5. \A u \in Threads : pc'[u] = "clear_last" => killed'
      BY <1>0, <2>1 DEF SerialInv, ThreadsInv
    <2>6. QED
      BY <1>0, <2>1, <2>2, <2>3, <2>4, <2>5 DEF SerialInv
  <1>5. ASSUME NEW t \in Threads, Work(t) PROVE SerialInv'
    <2>1. /\ UNCHANGED <<fault, counter, begun, injected, role, nested, killed>>
          /\ pc[t] = "inside" /\ nested[t] # "ahead" /\ ~ killed
          /\ finished' = IF runs_op(t) THEN finished + 1 ELSE finished
          /\ pc' = [pc EXCEPT ![t] = IF runs_op(t) THEN "end" ELSE "return"]
      BY <1>5 DEF Work, goto, lock
    <2>2. active' = active
      BY <2>1 DEF active
    <2>3. ASSUME NEW u \in active PROVE begun' = finished' + opened(u)'
      <3>1. CASE u = t
        <4>1. opened(t)' = opened(t) - (IF runs_op(t) THEN 1 ELSE 0)
          BY <1>0, <2>1, <2>3, <3>1
          DEF opened, outer_open, inner_open, runs_op, ToWork, ThreadsInv, Roles, Places, active
        <4>2. QED
          BY <2>1, <2>3, <3>1, <4>1 DEF SerialInv, opened
      <3>2. CASE u # t
        <4>1. t \notin active
          BY <2>3, <3>2 DEF SerialInv
        <4>2. finished' = finished
          BY <1>0, <2>1, <4>1 DEF runs_op, ThreadsInv, active
        <4>3. pc'[u] = pc[u]
          BY <1>0, <2>1, <3>2 DEF ThreadsInv
        <4>4. opened(u)' = opened(u)
          BY <2>1, <4>3 DEF opened, outer_open, inner_open
        <4>5. QED
          BY <2>1, <2>3, <4>2, <4>4 DEF SerialInv
      <3>3. QED
        BY <3>1, <3>2
    <2>4. active = {} => begun' = finished'
      BY <1>0, <2>1 DEF runs_op, ThreadsInv, active, SerialInv
    <2>5. finished' \in Nat /\ InjectedAfterOccurrence'
      BY <2>1 DEF SerialInv, InjectedAfterOccurrence
    <2>6. \A u \in Threads : pc'[u] = "clear_last" => killed'
      BY <1>0, <2>1 DEF SerialInv, ThreadsInv
    <2>7. QED
      BY <1>0, <2>1, <2>2, <2>3, <2>4, <2>5, <2>6 DEF SerialInv
  <1>6. ASSUME NEW t \in Threads, EndTrigger(t) PROVE SerialInv'
    <2>0. PICK inner \in BOOLEAN : inner = (role[t] = "matching" /\ nested[t] = "running")
      OBVIOUS
    <2>1. /\ ~ killed /\ pc[t] = "end"
          /\ UNCHANGED <<fault, begun, finished, counter, role, nested>>
          /\ trigger(t, "after", inner, "clear_last", "return")
      BY <1>0, <1>6, <2>0 DEF EndTrigger, trigger, counted
    <2>2. t \in active /\ active' = active /\ \A u \in active : u = t
      BY <1>0, <2>1 DEF ThreadsInv, active, SerialInv
    <2>3. begun = finished + (IF inner THEN 1 ELSE 0) /\ counter = begun
      <3>1. begun = finished + opened(t) /\ counter = begun
        BY <2>2 DEF SerialInv
      <3>2. ~ inner_open(t) /\ (outer_open(t) <=> inner)
        BY <2>0, <2>1 DEF outer_open, inner_open, ToWork
      <3>3. opened(t) = IF inner THEN 1 ELSE 0
        <4>1. CASE inner
          BY <3>2, <4>1 DEF opened
        <4>2. CASE ~ inner
          BY <3>2, <4>2 DEF opened
        <4>3. QED
          BY <4>1, <4>2
      <3>4. QED
        BY <3>1, <3>3
    <2>4. opened(t)' = opened(t)
      BY <1>0, <2>1 DEF opened, outer_open, inner_open, ToWork, trigger, goto, ThreadsInv
    <2>5. CASE fires("after")
      <3>1. /\ fault.timing = "after" /\ counter = fault.occurrence /\ killed'
            /\ injected' = Append(injected, [begun |-> begun, finished |-> finished,
                                             inner |-> inner])
        BY <1>0, <2>1, <2>5 DEF trigger, fires
      <3>2. PICK e : e = [begun |-> begun, finished |-> finished, inner |-> inner]
        OBVIOUS
      <3>3. e \in InjectedRecord /\ injected \in Seq(InjectedRecord)
        BY <3>2 DEF SerialInv, InjectedRecord
      <3>4. injected' \in Seq(InjectedRecord)
        BY <3>1, <3>2, <3>3
      <3>5. InjectedAfterOccurrence'
        <4>. SUFFICES ASSUME NEW i \in DOMAIN injected'
                      PROVE  /\ injected'[i].begun = fault.occurrence
                             /\ injected'[i].finished + (IF injected'[i].inner THEN 1 ELSE 0)
                                   = fault.occurrence
          BY <2>1 DEF InjectedAfterOccurrence
        <4>1. CASE i = Len(injected) + 1
          <5>1. injected'[i] = e
            BY <3>1, <3>2, <3>3, <4>1
          <5>2. QED
            BY <2>3, <3>1, <3>2, <5>1
        <4>2. CASE i # Len(injected) + 1
          <5>1. i \in DOMAIN injected /\ injected'[i] = injected[i]
            BY <3>1, <3>2, <3>3, <4>2
          <5>2. QED
            BY <3>1, <5>1 DEF SerialInv, InjectedAfterOccurrence
        <4>3. QED
          BY <4>1, <4>2
      <3>6. QED
        BY <1>0, <2>1, <2>2, <2>4, <3>1, <3>4, <3>5 DEF SerialInv
    <2>6. CASE ~ fires("after")
      <3>1. /\ injected' = injected /\ killed' = FALSE
            /\ pc' = [pc EXCEPT ![t] = "return"]
        BY <2>1, <2>6 DEF trigger, goto
      <3>2. \A u \in Threads : pc'[u] = "clear_last" => pc[u] = "clear_last"
        BY <1>0, <3>1 DEF ThreadsInv
      <3>3. QED
        BY <1>0, <2>1, <2>2, <2>4, <3>1, <3>2, SerialSame
    <2>7. QED
      BY <2>5, <2>6
  <1>7. ASSUME NEW t \in Threads, ReturnNested(t) PROVE SerialInv'
    <2>1. /\ UNCHANGED <<fault, counter, begun, finished, injected, role, killed>>
          /\ pc[t] = "return" /\ nested[t] = "running"
          /\ nested' = [nested EXCEPT ![t] = "none"] /\ pc' = [pc EXCEPT ![t] = "inside"]
      BY <1>7 DEF ReturnNested, goto, history
    <2>2. ASSUME NEW u \in active PROVE opened(u)' = opened(u)
      BY <1>0, <2>1, <2>2 DEF opened, outer_open, inner_open, ToWork, ThreadsInv, active
    <2>3. \A u \in Threads : pc'[u] = "clear_last" => pc[u] = "clear_last"
      BY <1>0, <2>1 DEF ThreadsInv
    <2>4. QED
      BY <1>0, <2>1, <2>2, <2>3, SerialSame
  <1>8. ASSUME NEW t \in Threads, Return(t) PROVE SerialInv'
    <2>1. /\ UNCHANGED <<fault, counter, begun, finished, injected, nested, killed>>
          /\ pc[t] = "return" /\ nested[t] # "running"
          /\ role' = [role EXCEPT ![t] = "other"] /\ pc' = [pc EXCEPT ![t] = "idle"]
      BY <1>8 DEF Return, goto
    <2>2. active' = active \ {t}
      BY <1>0, <2>1 DEF active, ThreadsInv
    <2>3. ASSUME NEW u \in active' PROVE opened(u)' = opened(u) /\ u \in active
      BY <1>0, <2>1, <2>2, <2>3 DEF opened, outer_open, inner_open, ThreadsInv, active
    <2>4. active' = {} => begun = finished
      <3>1. t \in active => begun = finished
        BY <2>1 DEF SerialInv, opened, outer_open, inner_open, ToWork
      <3>2. t \notin active => active' = active
        BY <2>2
      <3>3. QED
        BY <3>1, <3>2 DEF SerialInv
    <2>5. InjectedAfterOccurrence'
      BY <2>1 DEF SerialInv, InjectedAfterOccurrence
    <2>6. \A u \in Threads : pc'[u] = "clear_last" => killed'
      BY <1>0, <2>1 DEF SerialInv, ThreadsInv
    <2>7. QED
      BY <1>0, <2>1, <2>2, <2>3, <2>4, <2>5, <2>6 DEF SerialInv
  <1>9. CASE BeginCommand \/ RunCommand \/ UNCHANGED vars
    <2>1. UNCHANGED <<fault, counter, pc, role, nested, killed, begun, finished, injected>>
      BY <1>9 DEF BeginCommand, RunCommand, vars, history
    <2>2. \A u \in active : opened(u)' = opened(u)
      BY <2>1 DEF opened, outer_open, inner_open
    <2>3. QED
      BY <1>0, <2>1, <2>2, SerialSame
  <1>10. QED
    BY <1>1, <1>2, <1>3, <1>4, <1>5, <1>6, <1>7, <1>8, <1>9 DEF Next, Handler

\* A fault with timing "after" and a crash, on an operation that the kernel
\* serialises, ends the process exactly at the end of the configured run of the
\* handler, the runs that fill the gap of a sparse write counted too.
THEOREM AfterIsInjectedOnTime ==
    ASSUME \A f \in Given : Serialised(f)
    PROVE  Spec => []InjectedAfterOccurrence
  <1>1. Init => SerialInv
    BY SerialInit
  <1>2. SerialInv /\ [Next]_vars => SerialInv'
    BY SerialStep
  <1>3. SerialInv => InjectedAfterOccurrence
    BY DEF SerialInv
  <1>4. QED
    BY <1>1, <1>2, <1>3, PTL DEF Spec

-----------------------------------------------------------------------------
(* Types: the history counts runs of the handler, so its bounds say that a *)
(* call runs it at most twice, that the work of a run is counted once and  *)
(* that the fault counts a run once, or twice if it ends like unlink.      *)

matching == {t \in Threads : role[t] = "matching"}
ahead == {t \in Threads : nested[t] = "ahead"}
outer_runs == {t \in Threads : outer_open(t)}
inner_runs == {t \in Threads : inner_open(t)}

\* The matching calls that are still to come to their last trigger.
unended == {t \in Threads : role[t] = "matching" /\ pc[t] \notin {"clear_last", "return"}}

CountsInv ==
    /\ ThreadsInv
    /\ fault \in Given
    /\ calls \in Nat /\ calls <= MaxCalls
    /\ begun \in Nat /\ finished \in Nat /\ returned \in Nat /\ counter \in Nat
    /\ IsFiniteSet(matching) /\ returned + Cardinality(matching) <= calls
    /\ IsFiniteSet(ahead) /\ begun + Cardinality(ahead) <= 2 * calls
    /\ IsFiniteSet(outer_runs) /\ IsFiniteSet(inner_runs)
    /\ finished + Cardinality(outer_runs) + Cardinality(inner_runs) <= begun
    /\ IF fault.op = "unlink"
       THEN /\ \A t \in Threads : nested[t] = "none"
            /\ IsFiniteSet(unended) /\ counter + Cardinality(unended) <= 2 * calls
       ELSE counter = begun

LEMMA OneMore ==
    ASSUME NEW S, NEW x, IsFiniteSet(S), x \notin S
    PROVE  IsFiniteSet(S \cup {x}) /\ Cardinality(S \cup {x}) = Cardinality(S) + 1
           /\ Cardinality(S) \in Nat
BY FS_AddElement, FS_CardinalityType

LEMMA OneLess ==
    ASSUME NEW S, NEW x \in S, IsFiniteSet(S)
    PROVE  IsFiniteSet(S \ {x}) /\ Cardinality(S \ {x}) = Cardinality(S) - 1
           /\ Cardinality(S) \in Nat
BY FS_RemoveElement, FS_CardinalityType

LEMMA CountsInit == Init => CountsInv
<1>. SUFFICES ASSUME Init PROVE CountsInv
  OBVIOUS
<1>1. matching = {} /\ ahead = {} /\ outer_runs = {} /\ inner_runs = {} /\ unended = {}
  BY DEF Init, matching, ahead, outer_runs, inner_runs, unended, outer_open, inner_open
<1>2. Cardinality({}) = 0 /\ IsFiniteSet({})
  BY FS_EmptySet
<1>. QED
  BY <1>1, <1>2, ThreadsInit, ClearFaultAssumption DEF Init, CountsInv

LEMMA CountsStep == ASSUME CountsInv, [Next]_vars PROVE CountsInv'
<1>. DEFINE Sets == <<matching, ahead, outer_runs, inner_runs, unended>>
<1>0. /\ Cardinality(matching) \in Nat /\ Cardinality(ahead) \in Nat
      /\ Cardinality(outer_runs) \in Nat /\ Cardinality(inner_runs) \in Nat
      /\ MaxCalls \in Nat /\ ThreadsInv /\ ThreadsInv'
      /\ fault.op = "unlink" => Cardinality(unended) \in Nat
  BY FS_CardinalityType, ClearFaultAssumption, ThreadsStep DEF CountsInv
<1>1. ASSUME NEW t \in Threads, BeginMatching(t) PROVE CountsInv'
  <2>1. /\ pc[t] = "idle" /\ calls < MaxCalls /\ calls' = calls + 1 /\ begun' = begun + 1
        /\ role' = [role EXCEPT ![t] = "matching"] /\ counter' = counter + 1
        /\ UNCHANGED <<fault, finished, returned>>
        /\ \E label \in {"clear_first", "enter"} : pc' = [pc EXCEPT ![t] = label]
        /\ \E inside \in {"none", "ahead"} :
              /\ nested' = [nested EXCEPT ![t] = inside]
              /\ inside = "ahead" => fault.op = "write"
    BY <1>1 DEF BeginMatching, begin, trigger, counted, goto
  <2>2. role[t] = "other" /\ nested[t] = "none"
    BY <1>0, <2>1 DEF ThreadsInv
  <2>3. /\ matching' = matching \cup {t} /\ t \notin matching
        /\ unended' = unended \cup {t} /\ t \notin unended
    BY <1>0, <2>1, <2>2 DEF matching, unended, ThreadsInv
  <2>4. /\ outer_runs' = outer_runs \cup {t} /\ t \notin outer_runs
        /\ inner_runs' = inner_runs
    BY <1>0, <2>1, <2>2 DEF outer_runs, outer_open, inner_runs, inner_open, ToWork, ThreadsInv
  <2>5. (ahead' = ahead \/ ahead' = ahead \cup {t}) /\ t \notin ahead
    BY <1>0, <2>1, <2>2 DEF ahead, ThreadsInv
  <2>6. /\ IsFiniteSet(matching') /\ Cardinality(matching') = Cardinality(matching) + 1
        /\ IsFiniteSet(outer_runs') /\ Cardinality(outer_runs') = Cardinality(outer_runs) + 1
    BY <2>3, <2>4, OneMore DEF CountsInv
  <2>7. IsFiniteSet(ahead') /\ Cardinality(ahead') \in {Cardinality(ahead), Cardinality(ahead) + 1}
    BY <2>5, OneMore DEF CountsInv
  <2>8. IF fault.op = "unlink"
        THEN /\ \A u \in Threads : nested'[u] = "none"
             /\ IsFiniteSet(unended') /\ Cardinality(unended') = Cardinality(unended) + 1
        ELSE counter = begun
    <3>1. CASE fault.op = "unlink"
      <4>1. \A u \in Threads : nested'[u] = "none"
        BY <1>0, <2>1, <3>1 DEF CountsInv, ThreadsInv
      <4>2. IsFiniteSet(unended') /\ Cardinality(unended') = Cardinality(unended) + 1
        BY <2>3, <3>1, OneMore DEF CountsInv
      <4>. QED
        BY <3>1, <4>1, <4>2
    <3>2. CASE fault.op # "unlink"
      BY <3>2 DEF CountsInv
    <3>. QED
      BY <3>1, <3>2
  <2>. QED
    BY <1>0, <2>1, <2>4, <2>6, <2>7, <2>8 DEF CountsInv
<1>2. ASSUME NEW t \in Threads, BeginHost(t) PROVE CountsInv'
  <2>1. /\ pc[t] = "idle" /\ calls < MaxCalls /\ calls' = calls + 1
        /\ fault.op # "unlink"
        /\ role' = [role EXCEPT ![t] = "host"] /\ nested' = [nested EXCEPT ![t] = "ahead"]
        /\ pc' = [pc EXCEPT ![t] = "enter"]
        /\ UNCHANGED <<fault, counter, begun, finished, returned>>
    BY <1>2 DEF BeginHost, begin, goto, history
  <2>2. role[t] = "other" /\ nested[t] = "none"
    BY <1>0, <2>1 DEF ThreadsInv
  <2>3. matching' = matching
    BY <1>0, <2>1, <2>2 DEF matching, ThreadsInv
  <2>4. outer_runs' = outer_runs /\ inner_runs' = inner_runs
    BY <1>0, <2>1, <2>2 DEF outer_runs, outer_open, inner_runs, inner_open, ThreadsInv
  <2>5. ahead' = ahead \cup {t} /\ t \notin ahead
    BY <1>0, <2>1, <2>2 DEF ahead, ThreadsInv
  <2>6. IsFiniteSet(ahead') /\ Cardinality(ahead') = Cardinality(ahead) + 1
    BY <2>5, OneMore DEF CountsInv
  <2>. QED
    BY <1>0, <2>1, <2>3, <2>4, <2>6 DEF CountsInv
<1>3. ASSUME NEW t \in Threads, BeginOther(t) \/ Enter(t) \/ GetAttr(t) \/ Clear(t)
      PROVE  CountsInv'
  <2>1. /\ UNCHANGED <<fault, counter, role, nested, begun, finished, returned>>
        /\ calls' \in {calls, calls + 1} /\ calls' <= MaxCalls
        /\ \/ /\ pc[t] \in ToWork
              /\ \E label \in ToWork : pc' = [pc EXCEPT ![t] = label]
           \/ pc[t] = "clear_last" /\ pc' = [pc EXCEPT ![t] = "return"]
           \/ pc[t] = "idle" /\ pc' = [pc EXCEPT ![t] = "enter"]
    <3>1. CASE BeginOther(t)
      BY <1>0, <3>1 DEF BeginOther, goto, history, CountsInv
    <3>2. CASE Enter(t) \/ GetAttr(t) \/ Clear(t)
      BY <3>2 DEF Enter, GetAttr, Clear, goto, history, ToWork, CountsInv
    <3>. QED
      BY <1>3, <3>1, <3>2
  <2>2. matching' = matching /\ ahead' = ahead
    BY <2>1 DEF matching, ahead
  <2>3. outer_runs' = outer_runs /\ inner_runs' = inner_runs
    BY <1>0, <2>1 DEF outer_runs, outer_open, inner_runs, inner_open, ToWork, ThreadsInv
  <2>4. unended' = unended
    BY <1>0, <2>1 DEF unended, ToWork, ThreadsInv
  <2>. QED
    BY <1>0, <2>1, <2>2, <2>3, <2>4 DEF CountsInv
<1>4. ASSUME NEW t \in Threads, BeginNested(t) PROVE CountsInv'
  <2>1. /\ pc[t] = "inside" /\ nested[t] = "ahead" /\ nested' = [nested EXCEPT ![t] = "running"]
        /\ begun' = begun + 1 /\ counter' = counter + 1
        /\ UNCHANGED <<fault, role, calls, finished, returned>>
        /\ \E label \in {"clear_first", "enter"} : pc' = [pc EXCEPT ![t] = label]
    BY <1>4 DEF BeginNested, trigger, counted, goto
  <2>2. fault.op # "unlink"
    BY <2>1 DEF CountsInv
  <2>3. matching' = matching /\ ahead' = ahead \ {t} /\ t \in ahead
    BY <1>0, <2>1 DEF matching, ahead, ThreadsInv
  <2>4. /\ outer_runs' = outer_runs
        /\ inner_runs' = inner_runs \cup {t} /\ t \notin inner_runs
    BY <1>0, <2>1 DEF outer_runs, outer_open, inner_runs, inner_open, ToWork, ThreadsInv
  <2>5. /\ IsFiniteSet(ahead') /\ Cardinality(ahead') = Cardinality(ahead) - 1
        /\ IsFiniteSet(inner_runs') /\ Cardinality(inner_runs') = Cardinality(inner_runs) + 1
    BY <2>3, <2>4, OneMore, OneLess DEF CountsInv
  <2>. QED
    BY <1>0, <2>1, <2>2, <2>3, <2>4, <2>5 DEF CountsInv
<1>5. ASSUME NEW t \in Threads, Work(t) PROVE CountsInv'
  <2>1. /\ pc[t] = "inside" /\ nested[t] # "ahead"
        /\ finished' = IF runs_op(t) THEN finished + 1 ELSE finished
        /\ pc' = [pc EXCEPT ![t] = IF runs_op(t) THEN "end" ELSE "return"]
        /\ UNCHANGED <<fault, counter, role, nested, begun, returned, calls>>
    BY <1>5 DEF Work, goto
  <2>2. matching' = matching /\ ahead' = ahead
    BY <2>1 DEF matching, ahead
  <2>3. unended' = unended
    BY <1>0, <2>1 DEF unended, ThreadsInv, runs_op
  <2>4. CASE nested[t] = "running"
    <3>1. outer_runs' = outer_runs /\ inner_runs' = inner_runs \ {t} /\ t \in inner_runs
      BY <1>0, <2>1, <2>4
      DEF outer_runs, outer_open, inner_runs, inner_open, ToWork, ThreadsInv, runs_op
    <3>2. IsFiniteSet(inner_runs') /\ Cardinality(inner_runs') = Cardinality(inner_runs) - 1
      BY <3>1, OneLess DEF CountsInv
    <3>3. finished' = finished + 1
      BY <2>1, <2>4 DEF runs_op
    <3>. QED
      BY <1>0, <2>1, <2>2, <2>3, <3>1, <3>2, <3>3 DEF CountsInv
  <2>5. CASE nested[t] # "running" /\ role[t] = "matching"
    <3>1. inner_runs' = inner_runs /\ outer_runs' = outer_runs \ {t} /\ t \in outer_runs
      BY <1>0, <2>1, <2>5
      DEF outer_runs, outer_open, inner_runs, inner_open, ToWork, ThreadsInv, runs_op
    <3>2. IsFiniteSet(outer_runs') /\ Cardinality(outer_runs') = Cardinality(outer_runs) - 1
      BY <3>1, OneLess DEF CountsInv
    <3>3. finished' = finished + 1
      BY <2>1, <2>5 DEF runs_op
    <3>. QED
      BY <1>0, <2>1, <2>2, <2>3, <3>1, <3>2, <3>3 DEF CountsInv
  <2>6. CASE nested[t] # "running" /\ role[t] # "matching"
    <3>1. inner_runs' = inner_runs /\ outer_runs' = outer_runs
      BY <1>0, <2>1, <2>6
      DEF outer_runs, outer_open, inner_runs, inner_open, ToWork, ThreadsInv, runs_op
    <3>2. finished' = finished
      BY <2>1, <2>6 DEF runs_op
    <3>. QED
      BY <1>0, <2>1, <2>2, <2>3, <3>1, <3>2 DEF CountsInv
  <2>. QED
    BY <2>4, <2>5, <2>6
<1>6. ASSUME NEW t \in Threads, EndTrigger(t) PROVE CountsInv'
  <2>1. /\ pc[t] = "end"
        /\ UNCHANGED <<fault, role, nested, calls, begun, finished, returned>>
        /\ counter' = (IF fault.op = "unlink" THEN counter + 1 ELSE counter)
        /\ \E label \in {"clear_last", "return"} : pc' = [pc EXCEPT ![t] = label]
    BY <1>6 DEF EndTrigger, trigger, counted, timing_at_end, goto
  <2>2. matching' = matching /\ ahead' = ahead
    BY <2>1 DEF matching, ahead
  <2>3. outer_runs' = outer_runs /\ inner_runs' = inner_runs
    BY <1>0, <2>1 DEF outer_runs, outer_open, inner_runs, inner_open, ToWork, ThreadsInv
  <2>4. CASE fault.op = "unlink"
    <3>1. role[t] = "matching"
      BY <1>0, <2>1, <2>4 DEF CountsInv, ThreadsInv, Roles
    <3>2. unended' = unended \ {t} /\ t \in unended
      BY <1>0, <2>1, <3>1 DEF unended, ThreadsInv
    <3>3. IsFiniteSet(unended') /\ Cardinality(unended') = Cardinality(unended) - 1
      BY <2>4, <3>2, OneLess DEF CountsInv
    <3>. QED
      BY <1>0, <2>1, <2>2, <2>3, <2>4, <3>3 DEF CountsInv
  <2>5. CASE fault.op # "unlink"
    BY <1>0, <2>1, <2>2, <2>3, <2>5 DEF CountsInv
  <2>. QED
    BY <2>4, <2>5
<1>7. ASSUME NEW t \in Threads, ReturnNested(t) PROVE CountsInv'
  <2>1. /\ pc[t] = "return" /\ nested[t] = "running"
        /\ nested' = [nested EXCEPT ![t] = "none"] /\ pc' = [pc EXCEPT ![t] = "inside"]
        /\ UNCHANGED <<fault, counter, role, calls, begun, finished, returned>>
    BY <1>7 DEF ReturnNested, goto, history
  <2>2. fault.op # "unlink"
    BY <2>1 DEF CountsInv
  <2>3. matching' = matching /\ ahead' = ahead
    BY <1>0, <2>1 DEF matching, ahead, ThreadsInv
  <2>4. outer_runs' = outer_runs /\ inner_runs' = inner_runs
    BY <1>0, <2>1 DEF outer_runs, outer_open, inner_runs, inner_open, ToWork, ThreadsInv
  <2>. QED
    BY <1>0, <2>1, <2>2, <2>3, <2>4 DEF CountsInv
<1>8. ASSUME NEW t \in Threads, Return(t) PROVE CountsInv'
  <2>1. /\ pc[t] = "return" /\ nested[t] # "running"
        /\ returned' = (IF role[t] = "matching" THEN returned + 1 ELSE returned)
        /\ role' = [role EXCEPT ![t] = "other"] /\ pc' = [pc EXCEPT ![t] = "idle"]
        /\ UNCHANGED <<fault, counter, nested, calls, begun, finished>>
    BY <1>8 DEF Return, goto
  <2>2. ahead' = ahead
    BY <2>1 DEF ahead
  <2>3. outer_runs' = outer_runs /\ inner_runs' = inner_runs
    BY <1>0, <2>1 DEF outer_runs, outer_open, inner_runs, inner_open, ToWork, ThreadsInv
  <2>4. unended' = unended
    BY <1>0, <2>1 DEF unended, ThreadsInv
  <2>5. IsFiniteSet(matching') /\ returned' \in Nat /\ returned' + Cardinality(matching') <= calls
    <3>1. CASE role[t] = "matching"
      <4>1. matching' = matching \ {t} /\ t \in matching
        BY <1>0, <2>1, <3>1 DEF matching, ThreadsInv
      <4>2. IsFiniteSet(matching') /\ Cardinality(matching') = Cardinality(matching) - 1
        BY <4>1, OneLess DEF CountsInv
      <4>. QED
        BY <1>0, <2>1, <3>1, <4>2 DEF CountsInv
    <3>2. CASE role[t] # "matching"
      <4>1. matching' = matching
        BY <1>0, <2>1, <3>2 DEF matching, ThreadsInv
      <4>. QED
        BY <2>1, <3>2, <4>1 DEF CountsInv
    <3>. QED
      BY <3>1, <3>2
  <2>. QED
    BY <1>0, <2>1, <2>2, <2>3, <2>4, <2>5 DEF CountsInv
<1>9. CASE BeginCommand \/ RunCommand \/ UNCHANGED vars
  <2>1. UNCHANGED <<fault, counter, pc, role, nested, begun, finished, returned, calls>>
    BY <1>9 DEF BeginCommand, RunCommand, vars, history
  <2>2. UNCHANGED Sets
    BY <2>1 DEF matching, ahead, outer_runs, outer_open, inner_runs, inner_open, unended
  <2>. QED
    BY <1>0, <2>1, <2>2 DEF CountsInv
<1>. QED
  BY <1>1, <1>2, <1>3, <1>4, <1>5, <1>6, <1>7, <1>8, <1>9 DEF Next, Handler

\* The entries of the history of injections.
Counts == [begun : 0 .. 2 * MaxCalls, finished : 0 .. 2 * MaxCalls, inner : BOOLEAN]

TypeInv ==
    /\ CountsInv
    /\ shared \subseteq Threads /\ worker \in {"idle", "waiting"} /\ killed \in BOOLEAN
    /\ commands \in 0 .. MaxCommands
    /\ injected \in Seq(Counts)

LEMMA CountBounds ==
    ASSUME CountsInv
    PROVE  /\ begun \in 0 .. 2 * MaxCalls /\ finished \in 0 .. 2 * MaxCalls
           /\ counter \in 0 .. 2 * MaxCalls
           /\ returned \in 0 .. MaxCalls /\ calls \in 0 .. MaxCalls
<1>1. /\ Cardinality(matching) \in Nat /\ Cardinality(ahead) \in Nat
      /\ Cardinality(outer_runs) \in Nat /\ Cardinality(inner_runs) \in Nat
      /\ MaxCalls \in Nat
      /\ fault.op = "unlink" => Cardinality(unended) \in Nat
  BY FS_CardinalityType, ClearFaultAssumption DEF CountsInv
<1>2. /\ begun \in 0 .. 2 * MaxCalls /\ finished \in 0 .. 2 * MaxCalls
      /\ returned \in 0 .. MaxCalls /\ calls \in 0 .. MaxCalls
  BY <1>1 DEF CountsInv
<1>3. counter \in 0 .. 2 * MaxCalls
  BY <1>1, <1>2 DEF CountsInv
<1>. QED
  BY <1>2, <1>3

LEMMA NextCountBounds ==
    ASSUME CountsInv' PROVE begun' \in 0 .. 2 * MaxCalls /\ finished' \in 0 .. 2 * MaxCalls
<1>1. /\ Cardinality(ahead') \in Nat
      /\ Cardinality(outer_runs') \in Nat /\ Cardinality(inner_runs') \in Nat
      /\ MaxCalls \in Nat
  BY FS_CardinalityType, ClearFaultAssumption DEF CountsInv
<1>. QED
  BY <1>1 DEF CountsInv

LEMMA TypeStep == ASSUME TypeInv, [Next]_vars PROVE TypeInv'
<1>0. CountsInv /\ CountsInv'
  BY CountsStep DEF TypeInv
<1>2. injected' \in Seq(Counts)
  <2>1. injected' = injected \/ \E inner \in BOOLEAN :
           injected' = Append(injected, [begun |-> begun', finished |-> finished', inner |-> inner])
    <3>1. ASSUME NEW t \in Threads, BeginMatching(t) \/ BeginNested(t) \/ EndTrigger(t)
          PROVE  injected' = injected \/ \E inner \in BOOLEAN :
                   injected' = Append(injected, [begun |-> begun', finished |-> finished', inner |-> inner])
      <4>1. finished' = finished
        BY <3>1 DEF BeginMatching, BeginNested, EndTrigger
      <4>2. \E inner \in BOOLEAN : \E optiming, clear, otherwise :
               trigger(t, optiming, inner, clear, otherwise)
        <5>1. (role[t] = "matching") \in BOOLEAN
              /\ (role[t] = "matching" /\ nested[t] = "running") \in BOOLEAN
          OBVIOUS
        <5>. QED
          BY <3>1, <5>1 DEF BeginMatching, BeginNested, EndTrigger
      <4>. QED
        BY <4>1, <4>2 DEF trigger
    <3>. QED
      BY <3>1 DEF Next, Handler, BeginHost, BeginOther, Enter, GetAttr, Work, ReturnNested, Return,
             Clear, BeginCommand, RunCommand, vars, history
  <2>2. \A inner \in BOOLEAN :
           [begun |-> begun', finished |-> finished', inner |-> inner] \in Counts
    BY <1>0, NextCountBounds DEF Counts
  <2>3. \A S, x : x \in S => \A q \in Seq(S) : Append(q, x) \in Seq(S)
    OBVIOUS
  <2>4. injected \in Seq(Counts)
    BY DEF TypeInv
  <2>. QED
    BY <2>1, <2>2, <2>3, <2>4
<1>3. killed' \in BOOLEAN
  BY DEF TypeInv, Next, Handler, BeginMatching, BeginHost, begin, BeginOther, Enter, GetAttr,
         BeginNested, Work, EndTrigger, ReturnNested, Return, Clear, BeginCommand, RunCommand,
         trigger, vars
<1>4. shared' \subseteq Threads /\ worker' \in {"idle", "waiting"}
  BY DEF TypeInv, Next, Handler, BeginMatching, BeginHost, BeginOther, Enter, GetAttr,
         BeginNested, Work, EndTrigger, ReturnNested, Return, Clear, BeginCommand, RunCommand,
         vars, lock
<1>5. commands' \in 0 .. MaxCommands
  <2>1. commands' = commands \/ (commands < MaxCommands /\ commands' = commands + 1)
    BY DEF Next, Handler, BeginMatching, BeginHost, BeginOther, Enter, GetAttr,
           BeginNested, Work, EndTrigger, ReturnNested, Return, Clear, BeginCommand, RunCommand,
           vars
  <2>. QED
    BY <2>1, ClearFaultAssumption DEF TypeInv
<1>. QED
  BY <1>0, <1>2, <1>3, <1>4, <1>5 DEF TypeInv

\* Types and bounds: a call runs the handler of the operation at most twice, the work
\* of a run is counted once, and the fault counts a run once, or twice when it ends
\* with the trigger of unlink.
THEOREM TypeCorrect ==
    Spec => []TypeOK
<1>1. Init => TypeInv
  <2>. SUFFICES ASSUME Init PROVE TypeInv
    OBVIOUS
  <2>1. CountsInv
    BY CountsInit
  <2>2. \A S : <<>> \in Seq(S)
    OBVIOUS
  <2>3. injected \in Seq(Counts)
    BY <2>2 DEF Init
  <2>4. shared \subseteq Threads /\ worker \in {"idle", "waiting"} /\ commands \in 0 .. MaxCommands
    BY ClearFaultAssumption DEF Init
  <2>5. killed \in BOOLEAN
    BY DEF Init
  <2>. QED
    BY <2>1, <2>3, <2>4, <2>5 DEF TypeInv
<1>2. TypeInv /\ [Next]_vars => TypeInv'
  BY TypeStep
<1>3. TypeInv => TypeOK
  <2>. SUFFICES ASSUME TypeInv PROVE TypeOK
    OBVIOUS
  <2>1. CountsInv
    BY DEF TypeInv
  <2>2. /\ begun \in 0 .. 2 * MaxCalls /\ finished \in 0 .. 2 * MaxCalls
        /\ counter \in 0 .. 2 * MaxCalls
        /\ returned \in 0 .. MaxCalls /\ calls \in 0 .. MaxCalls
    BY <2>1, CountBounds
  <2>3. fault \in Given /\ ThreadsInv
    BY <2>1 DEF CountsInv
  <2>4. injected \in Seq([begun : 0 .. 2 * MaxCalls, finished : 0 .. 2 * MaxCalls,
                          inner : BOOLEAN])
    BY DEF TypeInv, Counts
  <2>. QED
    BY <2>2, <2>3, <2>4 DEF TypeOK, TypeInv, ThreadsInv, Labels, Roles, Places
<1>. QED
  BY <1>1, <1>2, <1>3, PTL DEF Spec

=============================================================================
