---------------------------- MODULE TornSeqProofs ----------------------------
(***************************************************************************)
(* Proofs about TornSeq for any number of files, lists, writes and syncs,  *)
(* where the one pending write is not fought over (Alone).                 *)
(***************************************************************************)
EXTENDS TornSeq, FiniteSetTheorems, TLAPS

LEMMA Bounds ==
    /\ Occurrences \subseteq Nat /\ NoWrite \notin Writes
    /\ MaxWrites \in Nat /\ MaxRuns \in Nat /\ MaxRuns # 0
BY TornSeqAssumption

\* A file with a fault is a file, and its list is a sorted sequence.
LEMMA FaultyFile ==
    ASSUME TypeOK, NEW f \in DOMAIN persist
    PROVE  /\ f \in Files
           /\ persist[f] \in Seq(Nat) /\ persist[f] # <<>>
           /\ \A n \in Range(persist[f]) : n \in Nat /\ n <= Last(persist[f])
           /\ Last(persist[f]) \in Range(persist[f])
<1>1. persist \in Configurations
  BY DEF TypeOK
<1>2. PICK lists \in Given : persist = configured(lists)
  BY <1>1 DEF Configurations
<1>3. f \in Files
  BY <1>2, TornSeqAssumption DEF configured
<1>4. /\ persist[f] \in Seq(Nat) /\ persist[f] # <<>>
      /\ \A n \in Range(persist[f]) : n <= Last(persist[f])
  BY <1>1, SortAssumption
<1>5. Len(persist[f]) \in DOMAIN persist[f] /\ \A x \in DOMAIN persist[f] : persist[f][x] \in Nat
  BY <1>4
<1>. QED
  BY <1>3, <1>4, <1>5 DEF Range, Last

\* A fault that lists the first write is the only one.
LEMMA OnlyFault ==
    ASSUME Alone, TypeOK, NEW f \in DOMAIN persist, NEW g \in DOMAIN persist,
           1 \in Range(persist[f])
    PROVE  g = f
<1>1. persist \in Configurations
  BY DEF TypeOK
<1>2. PICK h \in Files : DOMAIN persist = {h}
  BY <1>1 DEF Alone
<1>. QED
  BY <1>2

\* The groups of a file are among its runs.
LEMMA GroupsAreRuns ==
    ASSUME runs \in [Files -> Seq(0 .. MaxWrites)], NEW f \in Files
    PROVE  LET G == groups(f, Len(runs[f]))
           IN  IsFiniteSet(G) /\ Cardinality(G) \in Nat /\ Cardinality(G) <= Len(runs[f])
<1>. DEFINE n == Len(runs[f])
            G == groups(f, n)
<1>1. n \in Nat /\ G \in SUBSET (1 .. n)
  BY DEF groups
<1>2. IsFiniteSet(1 .. n) /\ Cardinality(1 .. n) = n
  BY <1>1, FS_Interval
<1>. QED
  BY <1>1, <1>2, FS_Subset, FS_CardinalityType

\* A run that the fault is to tear stays the one to tear when the last run grows
\* or another run begins.
LEMMA TargetStays ==
    ASSUME NEW f \in Files, NEW r,
           Len(runs[f]) \in Nat, Len(runs'[f]) \in Nat, Len(runs[f]) <= Len(runs'[f]),
           \A q \in 1 .. Len(runs[f]) :
               \/ runs'[f][q] = runs[f][q]
               \/ q = Len(runs[f]) /\ (runs[f][q] >= 2 => runs'[f][q] >= 2),
           occurrence' = occurrence, is_target(f, r)
    PROVE  is_target(f, r)'
<1>1. r \in 1 .. Len(runs[f]) /\ runs[f][r] >= 2
  BY DEF is_target, groups
<1>2. r \in groups(f, Len(runs[f]))'
  BY <1>1 DEF groups
<1>3. groups(f, r)' = groups(f, r)
  <2>1. ASSUME NEW q \in 1 .. r
        PROVE  runs'[f][q] >= 2 <=> runs[f][q] >= 2
    <3>1. q \in 1 .. Len(runs[f]) /\ (q = Len(runs[f]) => q = r)
      BY <1>1
    <3>. QED
      BY <1>1, <3>1
  <2>. QED
    BY <2>1 DEF groups
<1>. QED
  BY <1>2, <1>3 DEF is_target

-----------------------------------------------------------------------------

LEMMA InitInv ==
    ASSUME Init
    PROVE  TornInv
<1>1. TypeOK
  <2>1. \A f \in Files : runs[f] \in Seq(0 .. MaxWrites)
    BY TornSeqAssumption DEF Init
  <2>2. counter \in [Files -> 0 .. MaxWrites] /\ group_counter \in [Files -> 0 .. MaxRuns]
    BY TornSeqAssumption DEF Init
  <2>. QED
    BY <2>1, <2>2 DEF Init, TypeOK
<1>2. /\ runs \in [Files -> Seq(0 .. MaxWrites)]
      /\ \A f \in Files : runs[f] = <<0>> /\ Len(runs[f]) = 1 /\ Last(runs[f]) = 0
  BY TornSeqAssumption DEF Init, Last
<1>3. ASSUME NEW f \in Files
      PROVE  follows_runs(f)
  <2>1. Cardinality(groups(f, Len(runs[f]))) = 0
    <3>1. groups(f, Len(runs[f])) = {}
      BY <1>2 DEF groups
    <3>. QED
      BY <3>1, FS_EmptySet
  <2>2. Len(runs[f]) \in 1 .. MaxRuns
    <3>1. 1 \in 1 .. MaxRuns
      BY TornSeqAssumption
    <3>2. Len(runs[f]) = 1
      BY <1>2
    <3>. QED
      BY <3>1, <3>2
  <2>3. pc[f] = "idle" /\ counter[f] = 0 /\ group_counter[f] = 0
    BY DEF Init
  <2>. QED
    BY <1>2, <2>1, <2>2, <2>3 DEF follows_runs
<1>4. PendingIsFirst
  BY DEF Init, PendingIsFirst
<1>5. ASSUME NEW f \in DOMAIN persist
      PROVE  first_is_pending(f) /\ persisted_so_far(f)
  <2>1. f \in Files
    BY <1>1, FaultyFile
  <2>. QED
    BY <2>1 DEF Init, first_is_pending, first_write_waits, persisted_so_far, numbers
<1>. QED
  BY <1>1, <1>2, <1>3, <1>4, <1>5 DEF Init, TornInv, OnlyTargetPersisted

-----------------------------------------------------------------------------
(* A step of one file leaves the others alone.                             *)

\* The files whose counters and handler do not move keep following their runs.
LEMMA OtherFollows ==
    ASSUME NEW g \in Files, follows_runs(g),
           runs'[g] = runs[g], counter'[g] = counter[g], pc'[g] = pc[g],
           group_counter'[g] = group_counter[g]
    PROVE  follows_runs(g)'
<1>1. groups(g, Len(runs[g]))' = groups(g, Len(runs[g]))
  BY DEF groups
<1>. QED
  BY <1>1 DEF follows_runs, starts_group

\* Likewise for what is pending and what is on the disk.
LEMMA OtherPersists ==
    ASSUME NEW g \in DOMAIN persist, persist' = persist, occurrence' = occurrence,
           counter'[g] = counter[g], pc'[g] = pc[g], group_counter'[g] = group_counter[g],
           numbers(g)' = numbers(g), g \in crash_faults' <=> g \in crash_faults,
           persisted_so_far(g)
    PROVE  persisted_so_far(g)'
BY DEF persisted_so_far, starts_group

LEMMA OtherPending ==
    ASSUME NEW g \in DOMAIN persist, persist' = persist, runs'[g] = runs[g],
           counter'[g] = counter[g], pc'[g] = pc[g],
           g \in crash_faults' <=> g \in crash_faults,
           pending_write' = pending_write \/ 1 \notin Range(persist[g]),
           first_is_pending(g)
    PROVE  first_is_pending(g)'
BY DEF first_is_pending, first_write_waits, starts_group

\* No two steps of a fault undo each other: what was written of the group to
\* tear stays written of the group to tear.
LEMMA TargetsStay ==
    ASSUME OnlyTargetPersisted, TypeOK, persist' = persist, occurrence' = occurrence,
           runs \in [Files -> Seq(0 .. MaxWrites)], runs' = runs
    PROVE  \A w \in persisted :
               w.n \in Range(persist'[w.file]) /\ is_target(w.file, w.run)'
<1>. SUFFICES ASSUME NEW w \in persisted
              PROVE  w.n \in Range(persist'[w.file]) /\ is_target(w.file, w.run)'
  OBVIOUS
<1>1. w.n \in Range(persist[w.file]) /\ is_target(w.file, w.run)
  BY DEF OnlyTargetPersisted
<1>. QED
  BY <1>1 DEF is_target, groups

-----------------------------------------------------------------------------
(* One lemma per step of a handler.                                        *)

\* The end of a write without a crash, and the kill.
LEMMA TriggerInv ==
    ASSUME TornInv, NEW f \in DOMAIN persist, Trigger(f)
    PROVE  TornInv'
<1>1. TypeOK /\ f \in Files /\ pc[f] = "trigger"
  BY FaultyFile DEF TornInv, Trigger
<1>2. UNCHANGED <<fault, counter, group_counter, pending_write, injecting_fault,
                  crash_faults, persisted, runs>>
  BY DEF Trigger
<1>3. CASE f \in crash_faults
  <2>1. UNCHANGED pc /\ killed' \in BOOLEAN
    BY <1>3 DEF Trigger
  <2>2. TypeOK'
    BY <1>1, <1>2, <2>1 DEF TypeOK, fault
  <2>3. (\A g \in Files : follows_runs(g))' /\ PendingIsFirst'
    BY <1>2, <2>1 DEF TornInv, fault, follows_runs, groups, starts_group,
                      PendingIsFirst, first_write_waits
  <2>4. (\A g \in DOMAIN persist : first_is_pending(g) /\ persisted_so_far(g))'
    BY <1>2, <2>1 DEF TornInv, fault, first_is_pending, persisted_so_far,
                      first_write_waits, starts_group, numbers
  <2>5. OnlyTargetPersisted'
    BY <1>1, <1>2, TargetsStay DEF TornInv, fault, OnlyTargetPersisted
  <2>. QED
    BY <1>2, <2>2, <2>3, <2>4, <2>5 DEF TornInv, fault
<1>4. CASE f \notin crash_faults
  <2>1. pc' = [pc EXCEPT ![f] = "idle"] /\ UNCHANGED killed
    BY <1>4 DEF Trigger, goto
  <2>2. pc'[f] = "idle" /\ \A g \in Files \ {f} : pc'[g] = pc[g]
    BY <1>1, <2>1 DEF TypeOK
  <2>3. TypeOK'
    BY <1>1, <1>2, <2>1 DEF TypeOK, fault
  <2>4. ASSUME NEW g \in Files
        PROVE  follows_runs(g)'
    <3>1. CASE g = f
      <4>1. groups(f, Len(runs[f]))' = groups(f, Len(runs[f]))
        BY <1>2 DEF groups
      <4>. QED
        BY <1>1, <1>2, <2>2, <3>1, <4>1 DEF TornInv, follows_runs
    <3>2. CASE g # f
      BY <1>2, <2>2, <3>2, OtherFollows DEF TornInv
    <3>. QED
      BY <3>1, <3>2
  <2>5. PendingIsFirst'
    <3>1. \A g \in Files : first_write_waits(g) => first_write_waits(g)'
      BY <1>1, <1>2, <2>2 DEF first_write_waits, starts_group
    <3>2. \A g \in DOMAIN persist : g \in Files
      BY <1>1, FaultyFile
    <3>. QED
      BY <1>1, <1>2, <2>2, <3>1, <3>2 DEF TornInv, PendingIsFirst, fault
  <2>6. ASSUME NEW g \in DOMAIN persist
        PROVE  first_is_pending(g)' /\ persisted_so_far(g)'
    <3>1. numbers(g)' = numbers(g) /\ g \in Files
      BY <1>1, <1>2, FaultyFile DEF numbers
    <3>2. CASE g = f
      BY <1>1, <1>2, <1>4, <2>2, <3>1, <3>2 DEF TornInv, fault, first_is_pending,
         persisted_so_far, first_write_waits, starts_group
    <3>3. CASE g # f
      BY <1>2, <2>2, <3>1, <3>3, OtherPending, OtherPersists DEF TornInv, fault
    <3>. QED
      BY <3>2, <3>3
  <2>7. OnlyTargetPersisted'
    BY <1>1, <1>2, TargetsStay DEF TornInv, fault, OnlyTargetPersisted
  <2>. QED
    BY <1>2, <2>3, <2>4, <2>5, <2>6, <2>7 DEF TornInv, fault
<1>. QED
  BY <1>3, <1>4

\* The first half of fsync: the run's writes no longer count.
LEMMA RestartCounterInv ==
    ASSUME TornInv, NEW f \in DOMAIN persist, RestartCounter(f)
    PROVE  TornInv'
<1>1. /\ TypeOK /\ f \in Files /\ pc[f] = "idle" /\ f \notin crash_faults
      /\ Len(runs[f]) < MaxRuns
  BY FaultyFile DEF TornInv, RestartCounter, persisted_so_far
<1>2. /\ counter' = [counter EXCEPT ![f] = 0] /\ pc' = [pc EXCEPT ![f] = "forget"]
      /\ UNCHANGED <<fault, group_counter, pending_write, injecting_fault,
                     crash_faults, persisted, killed, runs>>
  BY DEF RestartCounter, goto
<1>3. /\ pc'[f] = "forget" /\ counter'[f] = 0
      /\ \A g \in Files \ {f} : pc'[g] = pc[g] /\ counter'[g] = counter[g]
  BY <1>1, <1>2 DEF TypeOK
<1>4. TypeOK'
  <2>1. 0 \in 0 .. MaxWrites
    BY TornSeqAssumption
  <2>. QED
    BY <1>1, <1>2, <2>1 DEF TypeOK, fault
<1>5. ASSUME NEW g \in Files
      PROVE  follows_runs(g)'
  <2>1. CASE g = f
    <3>1. groups(f, Len(runs[f]))' = groups(f, Len(runs[f]))
      BY <1>2 DEF groups
    <3>. QED
      BY <1>1, <1>2, <1>3, <2>1, <3>1 DEF TornInv, follows_runs, starts_group
  <2>2. CASE g # f
    BY <1>2, <1>3, <2>2, OtherFollows DEF TornInv
  <2>. QED
    BY <2>1, <2>2
<1>6. PendingIsFirst'
  <2>1. \A g \in DOMAIN persist : g \in Files
    BY <1>1, FaultyFile
  <2>2. \A g \in Files \ {f} : first_write_waits(g) => first_write_waits(g)'
    BY <1>3 DEF first_write_waits, starts_group
  <2>. QED
    BY <1>2, <1>3, <2>1, <2>2 DEF TornInv, PendingIsFirst, fault
<1>7. ASSUME NEW g \in DOMAIN persist
      PROVE  first_is_pending(g)' /\ persisted_so_far(g)'
  <2>1. numbers(g)' = numbers(g) /\ g \in Files
    BY <1>1, <1>2, FaultyFile DEF numbers
  <2>2. CASE g = f
    BY <1>1, <1>2, <1>3, <2>1, <2>2 DEF TornInv, fault, first_is_pending,
       persisted_so_far, first_write_waits, starts_group
  <2>3. CASE g # f
    BY <1>2, <1>3, <2>1, <2>3, OtherPending, OtherPersists DEF TornInv, fault
  <2>. QED
    BY <2>2, <2>3
<1>8. OnlyTargetPersisted'
  BY <1>1, <1>2, TargetsStay DEF TornInv, fault, OnlyTargetPersisted
<1>. QED
  BY <1>2, <1>4, <1>5, <1>6, <1>7, <1>8 DEF TornInv, fault

\* The second half of fsync drops the pending write and begins another run.
LEMMA ForgetPendingInv ==
    ASSUME Alone, TornInv, NEW f \in DOMAIN persist, ForgetPending(f)
    PROVE  TornInv'
<1>. DEFINE n == Len(runs[f])
<1>1. /\ TypeOK /\ f \in Files /\ pc[f] = "forget" /\ f \notin crash_faults
      /\ n \in 1 .. MaxRuns /\ n < MaxRuns /\ counter[f] = 0
      /\ Cardinality(groups(f, n)) = group_counter[f]
  <2>1. TypeOK /\ f \in Files /\ pc[f] = "forget" /\ f \notin crash_faults
    BY FaultyFile DEF TornInv, ForgetPending, persisted_so_far
  <2>2. follows_runs(f) /\ group_counter[f] \in Nat
    BY <2>1 DEF TornInv, TypeOK
  <2>. QED
    BY <2>1, <2>2 DEF follows_runs
<1>2. /\ pc' = [pc EXCEPT ![f] = "idle"] /\ runs' = [runs EXCEPT ![f] = Append(@, 0)]
      /\ pending_write' = IF pending_write # NoWrite /\ pending_write.file = f
                          THEN NoWrite ELSE pending_write
      /\ injecting_fault' = injecting_fault \ {f}
      /\ UNCHANGED <<fault, counter, group_counter, crash_faults, persisted, killed>>
  BY DEF ForgetPending, goto
<1>3. runs[f] \in Seq(0 .. MaxWrites) /\ runs \in [Files -> Seq(0 .. MaxWrites)]
      /\ 0 \in 0 .. MaxWrites /\ n \in Nat
  BY <1>1, TornSeqAssumption DEF TornInv
<1>4. /\ runs' \in [Files -> Seq(0 .. MaxWrites)]
      /\ runs'[f] = Append(runs[f], 0)
      /\ pc'[f] = "idle"
      /\ \A g \in Files \ {f} : pc'[g] = pc[g] /\ runs'[g] = runs[g]
  BY <1>1, <1>2, <1>3 DEF TypeOK
<1>5. /\ Len(runs'[f]) = n + 1 /\ runs'[f][n + 1] = 0 /\ Last(runs'[f]) = 0
      /\ \A q \in 1 .. n : runs'[f][q] = runs[f][q]
  BY <1>3, <1>4 DEF Last
<1>6. TypeOK'
  BY <1>1, <1>2, <1>4 DEF TypeOK, fault
<1>7. ASSUME NEW g \in Files
      PROVE  follows_runs(g)'
  <2>1. CASE g = f
    <3>1. groups(f, Len(runs[f]))' = groups(f, n)
      <4>1. ASSUME NEW m \in Nat
            PROVE  \A q \in 1 .. (m + 1) : q = m + 1 \/ q \in 1 .. m
        OBVIOUS
      <4>2. \A q \in 1 .. (n + 1) : q = n + 1 \/ q \in 1 .. n
        BY <1>3, <4>1
      <4>3. 1 .. n \subseteq 1 .. (n + 1)
        BY <1>3
      <4>. QED
        BY <1>5, <4>2, <4>3 DEF groups
    <3>2. Len(runs'[f]) \in 1 .. MaxRuns
      BY <1>1, <1>5, TornSeqAssumption
    <3>3. Cardinality(groups(f, Len(runs[f])))' = Cardinality(groups(f, n))
      BY <3>1
    <3>4. pc'[f] = "idle" /\ counter'[f] = Last(runs'[f]) /\ group_counter[f] \in Nat
      BY <1>1, <1>2, <1>4, <1>5 DEF TypeOK
    <3>. QED
      BY <1>1, <1>2, <2>1, <3>2, <3>3, <3>4 DEF follows_runs
  <2>2. CASE g # f
    BY <1>2, <1>4, <2>2, OtherFollows DEF TornInv
  <2>. QED
    BY <2>1, <2>2
<1>8. PendingIsFirst'
  <2>1. \A g \in DOMAIN persist : g \in Files
    BY <1>1, FaultyFile
  <2>2. \A g \in Files \ {f} : first_write_waits(g) => first_write_waits(g)'
    BY <1>2, <1>4 DEF first_write_waits, starts_group
  <2>. QED
    BY <1>2, <1>4, <2>1, <2>2 DEF TornInv, PendingIsFirst, fault
<1>9. ASSUME NEW g \in DOMAIN persist
      PROVE  first_is_pending(g)' /\ persisted_so_far(g)'
  <2>1. numbers(g)' = numbers(g) /\ g \in Files
    BY <1>1, <1>2, FaultyFile DEF numbers
  <2>2. CASE g = f
    BY <1>1, <1>2, <1>4, <2>1, <2>2 DEF TornInv, fault, first_is_pending,
       persisted_so_far, first_write_waits, starts_group
  <2>3. CASE g # f
    <3>1. pending_write' = pending_write \/ 1 \notin Range(persist[g])
      BY <1>1, <1>2, <2>3, OnlyFault DEF TornInv, PendingIsFirst
    <3>. QED
      BY <1>2, <1>4, <2>1, <2>3, <3>1, OtherPending, OtherPersists DEF TornInv, fault
  <2>. QED
    BY <2>2, <2>3
<1>10. OnlyTargetPersisted'
  <2>. SUFFICES ASSUME NEW w \in persisted
                PROVE  w.n \in Range(persist[w.file]) /\ is_target(w.file, w.run)'
    BY <1>2 DEF OnlyTargetPersisted, fault
  <2>1. w.n \in Range(persist[w.file]) /\ is_target(w.file, w.run) /\ w.file \in Files
    BY <1>1 DEF TornInv, OnlyTargetPersisted, TypeOK, Writes
  <2>2. Len(runs[w.file]) \in Nat /\ Len(runs'[w.file]) \in Nat
    BY <1>3, <1>4, <2>1
  <2>3. /\ Len(runs[w.file]) <= Len(runs'[w.file])
        /\ \A q \in 1 .. Len(runs[w.file]) : runs'[w.file][q] = runs[w.file][q]
    <3>1. CASE w.file = f
      BY <1>3, <1>5, <3>1
    <3>2. CASE w.file # f
      BY <1>4, <2>1, <2>2, <3>2
    <3>. QED
      BY <3>1, <3>2
  <2>. QED
    BY <1>2, <2>1, <2>2, <2>3, TargetStays DEF fault
<1>. QED
  BY <1>2, <1>4, <1>6, <1>7, <1>8, <1>9, <1>10 DEF TornInv, fault

\* What a handler knows of the write it is at.
LEMMA AtWrite ==
    ASSUME TornInv, NEW f \in DOMAIN persist, pc[f] \in {"group", "persist"}
    PROVE  /\ TypeOK /\ f \in Files /\ f \notin crash_faults
           /\ Len(runs[f]) \in 1 .. MaxRuns /\ Len(runs[f]) \in Nat
           /\ counter[f] = runs[f][Len(runs[f])]
           /\ counter[f] \in 1 .. MaxWrites /\ counter[f] \in Nat
           /\ this_write(f) \in Writes
           /\ group_counter[f] \in Nat /\ occurrence[f] \in Nat
           /\ counter[f] >= 2 =>
                 Len(runs[f]) \in groups(f, Len(runs[f]))
<1>1. TypeOK /\ f \in Files /\ f \notin crash_faults
  BY FaultyFile DEF TornInv, persisted_so_far
<1>2. /\ Len(runs[f]) \in 1 .. MaxRuns /\ counter[f] = runs[f][Len(runs[f])]
      /\ counter[f] >= 1
  BY <1>1 DEF TornInv, follows_runs, Last
<1>3. counter[f] \in 0 .. MaxWrites /\ group_counter[f] \in 0 .. MaxRuns
      /\ occurrence[f] \in Occurrences
  BY <1>1 DEF TypeOK
<1>4. counter[f] \in 1 .. MaxWrites /\ counter[f] \in Nat /\ Len(runs[f]) \in Nat
  BY <1>2, <1>3, TornSeqAssumption
<1>5. this_write(f) \in Writes
  BY <1>1, <1>2, <1>4 DEF this_write, Writes
<1>6. counter[f] >= 2 => Len(runs[f]) \in groups(f, Len(runs[f]))
  BY <1>2, <1>4 DEF groups
<1>7. group_counter[f] \in Nat /\ occurrence[f] \in Nat
  <2>1. group_counter[f] \in Nat
    BY <1>3, Bounds
  <2>2. occurrence[f] \in Nat
    BY <1>3, Bounds
  <2>. QED
    BY <2>1, <2>2
<1>. QED
  BY <1>1, <1>2, <1>4, <1>5, <1>6, <1>7

\* A write that reaches the disk counts for its own file.
LEMMA NumbersGrow ==
    ASSUME NEW w, persisted' = persisted \cup {w}, NEW f
    PROVE  numbers(f)' = IF w.file = f THEN numbers(f) \cup {w.n} ELSE numbers(f)
<1>1. {v \in persisted' : v.file = f} =
          {v \in persisted : v.file = f} \cup (IF w.file = f THEN {w} ELSE {})
  OBVIOUS
<1>. QED
  BY <1>1 DEF numbers

\* A write of the list is kept aside, or written; the last one sets the crash fault.
LEMMA PersistWriteInv ==
    ASSUME Alone, TornInv, NEW f \in DOMAIN persist, PersistWrite(f)
    PROVE  TornInv'
<1>. DEFINE n == Len(runs[f])
            c == counter[f]
            listed == c \in Range(persist[f])
            torn == listed /\ c # 1 /\ group_counter[f] = occurrence[f]
<1>1. /\ TypeOK /\ f \in Files /\ f \notin crash_faults /\ pc[f] = "persist"
      /\ n \in 1 .. MaxRuns /\ c = runs[f][n] /\ c \in 1 .. MaxWrites /\ c \in Nat
      /\ this_write(f) \in Writes /\ group_counter[f] \in Nat /\ occurrence[f] \in Nat
      /\ c >= 2 => n \in groups(f, n)
  BY AtWrite DEF PersistWrite
<1>2. /\ pc' = [pc EXCEPT ![f] = "trigger"]
      /\ UNCHANGED <<fault, counter, group_counter, injecting_fault, killed, runs>>
      /\ pending_write' = IF listed /\ c = 1 THEN this_write(f) ELSE pending_write
      /\ persisted' = IF torn THEN persisted \cup {this_write(f)} ELSE persisted
      /\ crash_faults' = IF torn /\ c = Last(persist[f]) THEN crash_faults \cup {f}
                                                         ELSE crash_faults
  BY DEF PersistWrite, goto, is_last
<1>3. pc'[f] = "trigger" /\ \A g \in Files \ {f} : pc'[g] = pc[g]
  BY <1>1, <1>2 DEF TypeOK
<1>4. TypeOK' /\ crash_faults' \subseteq DOMAIN persist
  BY <1>1, <1>2 DEF TypeOK, fault, TornInv
<1>5. ASSUME NEW g \in Files
      PROVE  follows_runs(g)'
  <2>1. CASE g = f
    <3>1. groups(f, Len(runs[f]))' = groups(f, Len(runs[f]))
      BY <1>2 DEF groups
    <3>. QED
      BY <1>1, <1>2, <1>3, <2>1, <3>1 DEF TornInv, follows_runs
  <2>2. CASE g # f
    BY <1>2, <1>3, <2>2, OtherFollows DEF TornInv
  <2>. QED
    BY <2>1, <2>2
<1>6. PendingIsFirst'
  <2>1. CASE listed /\ c = 1
    <3>1. pending_write' = [file |-> f, run |-> n, n |-> 1]
      BY <1>2, <2>1 DEF this_write
    <3>. QED
      BY <1>2, <1>3, <2>1, <3>1 DEF PendingIsFirst, first_write_waits, fault
  <2>2. CASE ~(listed /\ c = 1)
    <3>1. pending_write' = pending_write
      BY <1>2, <2>2
    <3>2. pending_write # NoWrite => pending_write.file # f
      BY <1>1 DEF TornInv, PendingIsFirst, first_write_waits
    <3>3. \A g \in DOMAIN persist : g \in Files
      BY <1>1, FaultyFile
    <3>4. \A g \in Files \ {f} : first_write_waits(g) => first_write_waits(g)'
      BY <1>2, <1>3 DEF first_write_waits, starts_group
    <3>. QED
      BY <1>2, <1>3, <3>1, <3>2, <3>3, <3>4 DEF TornInv, PendingIsFirst, fault
  <2>. QED
    BY <2>1, <2>2
<1>7. numbers(f)' = IF torn THEN numbers(f) \cup {c} ELSE numbers(f)
  <2>1. this_write(f).file = f /\ this_write(f).n = c
    BY DEF this_write
  <2>2. ~ torn => numbers(f)' = numbers(f)
    BY <1>2 DEF numbers
  <2>. QED
    BY <1>2, <2>1, <2>2, NumbersGrow
<1>8. \A g \in DOMAIN persist : g # f =>
          /\ numbers(g)' = numbers(g) /\ g \in Files
          /\ g \in crash_faults' <=> g \in crash_faults
          /\ pending_write' = pending_write \/ 1 \notin Range(persist[g])
  <2>. SUFFICES ASSUME NEW g \in DOMAIN persist, g # f
                PROVE  /\ numbers(g)' = numbers(g) /\ g \in Files
                       /\ g \in crash_faults' <=> g \in crash_faults
                       /\ pending_write' = pending_write \/ 1 \notin Range(persist[g])
    OBVIOUS
  <2>1. numbers(g)' = numbers(g)
    BY <1>2 DEF numbers, this_write
  <2>2. 1 \notin Range(persist[g])
    BY <1>1, OnlyFault
  <2>. QED
    BY <1>1, <1>2, <2>1, <2>2, FaultyFile
<1>9. ASSUME NEW g \in DOMAIN persist
      PROVE  first_is_pending(g)' /\ persisted_so_far(g)'
  <2>1. CASE g = f
    <3>1. first_is_pending(f)'
      BY <1>1, <1>2, <1>3 DEF first_is_pending, first_write_waits, starts_group, this_write, fault
    <3>2. group_counter[f] < occurrence[f] => numbers(f)' = {}
      BY <1>1, <1>7 DEF TornInv, persisted_so_far
    <3>3. ASSUME group_counter[f] = occurrence[f], c >= 2
          PROVE  numbers(f)' = {m \in Range(persist[f]) : 1 <= m /\ m <= c}
      <4>1. numbers(f) = {m \in Range(persist[f]) : 1 <= m /\ m < c}
        BY <1>1, <3>3 DEF TornInv, persisted_so_far
      <4>2. \A m \in Range(persist[f]) : m \in Nat
        BY <1>1, FaultyFile
      <4>. QED
        BY <1>1, <1>7, <3>3, <4>1, <4>2
    <3>4. ASSUME f \in crash_faults'
          PROVE  numbers(f)' = Range(persist[f]) \ {0}
      <4>1. torn /\ c = Last(persist[f])
        BY <1>1, <1>2, <3>4
      <4>2. \A m \in Range(persist[f]) : m \in Nat /\ m <= c
        BY <1>1, <4>1, FaultyFile
      <4>. QED
        BY <1>1, <3>3, <4>1, <4>2
    <3>. QED
      BY <1>2, <1>3, <2>1, <3>1, <3>2, <3>3, <3>4 DEF persisted_so_far, fault
  <2>2. CASE g # f
    BY <1>2, <1>3, <1>8, <2>2, OtherPending, OtherPersists DEF TornInv, fault
  <2>. QED
    BY <2>1, <2>2
<1>10. OnlyTargetPersisted'
  <2>1. \A w \in persisted : w.n \in Range(persist[w.file]) /\ is_target(w.file, w.run)'
    BY <1>1, <1>2, TargetsStay DEF TornInv, fault
  <2>2. torn => is_target(f, n)'
    <3>1. torn => is_target(f, n)
      <4>1. Cardinality(groups(f, n)) = group_counter[f] + 0
        BY <1>1 DEF TornInv, follows_runs
      <4>. QED
        BY <1>1, <4>1 DEF is_target
    <3>. QED
      BY <1>2, <3>1 DEF is_target, groups, fault
  <2>. QED
    BY <1>2, <2>1, <2>2 DEF OnlyTargetPersisted, this_write, fault
<1>. QED
  BY <1>2, <1>4, <1>5, <1>6, <1>9, <1>10 DEF TornInv, fault

\* The second write of a run makes it a group; then the first one is written or
\* dropped.
LEMMA CountGroupInv ==
    ASSUME Alone, TornInv, NEW f \in DOMAIN persist, CountGroup(f)
    PROVE  TornInv'
<1>. DEFINE n == Len(runs[f])
            c == counter[f]
            more == IF starts_group(f) THEN 1 ELSE 0
            first == [file |-> f, run |-> n, n |-> 1]
            torn == pending_write # NoWrite /\ persist_pending(f)
<1>1. /\ TypeOK /\ f \in Files /\ f \notin crash_faults /\ pc[f] = "group"
      /\ n \in 1 .. MaxRuns /\ n \in Nat /\ c = runs[f][n] /\ c \in 1 .. MaxWrites /\ c \in Nat
      /\ group_counter[f] \in Nat /\ occurrence[f] \in Nat /\ more \in {0, 1}
      /\ c >= 2 => n \in groups(f, n)
  BY AtWrite DEF CountGroup
<1>2. /\ group_counter' = [group_counter EXCEPT ![f] = @ + more]
      /\ injecting_fault' \subseteq Files
      /\ UNCHANGED <<fault, counter, killed, runs>>
  BY <1>1 DEF CountGroup, TypeOK
<1>3. Cardinality(groups(f, n)) = group_counter[f] + more
  BY <1>1 DEF TornInv, follows_runs
<1>4. /\ group_counter'[f] = group_counter[f] + more
      /\ \A g \in Files \ {f} : group_counter'[g] = group_counter[g]
      /\ group_counter' \in [Files -> 0 .. MaxRuns]
  <2>1. group_counter[f] + more <= n
    BY <1>1, <1>3, GroupsAreRuns DEF TornInv
  <2>2. group_counter[f] + more \in 0 .. MaxRuns
    BY <1>1, <2>1, Bounds
  <2>. QED
    BY <1>1, <1>2, <2>2 DEF TypeOK
\* What is pending is the first write of this run: no other fault lists it.
<1>5. ASSUME pending_write # NoWrite
      PROVE  /\ pending_write = first /\ starts_group(f)
             /\ 1 \in Range(persist[f]) /\ pending_write \in Writes
  <2>1. /\ pending_write.file \in DOMAIN persist
        /\ 1 \in Range(persist[pending_write.file])
        /\ pending_write \in Writes
    BY <1>1, <1>5 DEF TornInv, PendingIsFirst, TypeOK
  <2>2. pending_write.file = f
    BY <1>1, <2>1, OnlyFault
  <2>3. starts_group(f) /\ pending_write.n = 1 /\ pending_write.run = n
    BY <1>1, <1>5, <2>2 DEF TornInv, PendingIsFirst, first_write_waits
  <2>. QED
    BY <2>1, <2>2, <2>3 DEF Writes
<1>6. ASSUME 1 \in Range(persist[f]), starts_group(f)
      PROVE  pending_write # NoWrite
  <2>1. pending_write = first
    BY <1>1, <1>6 DEF TornInv, first_is_pending, first_write_waits
  <2>2. first \in Writes
    BY <1>1, Bounds DEF Writes
  <2>. QED
    BY <2>1, <2>2, Bounds
<1>7. /\ torn => /\ group_counter'[f] = occurrence[f]
                 /\ persisted' = persisted \cup {first}
      /\ ~ torn => persisted' = persisted /\ (pending_write # NoWrite =>
                                                  group_counter'[f] # occurrence[f])
  BY <1>1, <1>4, <1>5 DEF CountGroup, persist_pending
<1>8. \/ /\ torn /\ Len(persist[f]) = 1
         /\ pc' = [pc EXCEPT ![f] = "trigger"] /\ crash_faults' = crash_faults \cup {f}
         /\ pending_write' = pending_write
      \/ /\ torn => Len(persist[f]) # 1
         /\ pc' = [pc EXCEPT ![f] = "persist"] /\ crash_faults' = crash_faults
         /\ pending_write' = NoWrite
  BY DEF CountGroup, goto
<1>9. /\ pc'[f] \in {"trigger", "persist"}
      /\ pc' \in [Files -> {"idle", "group", "persist", "trigger", "forget"}]
      /\ \A g \in Files \ {f} : pc'[g] = pc[g]
  BY <1>1, <1>8 DEF TypeOK
<1>10. TypeOK' /\ crash_faults' \subseteq DOMAIN persist
  <2>1. crash_faults' \subseteq DOMAIN persist /\ crash_faults' \subseteq Files
    BY <1>1, <1>8 DEF TornInv, TypeOK
  <2>2. pending_write' \in Writes \cup {NoWrite}
    BY <1>1, <1>8 DEF TypeOK
  <2>3. persisted' \subseteq Writes
    BY <1>1, <1>5, <1>7 DEF TypeOK
  <2>. QED
    BY <1>1, <1>2, <1>4, <1>9, <2>1, <2>2, <2>3 DEF TypeOK, fault
<1>11. ASSUME NEW g \in Files
       PROVE  follows_runs(g)'
  <2>1. CASE g = f
    <3>1. groups(f, Len(runs[f]))' = groups(f, n)
      BY <1>2 DEF groups
    <3>2. pc'[f] # "group" /\ pc'[f] # "forget"
      BY <1>9
    <3>3. c = Last(runs[f]) /\ c >= 1
      BY <1>1 DEF Last
    <3>. QED
      BY <1>1, <1>2, <1>3, <1>4, <2>1, <3>1, <3>2, <3>3 DEF follows_runs
  <2>2. CASE g # f
    BY <1>2, <1>4, <1>9, <2>2, OtherFollows DEF TornInv
  <2>. QED
    BY <2>1, <2>2
<1>12. PendingIsFirst'
  BY <1>1, <1>2, <1>5, <1>8 DEF PendingIsFirst, fault
<1>13. ASSUME NEW g \in DOMAIN persist
       PROVE  first_is_pending(g)' /\ persisted_so_far(g)'
  <2>1. CASE g = f
    <3>1. first_is_pending(f)'
      BY <1>1, <1>8, <1>9 DEF first_is_pending, first_write_waits
    <3>2. numbers(f)' = IF torn THEN numbers(f) \cup {1} ELSE numbers(f)
      <4>1. torn => numbers(f)' = numbers(f) \cup {1}
        <5>1. first.file = f /\ first.n = 1
          OBVIOUS
        <5>. QED
          BY <1>7, <5>1, NumbersGrow
      <4>2. ~ torn => numbers(f)' = numbers(f)
        BY <1>7 DEF numbers
      <4>. QED
        BY <4>1, <4>2
    <3>3. group_counter[f] < occurrence[f] => numbers(f) = {}
      BY DEF TornInv, persisted_so_far
    <3>4. group_counter'[f] < occurrence[f] => numbers(f)' = {}
      BY <1>1, <1>4, <1>7, <3>2, <3>3
    <3>5. torn => numbers(f)' = {1} /\ starts_group(f) /\ 1 \in Range(persist[f])
      BY <1>1, <1>4, <1>5, <1>7, <3>2, <3>3
    <3>6. \A m \in Range(persist[f]) : m \in Nat
      BY <1>1, FaultyFile
    <3>7. ASSUME torn, Len(persist[f]) = 1
          PROVE  Range(persist[f]) = {1}
      <4>1. persist[f] \in Seq(Nat)
        BY <1>1, FaultyFile
      <4>2. DOMAIN persist[f] = {1}
        BY <3>7, <4>1
      <4>. QED
        BY <3>5, <3>7, <4>2 DEF Range
    <3>8. ASSUME group_counter'[f] = occurrence[f], c >= 2, pc'[f] = "persist"
          PROVE  numbers(f)' = {m \in Range(persist[f]) : 1 <= m /\ m < c}
      <4>1. CASE starts_group(f)
        <5>1. c = 2 /\ {m \in Range(persist[f]) : 1 <= m /\ m < c} = Range(persist[f]) \cap {1}
          BY <3>6, <4>1 DEF starts_group
        <5>2. torn \/ 1 \notin Range(persist[f])
          BY <1>6, <1>7, <3>8, <4>1
        <5>3. ~ torn => numbers(f)' = {}
          BY <1>1, <1>4, <3>2, <3>3, <3>8, <4>1
        <5>. QED
          BY <3>5, <5>1, <5>2, <5>3
      <4>2. CASE ~ starts_group(f)
        <5>1. ~ torn /\ group_counter[f] = occurrence[f]
          BY <1>1, <1>4, <1>5, <3>8, <4>2
        <5>2. numbers(f) = {m \in Range(persist[f]) : 1 <= m /\ m < c}
          BY <1>1, <3>8, <4>2, <5>1 DEF TornInv, persisted_so_far
        <5>. QED
          BY <3>2, <5>1, <5>2
      <4>. QED
        BY <4>1, <4>2
    <3>9. ASSUME pc'[f] = "trigger"
          PROVE  torn /\ Range(persist[f]) = {1} /\ f \in crash_faults'
      BY <1>1, <1>8, <3>7, <3>9 DEF TypeOK
    <3>10. f \in crash_faults' => pc'[f] = "trigger"
      BY <1>1, <1>8 DEF TypeOK
    <3>11. ASSUME pc'[f] = "trigger", c >= 2
           PROVE  numbers(f)' = {m \in Range(persist[f]) : 1 <= m /\ m <= c}
      BY <1>1, <3>5, <3>9, <3>11
    <3>12. f \in crash_faults' => numbers(f)' = Range(persist[f]) \ {0}
      BY <3>5, <3>9, <3>10
    <3>. QED
      BY <1>2, <1>9, <2>1, <3>1, <3>4, <3>8, <3>10, <3>11, <3>12 DEF persisted_so_far, fault
  <2>2. CASE g # f
    <3>1. g \in Files /\ (1 \notin Range(persist[g]) \/ pending_write' = pending_write)
      BY <1>1, <1>5, <1>8, <2>2, FaultyFile, OnlyFault
    <3>2. numbers(g)' = numbers(g)
      <4>1. first.file = f
        OBVIOUS
      <4>2. ~ torn => numbers(g)' = numbers(g)
        BY <1>7 DEF numbers
      <4>. QED
        BY <1>7, <2>2, <4>1, <4>2, NumbersGrow
    <3>3. g \in Files /\ (g \in crash_faults' <=> g \in crash_faults)
      BY <1>1, <1>8, <2>2, FaultyFile
    <3>. QED
      BY <1>2, <1>4, <1>9, <2>2, <3>1, <3>2, <3>3, OtherPending, OtherPersists DEF TornInv, fault
  <2>. QED
    BY <2>1, <2>2
<1>14. OnlyTargetPersisted'
  <2>1. \A w \in persisted : w.n \in Range(persist[w.file]) /\ is_target(w.file, w.run)'
    BY <1>1, <1>2, TargetsStay DEF TornInv, fault
  <2>2. torn => is_target(f, n)' /\ 1 \in Range(persist[f])
    <3>1. torn => is_target(f, n) /\ 1 \in Range(persist[f])
      BY <1>1, <1>3, <1>4, <1>5, <1>7 DEF is_target, starts_group
    <3>. QED
      BY <1>2, <3>1 DEF is_target, groups, fault
  <2>. QED
    BY <1>2, <1>7, <2>1, <2>2 DEF OnlyTargetPersisted, fault
<1>. QED
  BY <1>2, <1>10, <1>11, <1>12, <1>13, <1>14 DEF TornInv, fault

\* A write makes the current run longer by one.
LEMMA RunGrows ==
    ASSUME TornInv, NEW f \in DOMAIN persist, CountWrite(f)
    PROVE  LET n == Len(runs[f])
           IN  /\ runs' \in [Files -> Seq(0 .. MaxWrites)]
               /\ \A g \in Files : Len(runs'[g]) = Len(runs[g])
               /\ \A g \in Files \ {f} : runs'[g] = runs[g]
               /\ runs[f][n] = counter[f] /\ runs'[f][n] = counter[f] + 1
               /\ \A q \in 1 .. n : q # n => runs'[f][q] = runs[f][q]
               /\ counter[f] \in Nat /\ counter[f] + 1 \in 0 .. MaxWrites
               /\ n \in 1 .. n /\ n \in Nat /\ n \in 1 .. MaxRuns
<1>. DEFINE n == Len(runs[f])
<1>1. /\ TypeOK /\ f \in Files /\ pc[f] = "idle" /\ Last(runs[f]) < MaxWrites
      /\ runs' = [runs EXCEPT ![f][n] = @ + 1]
  BY FaultyFile DEF TornInv, CountWrite
<1>2. runs \in [Files -> Seq(0 .. MaxWrites)] /\ runs[f] \in Seq(0 .. MaxWrites)
  BY <1>1 DEF TornInv
<1>3. n \in 1 .. MaxRuns /\ counter[f] = runs[f][n]
  BY <1>1 DEF TornInv, follows_runs, Last
<1>4. n \in 1 .. n /\ n \in Nat
  BY <1>2, <1>3, Bounds
<1>5. counter[f] \in 0 .. MaxWrites /\ counter[f] < MaxWrites
  BY <1>1, <1>3 DEF TypeOK, Last
<1>6. counter[f] \in Nat /\ counter[f] + 1 \in 0 .. MaxWrites
  BY <1>5, Bounds
<1>7. runs' = [runs EXCEPT ![f] = [runs[f] EXCEPT ![n] = counter[f] + 1]]
  BY <1>1, <1>2, <1>3
<1>8. /\ [runs[f] EXCEPT ![n] = counter[f] + 1] \in Seq(0 .. MaxWrites)
      /\ Len([runs[f] EXCEPT ![n] = counter[f] + 1]) = n
  BY <1>2, <1>4, <1>6
<1>9. /\ runs' \in [Files -> Seq(0 .. MaxWrites)]
      /\ runs'[f] = [runs[f] EXCEPT ![n] = counter[f] + 1]
      /\ \A g \in Files \ {f} : runs'[g] = runs[g]
  BY <1>1, <1>2, <1>7, <1>8
<1>10. \A g \in Files : Len(runs'[g]) = Len(runs[g])
  BY <1>8, <1>9
<1>11. /\ runs'[f][n] = counter[f] + 1
       /\ \A q \in 1 .. n : q # n => runs'[f][q] = runs[f][q]
  BY <1>2, <1>4, <1>9
<1>. QED
  BY <1>3, <1>4, <1>6, <1>9, <1>10, <1>11

\* A write is counted.
LEMMA CountWriteInv ==
    ASSUME Alone, TornInv, NEW f \in DOMAIN persist, CountWrite(f)
    PROVE  TornInv'
<1>. DEFINE n == Len(runs[f])
            c == counter[f]
<1>1. /\ TypeOK /\ f \in Files /\ pc[f] = "idle" /\ f \notin crash_faults
  BY FaultyFile DEF TornInv, CountWrite, persisted_so_far
<1>2. /\ runs' \in [Files -> Seq(0 .. MaxWrites)]
      /\ \A g \in Files : Len(runs'[g]) = Len(runs[g])
      /\ \A g \in Files \ {f} : runs'[g] = runs[g]
      /\ runs[f][n] = c /\ runs'[f][n] = c + 1
      /\ \A q \in 1 .. n : q # n => runs'[f][q] = runs[f][q]
      /\ c \in Nat /\ c + 1 \in 0 .. MaxWrites
      /\ n \in 1 .. n /\ n \in Nat /\ n \in 1 .. MaxRuns
  BY RunGrows
<1>3. /\ counter' = [counter EXCEPT ![f] = c + 1]
      /\ pc' = [pc EXCEPT ![f] = "group"]
      /\ UNCHANGED <<fault, group_counter, pending_write, injecting_fault,
                     crash_faults, persisted, killed>>
  BY DEF CountWrite, goto
<1>4. /\ counter'[f] = c + 1 /\ pc'[f] = "group"
      /\ \A g \in Files \ {f} : pc'[g] = pc[g] /\ counter'[g] = counter[g]
  BY <1>1, <1>3 DEF TypeOK
<1>5. TypeOK'
  BY <1>1, <1>2, <1>3 DEF TypeOK, fault
<1>6. ASSUME NEW g \in Files
      PROVE  follows_runs(g)'
  <2>1. CASE g = f
    <3>1. /\ IsFiniteSet(groups(f, n)) /\ Cardinality(groups(f, n)) \in Nat
          /\ Cardinality(groups(f, n)) = group_counter[f] + 0
      BY <1>1, GroupsAreRuns DEF TornInv, follows_runs
    <3>2. groups(f, Len(runs[f]))' = {q \in 1 .. n : runs'[f][q] >= 2}
      BY <1>1, <1>2 DEF groups
    <3>3. CASE c = 1
      <4>1. groups(f, Len(runs[f]))' = groups(f, n) \cup {n} /\ n \notin groups(f, n)
        BY <1>2, <3>2, <3>3 DEF groups
      <4>2. Cardinality(groups(f, Len(runs[f])))' = Cardinality(groups(f, n)) + 1
        BY <3>1, <4>1, FS_AddElement
      <4>3. starts_group(f)'
        BY <1>4, <3>3 DEF starts_group
      <4>. QED
        BY <1>1, <1>2, <1>3, <1>4, <2>1, <3>1, <3>3, <4>2, <4>3 DEF follows_runs, Last, TypeOK
    <3>4. CASE c # 1
      <4>1. groups(f, Len(runs[f]))' = groups(f, n)
        <5>1. c + 1 >= 2 <=> c >= 2
          BY <1>2, <3>4
        <5>. QED
          BY <1>2, <3>2, <5>1 DEF groups
      <4>2. Cardinality(groups(f, Len(runs[f])))' = Cardinality(groups(f, n))
        BY <4>1
      <4>3. ~ starts_group(f)'
        BY <1>2, <1>4, <3>4 DEF starts_group
      <4>. QED
        BY <1>1, <1>2, <1>3, <1>4, <2>1, <3>1, <4>2, <4>3 DEF follows_runs, Last, TypeOK
    <3>. QED
      BY <3>3, <3>4
  <2>2. CASE g # f
    BY <1>2, <1>3, <1>4, <2>2, OtherFollows DEF TornInv
  <2>. QED
    BY <2>1, <2>2
<1>7. PendingIsFirst'
  <2>1. \A g \in DOMAIN persist : g \in Files
    BY <1>1, FaultyFile
  <2>2. \A g \in Files : first_write_waits(g) => first_write_waits(g)'
    BY <1>1, <1>4 DEF first_write_waits, starts_group
  <2>3. \A g \in Files : pc[g] = "forget" => pc'[g] = "forget"
    BY <1>1, <1>4
  <2>. QED
    BY <1>2, <1>3, <2>1, <2>2, <2>3 DEF TornInv, PendingIsFirst, fault
<1>8. ASSUME NEW g \in DOMAIN persist
      PROVE  first_is_pending(g)' /\ persisted_so_far(g)'
  <2>1. numbers(g)' = numbers(g) /\ g \in Files
    BY <1>1, <1>3, FaultyFile DEF numbers
  <2>2. CASE g = f
    <3>1. first_is_pending(f)'
      BY <1>1, <1>2, <1>3, <1>4 DEF TornInv, fault, first_is_pending, first_write_waits, starts_group
    <3>2. \A m \in Range(persist[f]) : m \in Nat
      BY <1>1, FaultyFile
    <3>3. group_counter[f] = occurrence[f] /\ c >= 2 =>
              numbers(f) = {m \in Range(persist[f]) : 1 <= m /\ m <= c}
      BY <1>1 DEF TornInv, persisted_so_far
    <3>4. \A m \in Nat : m <= c <=> m < c + 1
      BY <1>2
    <3>5. c + 1 >= 2 /\ c + 1 # 2 => c >= 2
      BY <1>2
    <3>6. group_counter[f] < occurrence[f] => numbers(f) = {}
      BY DEF TornInv, persisted_so_far
    <3>7. group_counter[f] = occurrence[f] /\ c >= 2 =>
              numbers(f) = {m \in Range(persist[f]) : 1 <= m /\ m < c + 1}
      BY <3>2, <3>3, <3>4
    <3>. QED
      BY <1>1, <1>3, <1>4, <2>1, <2>2, <3>1, <3>5, <3>6, <3>7 DEF fault,
         persisted_so_far, starts_group
  <2>3. CASE g # f
    BY <1>2, <1>3, <1>4, <2>1, <2>3, OtherPending, OtherPersists DEF TornInv, fault
  <2>. QED
    BY <2>2, <2>3
<1>9. OnlyTargetPersisted'
  <2>. SUFFICES ASSUME NEW w \in persisted
                PROVE  w.n \in Range(persist[w.file]) /\ is_target(w.file, w.run)'
    BY <1>3 DEF OnlyTargetPersisted, fault
  <2>1. w.n \in Range(persist[w.file]) /\ is_target(w.file, w.run) /\ w.file \in Files
    BY <1>1 DEF TornInv, OnlyTargetPersisted, TypeOK, Writes
  <2>2. Len(runs[w.file]) \in Nat /\ Len(runs'[w.file]) = Len(runs[w.file])
    BY <1>2, <2>1
  <2>3. \A q \in 1 .. Len(runs[w.file]) :
            \/ runs'[w.file][q] = runs[w.file][q]
            \/ q = Len(runs[w.file]) /\ (runs[w.file][q] >= 2 => runs'[w.file][q] >= 2)
    <3>1. CASE w.file = f
      BY <1>2, <3>1
    <3>2. CASE w.file # f
      BY <1>2, <2>1, <3>2
    <3>. QED
      BY <3>1, <3>2
  <2>. QED
    BY <1>3, <2>1, <2>2, <2>3, TargetStays DEF fault
<1>. QED
  BY <1>2, <1>3, <1>5, <1>6, <1>7, <1>8, <1>9 DEF TornInv, fault

LEMMA NextInv ==
    ASSUME Alone, TornInv, [Next]_vars
    PROVE  TornInv'
<1>1. ASSUME NEW f \in DOMAIN persist, CountWrite(f) \/ RestartCounter(f) \/ Handler(f)
      PROVE  TornInv'
  BY <1>1, CountWriteInv, RestartCounterInv, CountGroupInv, PersistWriteInv, TriggerInv,
     ForgetPendingInv DEF Handler
<1>2. CASE UNCHANGED vars
  <2>1. TypeOK'
    BY <1>2 DEF vars, fault, TornInv, TypeOK
  <2>2. (\A f \in Files : follows_runs(f))'
    BY <1>2 DEF vars, TornInv, follows_runs, groups, starts_group
  <2>3. PendingIsFirst'
    BY <1>2 DEF vars, fault, TornInv, PendingIsFirst, first_write_waits, starts_group
  <2>4. (\A f \in DOMAIN persist : first_is_pending(f) /\ persisted_so_far(f))'
    BY <1>2 DEF vars, fault, TornInv, first_is_pending, first_write_waits,
                persisted_so_far, starts_group, numbers
  <2>5. OnlyTargetPersisted'
    BY <1>2 DEF vars, fault, TornInv, OnlyTargetPersisted, is_target, groups
  <2>. QED
    BY <1>2, <2>1, <2>2, <2>3, <2>4, <2>5 DEF vars, fault, TornInv
<1>. QED
  BY <1>1, <1>2 DEF Next

-----------------------------------------------------------------------------
(* The theorems.                                                           *)

\* If no other fault can take the one pending write, the counters of every fault
\* follow its writes and what is persisted follows the counters.
THEOREM TornInvariant ==
    ASSUME Alone
    PROVE  Spec => []TornInv
<1>1. Init => TornInv
  BY InitInv
<1>2. TornInv /\ [Next]_vars => TornInv'
  BY NextInv
<1>. QED
  BY <1>1, <1>2, PTL DEF Spec

\* Then the fault writes nothing but listed writes of the group it names,
THEOREM OnlyTheTargetIsTorn ==
    ASSUME Alone
    PROVE  Spec => []OnlyTargetPersisted
<1>1. TornInv => OnlyTargetPersisted
  BY DEF TornInv
<1>. QED
  BY <1>1, TornInvariant, PTL

\* and when LazyFS kills itself, all of them are on the disk, for any lists,
\* occurrences and numbers of writes and syncs of any number of files.
THEOREM KilledIsTornAsConfigured ==
    ASSUME Alone
    PROVE  Spec => []TornAsConfigured
<1>1. TornInv => TornAsConfigured
  <2>. SUFFICES ASSUME TornInv, NEW f \in crash_faults
                PROVE  numbers(f) = Range(persist[f]) \ {0}
    BY DEF TornAsConfigured, numbers
  <2>. QED
    BY DEF TornInv, persisted_so_far
<1>. QED
  BY <1>1, TornInvariant, PTL
=============================================================================
