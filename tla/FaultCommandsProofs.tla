------------------------- MODULE FaultCommandsProofs -------------------------
(***************************************************************************)
(* Proofs about FaultCommands and TornOp, for every list of injections and *)
(* commands, any number of commands in one read, and any calls.            *)
(***************************************************************************)
EXTENDS FaultCommands, FiniteSetTheorems, WellFoundedInduction, TLAPS

-----------------------------------------------------------------------------
(* Numbers.                                                                *)

LEMMA Induction ==
    ASSUME NEW S, 0 \in S, \A n \in Nat : n \in S => n + 1 \in S
    PROVE  Nat \subseteq S
<1>. DEFINE T == Nat \ S
<1>. SUFFICES ASSUME T # {} PROVE FALSE
  OBVIOUS
<1>1. IsWellFoundedOn(OpToRel(<, Nat), Nat)
  BY NatLessThanWellFounded, Zenon
<1>2. PICK x \in T : \A y \in T : ~ (<<y, x>> \in OpToRel(<, Nat))
  <2>1. T \subseteq Nat
    OBVIOUS
  <2>. HIDE DEF T
  <2>. QED
  BY <1>1, <2>1, WFMin, Zenon
<1>3. \A y \in T : ~ (y < x)
  BY <1>2 DEF OpToRel
<1>4. x # 0 /\ x - 1 \in Nat
  OBVIOUS
<1>5. x - 1 \in S
  BY <1>3, <1>4
<1>. QED
  BY <1>4, <1>5

LEMMA MaxIs ==
    ASSUME NEW n \in Nat, NEW S \in SUBSET (1 .. n), S # {}
    PROVE  Max(S) \in S /\ \A x \in S : x <= Max(S)
<1>. DEFINE I == {k \in Nat : \A T \in SUBSET (1 .. k) : T # {} => \E x \in T : \A y \in T : y <= x}
<1>1. 0 \in I
  <2>1. \A T \in SUBSET (1 .. 0) : T = {}
    OBVIOUS
  <2>. QED
    BY <2>1
<1>2. ASSUME NEW k \in Nat, k \in I PROVE k + 1 \in I
  <2>. SUFFICES ASSUME NEW T \in SUBSET (1 .. k + 1), T # {}
                PROVE  \E x \in T : \A y \in T : y <= x
    OBVIOUS
  <2>1. CASE k + 1 \in T
    BY <2>1
  <2>2. CASE k + 1 \notin T
    <3>1. T \in SUBSET (1 .. k)
      BY <2>2
    <3>. QED
      BY <1>2, <3>1
  <2>. QED
    BY <2>1, <2>2
<1>3. n \in I
  <2>. HIDE DEF I
  <2>. QED
    BY <1>1, <1>2, Induction
<1>4. \E x \in S : \A y \in S : x >= y
  BY <1>3
<1>. QED
  BY <1>4 DEF Max

LEMMA MinIs ==
    ASSUME NEW S \in SUBSET Nat, S # {}
    PROVE  Min(S) \in S /\ \A x \in S : Min(S) <= x
<1>1. IsWellFoundedOn(OpToRel(<, Nat), Nat)
  BY NatLessThanWellFounded, Zenon
<1>2. PICK x \in S : \A y \in S : ~ (<<y, x>> \in OpToRel(<, Nat))
  BY <1>1, WFMin, Zenon
<1>3. \A y \in S : ~ (y < x)
  BY <1>2 DEF OpToRel
<1>4. \A y \in S : x <= y
  BY <1>3
<1>. QED
  BY <1>4 DEF Min

\* The sums of the first values of a function.
LEMMA Sums ==
    ASSUME NEW more \in [Nat -> Nat]
    PROVE  \E f \in [Nat -> Nat] : f[0] = 0 /\ \A n \in Nat : f[n + 1] = f[n] + more[n + 1]
<1>. DEFINE upto(n, f) == f \in [0 .. n -> Nat] /\ f[0] = 0
                          /\ \A k \in 0 .. n - 1 : f[k + 1] = f[k] + more[k + 1]
            I == {n \in Nat : \E f : upto(n, f)}
<1>1. 0 \in I
  <2>1. upto(0, [k \in 0 .. 0 |-> 0])
    OBVIOUS
  <2>. QED
    BY <2>1
<1>2. ASSUME NEW n \in Nat, n \in I PROVE n + 1 \in I
  <2>1. PICK f : upto(n, f)
    BY <1>2
  <2>. DEFINE g == [k \in 0 .. n + 1 |-> IF k = n + 1 THEN f[n] + more[n + 1] ELSE f[k]]
  <2>2. upto(n + 1, g)
    <3>1. f[n] + more[n + 1] \in Nat
      BY <2>1
    <3>2. g \in [0 .. n + 1 -> Nat] /\ g[0] = 0
      <4>1. \A k \in 0 .. n + 1 : k # n + 1 => k \in 0 .. n /\ f[k] \in Nat
        BY <2>1
      <4>2. 0 \in 0 .. n + 1 /\ 0 # n + 1
        OBVIOUS
      <4>3. g \in [0 .. n + 1 -> Nat]
        BY <3>1, <4>1
      <4>. QED
        BY <2>1, <4>2, <4>3
    <3>3. ASSUME NEW k \in 0 .. (n + 1) - 1 PROVE g[k + 1] = g[k] + more[k + 1]
      <4>1. CASE k = n
        BY <2>1, <4>1
      <4>2. CASE k # n
        BY <2>1, <4>2
      <4>. QED
        BY <4>1, <4>2
    <3>. QED
      BY <3>2, <3>3
  <2>3. \E e : upto(n + 1, e)
    <3>. HIDE DEF upto, g
    <3>. QED
      BY <2>2
  <2>. HIDE DEF upto
  <2>. QED
    BY <2>3
<1>3. \A n \in Nat : n \in I
  <2>. HIDE DEF I
  <2>. QED
    BY <1>1, <1>2, Induction
<1>4. PICK F : \A n \in Nat : upto(n, F[n])
  <2>1. \A n \in Nat : \E f : upto(n, f)
    BY <1>3
  <2>. DEFINE F == [n \in Nat |-> CHOOSE f : upto(n, f)]
  <2>2. \A n \in Nat : F[n] = CHOOSE f : upto(n, f)
    OBVIOUS
  <2>3. \A n \in Nat : upto(n, CHOOSE f : upto(n, f))
    <3>. TAKE n \in Nat
    <3>1. PICK f : upto(n, f)
      BY <2>1
    <3>. HIDE DEF upto
    <3>. QED
      BY <3>1
  <2>. HIDE DEF upto, F
  <2>. QED
    BY <2>2, <2>3
<1>5. \A n \in Nat : \A k \in 0 .. n - 1 : F[n][k + 1] = F[n][k] + more[k + 1]
  BY <1>4
<1>6. \A n \in Nat : F[n] \in [0 .. n -> Nat] /\ F[n][0] = 0
  BY <1>4
<1>. HIDE DEF upto
<1>7. \A n \in Nat : \A k \in 0 .. n : F[n + 1][k] = F[n][k]
  <2>. TAKE n \in Nat
  <2>. DEFINE J == {k \in Nat : k <= n => F[n + 1][k] = F[n][k]}
  <2>1. 0 \in J
    <3>1. n + 1 \in Nat
      OBVIOUS
    <3>2. F[n + 1][0] = 0 /\ F[n][0] = 0
      BY <1>6, <3>1
    <3>. QED
      BY <3>2
  <2>2. ASSUME NEW k \in Nat, k \in J PROVE k + 1 \in J
    <3>. SUFFICES ASSUME k + 1 <= n PROVE F[n + 1][k + 1] = F[n][k + 1]
      OBVIOUS
    <3>1. F[n + 1][k + 1] = F[n + 1][k] + more[k + 1] /\ F[n][k + 1] = F[n][k] + more[k + 1]
      <4>1. k \in 0 .. (n + 1) - 1 /\ k \in 0 .. n - 1
        OBVIOUS
      <4>. QED
        BY <1>5, <4>1
    <3>. QED
      BY <2>2, <3>1
  <2>3. Nat \subseteq J
    <3>. HIDE DEF J
    <3>. QED
      BY <2>1, <2>2, Induction
  <2>. QED
    BY <2>3
<1>. DEFINE h == [n \in Nat |-> F[n][n]]
<1>8. h \in [Nat -> Nat] /\ h[0] = 0
  BY <1>6
<1>9. ASSUME NEW n \in Nat PROVE h[n + 1] = h[n] + more[n + 1]
  <2>1. F[n + 1][n + 1] = F[n + 1][n] + more[n + 1]
    BY <1>5
  <2>2. F[n + 1][n] = F[n][n]
    BY <1>7
  <2>. QED
    BY <2>1, <2>2
<1>. QED
  BY <1>8, <1>9

LEMMA Times ==
    ASSUME NEW a \in Int, NEW b \in Int, NEW c \in Nat, a <= b
    PROVE  a * c <= b * c
OBVIOUS

LEMMA Division ==
    ASSUME NEW m \in Nat, NEW n \in Nat \ {0}
    PROVE  /\ m \div n \in Nat /\ m % n \in 0 .. n - 1
           /\ m = n * (m \div n) + (m % n)
OBVIOUS

-----------------------------------------------------------------------------
(* The commands.                                                           *)

LEMMA Commands ==
    ASSUME NEW s \in Scenarios
    PROVE  /\ Len(s.commands) \in Nat /\ DOMAIN s.commands = 1 .. Len(s.commands)
           /\ \A i \in 1 .. Len(s.commands) :
                  s.commands[i] \in Command /\ CommandOK(s.commands[i])
           /\ s.commands \in Seq(ToSet(s.commands))
<1>1. s.commands \in Seq({c \in Command : CommandOK(c)})
  BY FaultCommandsAssumption
<1>2. \A i \in 1 .. Len(s.commands) : s.commands[i] \in {c \in Command : CommandOK(c)}
  BY <1>1
<1>. HIDE DEF Command, CommandOK
<1>. QED
  BY <1>1, <1>2 DEF ToSet

LEMMA CommandsSent ==
    ASSUME NEW s \in Scenarios, NEW n \in 0 .. Len(s.commands)
    PROVE  ToSet(SubSeq(s.commands, 1, n)) = {s.commands[i] : i \in 1 .. n}
<1>. DEFINE t == SubSeq(s.commands, 1, n)
<1>1. s.commands \in Seq(ToSet(s.commands)) /\ n <= Len(s.commands) /\ n \in Nat
  BY Commands
<1>2. DOMAIN t = 1 .. n /\ \A i \in 1 .. n : t[i] = s.commands[i]
  BY <1>1
<1>. HIDE DEF t
<1>3. ToSet(t) = {s.commands[i] : i \in 1 .. n}
  BY <1>2 DEF ToSet
<1>. QED
  BY <1>3 DEF t

\* The commands of the FIFO were sent, and each was sent once.
FifoInv ==
    /\ scenario \in Scenarios
    /\ sent \in 0 .. Len(scenario.commands)
    /\ fifo \in Seq(commands_sent) /\ Len(fifo) <= sent

\* What sending one more command changes.
LEMMA SendStep ==
    ASSUME FifoInv, Send
    PROVE  FifoInv' /\ commands_sent \subseteq commands_sent'
<1>1. commands_sent = {scenario.commands[i] : i \in 1 .. sent}
  BY CommandsSent DEF FifoInv, commands_sent
<1>2. /\ sent' \in 0 .. Len(scenario.commands) /\ sent' = sent + 1 /\ sent \in Nat
      /\ scenario' = scenario
  BY Commands DEF FifoInv, Send
<1>3. commands_sent' = {scenario.commands[i] : i \in 1 .. sent + 1}
  BY <1>2, CommandsSent DEF FifoInv, commands_sent
<1>4. commands_sent \subseteq commands_sent'
  BY <1>1, <1>3, <1>2
<1>5. scenario.commands[sent + 1] \in commands_sent'
  BY <1>2, <1>3
<1>6. fifo' \in Seq(commands_sent') /\ Len(fifo') = Len(fifo) + 1
  <2>1. fifo \in Seq(commands_sent')
    BY <1>4 DEF FifoInv
  <2>2. fifo' = Append(fifo, scenario.commands[sent + 1])
    BY DEF Send
  <2>. HIDE DEF commands_sent
  <2>. QED
    BY <2>1, <2>2, <1>5
<1>. QED
  BY <1>2, <1>4, <1>6 DEF FifoInv

\* The batch is the beginning of the FIFO, and is not empty; the rest stays.
LEMMA Reading ==
    ASSUME FifoInv, read
    PROVE  /\ batch \in Seq(commands_sent) /\ Len(batch) \in 1 .. Len(fifo)
           /\ \A i \in 1 .. Len(batch) : batch[i] = fifo[i] /\ batch[i] \in commands_sent
           /\ fifo' \in Seq(commands_sent) /\ Len(fifo') = Len(fifo) - Len(batch)
           /\ \A i \in 1 .. Len(fifo') : fifo'[i] = fifo[i + Len(batch)]
<1>. DEFINE n == IF Len(fifo) < MaxRead THEN Len(fifo) ELSE MaxRead
<1>1. fifo \in Seq(commands_sent) /\ Len(fifo) \in Nat /\ fifo # <<>>
  BY DEF FifoInv, read
<1>2. n \in 1 .. Len(fifo)
  BY <1>1, FaultCommandsAssumption
<1>3. batch = SubSeq(fifo, 1, n)
  BY DEF batch
<1>4. fifo' = SubSeq(fifo, Len(batch) + 1, Len(fifo))
  BY DEF read
<1>. HIDE DEF n
<1>5. /\ batch \in Seq(commands_sent) /\ Len(batch) = n
      /\ \A i \in 1 .. n : batch[i] = fifo[i]
  BY <1>1, <1>2, <1>3
<1>. QED
  BY <1>1, <1>2, <1>4, <1>5

LEMMA ReadStep ==
    ASSUME FifoInv, read, UNCHANGED <<scenario, sent>>
    PROVE  FifoInv' /\ commands_sent' = commands_sent
BY Reading DEF FifoInv, commands_sent

LEMMA FifoStep ==
    ASSUME FifoInv, [Next]_vars
    PROVE  FifoInv' /\ commands_sent \subseteq commands_sent'
<1>1. CASE Send
  BY <1>1, SendStep
<1>2. CASE ReadCrash \/ ReadTornOp \/ ReadTornSeq \/ ReadClear \/ ReadCheckpoint \/ ReadOther
  BY <1>2, ReadStep
     DEF ReadCrash, ReadTornOp, ReadTornSeq, ReadClear, ReadCheckpoint, ReadOther, user
<1>3. CASE UNCHANGED <<scenario, sent, fifo>>
  BY <1>3 DEF FifoInv, commands_sent
<1>4. CASE OpenFifos \/ Clear \/ Notify \/ Checkpoint \/ UNCHANGED vars
  BY <1>3, <1>4 DEF OpenFifos, Clear, Notify, Checkpoint, user, vars
<1>5. CASE (\E c \in scenario.calls : Call(c) \/ BeginHost(c)) \/ GoOn
  BY <1>3, <1>5 DEF Call, BeginHost, GoOn, Fill, EndHost, user
<1>. QED
  BY <1>1, <1>2, <1>4, <1>5 DEF Next, Worker

LEMMA FifoInit == ASSUME Init PROVE FifoInv
<1>1. scenario \in Scenarios /\ sent = 0 /\ fifo = <<>>
  BY DEF Init
<1>. QED
  BY <1>1, Commands DEF FifoInv

\* The calls under way that run lfs_write inside are calls of the application.
HostsInv ==
    hosts \subseteq [call : {c \in scenario.calls : c.fill # 0}, filled : BOOLEAN]

AppStep == (\E c \in scenario.calls : Call(c) \/ BeginHost(c)) \/ GoOn

\* The runs of handlers, as done has them.
Runs ==
    [op : {"write"} \cup {c.op : c \in scenario.calls}, file : {c.from : c \in scenario.calls},
     size : {c.size : c \in scenario.calls} \cup {c.fill : c \in scenario.calls},
     inner : BOOLEAN]

\* A handler at its first trigger, or at its work and its last one.
handler(op, p, q, size, inner) ==
    \/ /\ trigger("before", op, p, q, FALSE)
       /\ UNCHANGED <<counter, torn, persisted, unsynced, done>>
    \/ work(op, p, q, size, inner)

\* What a step of the application does, be it inside of a call or not.
LEMMA Handlers ==
    ASSUME scenario \in Scenarios, HostsInv, AppStep
    PROVE  /\ UNCHANGED <<fault, tables, user, fifo, worker, leftover>> /\ running
           /\ HostsInv'
           /\ \E op, p, q, size, inner :
                 /\ handler(op, p, q, size, inner)
                 /\ op = "write" => p \in Files /\ size \in Sizes
                 /\ [op |-> op, file |-> p, size |-> size, inner |-> inner] \in Runs
<1>1. \A c \in scenario.calls :
          /\ c.op = "write" => c.from \in Files /\ c.size \in Sizes
          /\ c.fill # 0 => c.from \in Files /\ c.fill \in Sizes
  BY FaultCommandsAssumption
<1>2. ASSUME NEW op, NEW p, NEW q, NEW size, NEW inner, run(op, p, q, size, inner)
      PROVE  handler(op, p, q, size, inner)
  BY <1>2 DEF run, handler
<1>3. ASSUME NEW c \in scenario.calls, NEW inner \in BOOLEAN
      PROVE  [op |-> c.op, file |-> c.from, size |-> c.size, inner |-> inner] \in Runs
  BY DEF Runs
<1>4. CASE \E c \in scenario.calls : Call(c)
  <2>1. PICK c \in scenario.calls : Call(c)
    BY <1>4
  <2>2. handler(c.op, c.from, c.to, c.size, FALSE)
    BY <1>2, <2>1 DEF Call
  <2>3. /\ UNCHANGED <<fault, tables, user, fifo, worker, leftover>> /\ running
        /\ UNCHANGED <<scenario, hosts>>
    BY <2>1 DEF Call, begin, user
  <2>4. HostsInv'
    BY <2>3 DEF HostsInv
  <2>. QED
    BY <1>1, <1>3, <2>2, <2>3, <2>4
<1>5. CASE \E c \in scenario.calls : BeginHost(c)
  <2>1. PICK c \in scenario.calls : BeginHost(c)
    BY <1>5
  <2>2. handler(c.op, c.from, c.to, c.size, FALSE)
    BY <2>1 DEF BeginHost, handler
  <2>3. /\ UNCHANGED <<fault, tables, user, fifo, worker, leftover>> /\ running
        /\ scenario' = scenario /\ c.fill # 0
        /\ hosts' = hosts \cup {[call |-> c, filled |-> FALSE]}
    BY <2>1 DEF BeginHost, begin, user
  <2>4. HostsInv'
    <3>. DEFINE H == [call : {e \in scenario.calls : e.fill # 0}, filled : BOOLEAN]
    <3>1. [call |-> c, filled |-> FALSE] \in H /\ hosts \subseteq H
      BY <2>3 DEF HostsInv
    <3>. HIDE DEF H
    <3>2. hosts' \subseteq H
      BY <2>3, <3>1
    <3>. QED
      BY <2>3, <3>2 DEF HostsInv, H
  <2>. QED
    BY <1>1, <1>3, <2>2, <2>3, <2>4
<1>6. CASE GoOn
  <2>1. PICK h \in hosts : Fill(h) \/ EndHost(h)
    BY <1>6 DEF GoOn
  <2>. DEFINE c == h.call
  <2>2. /\ c \in scenario.calls /\ c.fill # 0
        /\ [h EXCEPT !.filled = TRUE] \in [call : {e \in scenario.calls : e.fill # 0},
                                           filled : BOOLEAN]
    BY DEF HostsInv
  <2>3. UNCHANGED <<fault, tables, user, fifo, worker, leftover>> /\ running
    BY <2>1 DEF Fill, EndHost
  <2>4. scenario' = scenario /\ hosts' \subseteq hosts \cup {[h EXCEPT !.filled = TRUE]}
    BY <2>1, <2>3 DEF Fill, EndHost, user
  <2>5. HostsInv'
    BY <2>2, <2>4 DEF HostsInv
  <2>6. CASE Fill(h)
    <3>1. handler("write", c.from, NoFile, c.fill, TRUE)
      BY <1>2, <2>6 DEF Fill
    <3>2. [op |-> "write", file |-> c.from, size |-> c.fill, inner |-> TRUE] \in Runs
      BY <2>2 DEF Runs
    <3>. QED
      BY <1>1, <2>2, <2>3, <2>5, <3>1, <3>2
  <2>7. CASE EndHost(h)
    <3>1. handler(c.op, c.from, c.to, c.size, FALSE)
      BY <2>7 DEF EndHost, handler
    <3>. HIDE DEF c
    <3>. QED
      BY <1>1, <1>3, <2>2, <2>3, <2>5, <3>1
  <2>. QED
    BY <2>1, <2>6, <2>7
<1>. QED
  BY <1>4, <1>5, <1>6 DEF AppStep

\* The steps of the worker and of the users leave the calls alone.
LEMMA OtherSteps ==
    ASSUME [Next]_vars
    PROVE  \/ AppStep
           \/ /\ Worker \/ Send \/ UNCHANGED vars
              /\ UNCHANGED <<scenario, hosts, done, killer, counter, torn, persisted, killed>>
<1>1. CASE Worker
  BY <1>1
     DEF Worker, OpenFifos, ReadCrash, ReadTornOp, ReadTornSeq, ReadClear, Clear, Notify,
         ReadCheckpoint, Checkpoint, ReadOther, user, torn_vars
<1>2. CASE Send \/ UNCHANGED vars
  BY <1>2 DEF Send, vars, user, torn_vars
<1>. QED
  BY <1>1, <1>2 DEF Next, AppStep

LEMMA HostsStep ==
    ASSUME scenario \in Scenarios, HostsInv, [Next]_vars
    PROVE  HostsInv' /\ scenario' = scenario
<1>1. CASE AppStep
  BY <1>1, Handlers DEF user
<1>2. CASE UNCHANGED <<scenario, hosts>>
  BY <1>2 DEF HostsInv
<1>. QED
  BY <1>1, <1>2, OtherSteps

-----------------------------------------------------------------------------
(* The notice of a clear.                                                  *)

is_clear(i) == fifo[i].kind = "clear-cache"

\* Where users wait for the notice, a clear that is in the FIFO is the last command
\* there and is awaited; once the worker has read it, nothing comes behind it.
NoticeInv ==
    /\ FifoInv
    /\ worker \in {"opening", "reading", "clearing", "notifying", "syncing"}
    /\ leftover => awaiting
    /\ scenario.notifier =>
          /\ worker # "opening" => scenario.reader
          /\ scenario.reader => \A i \in 1 .. Len(fifo) : is_clear(i) => awaiting /\ i = Len(fifo)
          /\ worker \in {"clearing", "notifying"} => awaiting /\ fifo = <<>>
          /\ worker = "notifying" => ~leftover
    /\ ~scenario.notifier => worker # "notifying"

LEMMA NoticeInit == ASSUME Init PROVE NoticeInv
<1>1. fifo = <<>> /\ worker = "opening" /\ awaiting = FALSE /\ leftover = FALSE
  BY DEF Init
<1>2. Len(fifo) = 0
  BY <1>1
<1>. QED
  BY <1>1, <1>2, FifoInit DEF NoticeInv

\* A read leaves a clear that is awaited at the end of the FIFO, and a read of one
\* clear leaves nothing.
LEMMA NoticeRead ==
    ASSUME NoticeInv, read, scenario.notifier
    PROVE  /\ \A i \in 1 .. Len(fifo') :
                  fifo'[i].kind = "clear-cache" => awaiting /\ i = Len(fifo')
           /\ exactly("clear-cache") => awaiting /\ fifo' = <<>>
<1>1. /\ Len(batch) \in 1 .. Len(fifo) /\ Len(fifo) \in Nat
      /\ fifo' \in Seq(commands_sent) /\ Len(fifo') = Len(fifo) - Len(batch)
      /\ \A i \in 1 .. Len(fifo') : fifo'[i] = fifo[i + Len(batch)]
      /\ \A i \in 1 .. Len(batch) : batch[i] = fifo[i]
  BY Reading DEF NoticeInv, FifoInv
<1>2. \A i \in 1 .. Len(fifo) : is_clear(i) => awaiting /\ i = Len(fifo)
  BY DEF NoticeInv, read
<1>3. ASSUME NEW i \in 1 .. Len(fifo'), fifo'[i].kind = "clear-cache"
      PROVE  awaiting /\ i = Len(fifo')
  <2>1. i + Len(batch) \in 1 .. Len(fifo) /\ is_clear(i + Len(batch))
    BY <1>1, <1>3 DEF is_clear
  <2>. QED
    BY <1>1, <1>2, <2>1
<1>4. ASSUME exactly("clear-cache") PROVE awaiting /\ fifo' = <<>>
  <2>1. Len(batch) = 1 /\ is_clear(1)
    BY <1>1, <1>4 DEF exactly, is_clear
  <2>2. awaiting /\ Len(fifo) = 1
    BY <1>1, <1>2, <2>1
  <2>. QED
    BY <1>1, <2>1, <2>2
<1>. QED
  BY <1>3, <1>4

LEMMA NoticeStep == ASSUME NoticeInv, [Next]_vars PROVE NoticeInv'
<1>0. FifoInv /\ FifoInv'
  BY FifoStep DEF NoticeInv
<1>1. CASE OpenFifos
  BY <1>0, <1>1 DEF OpenFifos, NoticeInv, user, is_clear
<1>2. CASE ReadClear
  <2>1. /\ worker = "reading" /\ worker' = "clearing" /\ read /\ exactly("clear-cache")
        /\ UNCHANGED <<scenario, awaiting, leftover>>
    BY <1>2 DEF ReadClear, read, user
  <2>2. scenario.notifier => awaiting /\ fifo' = <<>>
    BY <2>1, NoticeRead
  <2>3. fifo' = <<>> => Len(fifo') = 0
    OBVIOUS
  <2>. QED
    BY <1>0, <2>1, <2>2, <2>3 DEF NoticeInv
<1>8. CASE ReadCrash \/ ReadTornOp \/ ReadTornSeq \/ ReadOther \/ ReadCheckpoint
  <2>1. /\ UNCHANGED <<scenario, awaiting, leftover>> /\ read /\ worker = "reading"
        /\ worker' \in {"reading", "syncing"}
    BY <1>8 DEF ReadCrash, ReadTornOp, ReadTornSeq, ReadOther, ReadCheckpoint, user, read
  <2>2. scenario.notifier =>
            \A i \in 1 .. Len(fifo') :
                fifo'[i].kind = "clear-cache" => awaiting /\ i = Len(fifo')
    BY <2>1, NoticeRead
  <2>. QED
    BY <1>0, <2>1, <2>2 DEF NoticeInv, is_clear
<1>3. CASE Clear
  BY <1>0, <1>3 DEF Clear, NoticeInv, user, is_clear
<1>9. CASE Checkpoint
  BY <1>0, <1>9 DEF Checkpoint, NoticeInv, user, is_clear
<1>4. CASE Notify
  <2>1. /\ UNCHANGED <<scenario, fifo, leftover>> /\ worker = "notifying"
        /\ worker' = "reading" /\ awaiting' = FALSE
    BY <1>4 DEF Notify
  <2>2. scenario.notifier /\ fifo = <<>> /\ ~leftover
    BY <2>1 DEF NoticeInv
  <2>3. Len(fifo') = 0
    BY <2>1, <2>2
  <2>. QED
    BY <1>0, <2>1, <2>2, <2>3 DEF NoticeInv
<1>5. CASE Send
  <2>. DEFINE c == scenario.commands[sent + 1]
  <2>1. /\ UNCHANGED <<scenario, worker>> /\ ~awaiting
        /\ fifo' = Append(fifo, c)
        /\ awaiting' = (c.kind = "clear-cache" /\ scenario.notifier /\ scenario.reader)
        /\ leftover' = (awaiting' /\ unsynced)
    BY <1>5 DEF Send
  <2>. HIDE DEF c
  <2>2. /\ Len(fifo') = Len(fifo) + 1 /\ Len(fifo) \in Nat
        /\ fifo'[Len(fifo) + 1] = c
        /\ \A i \in 1 .. Len(fifo) : fifo'[i] = fifo[i]
    BY <1>0, <2>1 DEF FifoInv
  <2>3. ASSUME scenario.notifier, scenario.reader, NEW i \in 1 .. Len(fifo'),
               fifo'[i].kind = "clear-cache"
        PROVE  awaiting' /\ i = Len(fifo')
    <3>1. i \notin 1 .. Len(fifo)
      BY <2>1, <2>2, <2>3 DEF NoticeInv, is_clear
    <3>2. i = Len(fifo) + 1
      BY <2>2, <2>3, <3>1
    <3>3. c.kind = "clear-cache"
      BY <2>2, <2>3, <3>2
    <3>. QED
      BY <2>1, <2>2, <2>3, <3>2, <3>3
  <2>. QED
    BY <1>0, <2>1, <2>3 DEF NoticeInv, is_clear
<1>6. CASE (\E c \in scenario.calls : Call(c) \/ BeginHost(c)) \/ GoOn
  <2>1. UNCHANGED <<scenario, sent, awaiting, fifo, worker, leftover>>
    BY <1>6 DEF Call, BeginHost, GoOn, Fill, EndHost, user
  <2>. QED
    BY <1>0, <2>1 DEF NoticeInv, is_clear
<1>7. CASE UNCHANGED vars
  BY <1>0, <1>7 DEF vars, user, NoticeInv, is_clear
<1>. QED
  BY <1>1, <1>2, <1>3, <1>4, <1>5, <1>6, <1>7, <1>8, <1>9 DEF Next, Worker

\* A user who has the notice of a clear finds nothing in the cache from before it:
\* the worker notifies after lfs_clear_all_cache has returned.
THEOREM Notice == Spec => []NoticeMeansCleared
<1>1. Init => NoticeInv
  BY NoticeInit
<1>2. NoticeInv /\ [Next]_vars => NoticeInv'
  BY NoticeStep
<1>3. NoticeInv => NoticeMeansCleared
  BY DEF NoticeInv, NoticeMeansCleared
<1>. QED
  BY <1>1, <1>2, <1>3, PTL DEF Spec

-----------------------------------------------------------------------------
(* The buffer of one read.                                                 *)

\* A cut command keeps its kind and its keys; its last key has no good value, an
\* expression that matches nothing, or no file.
LEMMA CutCommand ==
    ASSUME NEW c \in Command
    PROVE  /\ cut(c) \in Command
           /\ cut(c).kind = c.kind /\ cut(c).keys = c.keys /\ c.bad \subseteq cut(c).bad
           /\ \A key \in {"op", "timing", "persist", "parts", "parts_bytes", "occurrence"} :
                  cut(c)[key] = c[key]
           /\ cut(c).from \in {c.from, {}} /\ cut(c).to \in {c.to, {}}
           /\ cut(c).file \in {c.file, NoFile}
           /\ c.keys = <<>> => "name" \in cut(c).bad
           /\ c.keys # <<>> =>
                 LET key == Last(c.keys)
                 IN  /\ key \in given(c)
                     /\ key = "from" => cut(c).from \in {{}, BadRgx}
                     /\ key = "to" => cut(c).to \in {{}, BadRgx}
                     /\ key = "file" => cut(c).file = NoFile
                     /\ IF key \in {"from", "to", "file"} THEN cut(c).bad = c.bad
                                                          ELSE key \in cut(c).bad
<1>. DEFINE key == IF c.keys = <<>> THEN "name" ELSE Last(c.keys)
<1>1. key \in Keys \cup {"name"} /\ (c.keys # <<>> => key \in given(c))
  <2>1. c.keys \in Seq(Keys)
    BY DEF Command
  <2>2. CASE c.keys # <<>>
    <3>1. Len(c.keys) \in DOMAIN c.keys /\ c.keys[Len(c.keys)] \in Keys
      BY <2>1, <2>2
    <3>. QED
      BY <2>2, <3>1 DEF Last, given, ToSet
  <2>3. CASE c.keys = <<>>
    <3>1. key = "name"
      BY <2>3
    <3>. QED
      BY <2>3, <3>1
  <2>. QED
    BY <2>2, <2>3
<1>2. CASE key = "from"
  <2>. DEFINE r == IF c.from = BadRgx THEN BadRgx ELSE {}
  <2>1. cut(c) = [c EXCEPT !["from"] = r]
    BY <1>2 DEF cut
  <2>2. r \in Rgx /\ r \in {{}, BadRgx} /\ r \in {c.from, {}}
    BY DEF Rgx
  <2>. HIDE DEF r
  <2>. QED
    BY <1>1, <1>2, <2>1, <2>2 DEF Command, given
<1>3. CASE key = "to"
  <2>. DEFINE r == IF c.to = BadRgx THEN BadRgx ELSE {}
  <2>1. cut(c) = [c EXCEPT !["to"] = r]
    BY <1>3 DEF cut
  <2>2. r \in Rgx /\ r \in {{}, BadRgx} /\ r \in {c.to, {}}
    BY DEF Rgx
  <2>. HIDE DEF r
  <2>. QED
    BY <1>1, <1>3, <2>1, <2>2 DEF Command, given
<1>4. CASE key = "file"
  <2>1. cut(c) = [c EXCEPT !.file = NoFile]
    BY <1>4 DEF cut
  <2>. QED
    BY <1>1, <1>4, <2>1 DEF Command, Rgx, given, Paths
<1>5. CASE key \notin {"from", "to", "file"}
  <2>1. cut(c) = [c EXCEPT !.bad = @ \cup {key}]
    BY <1>5 DEF cut
  <2>. HIDE DEF key
  <2>2. /\ cut(c) \in Command /\ key \in cut(c).bad /\ c.bad \subseteq cut(c).bad
        /\ \A k \in {"kind", "keys", "op", "timing", "from", "to", "file", "persist",
                     "parts", "parts_bytes", "occurrence"} : cut(c)[k] = c[k]
    <3>. DEFINE bad == c.bad \cup {key}
    <3>1. bad \in SUBSET (Keys \cup {"name"}) /\ key \in bad /\ c.bad \subseteq bad
      BY <1>1 DEF Command
    <3>2. cut(c) = [c EXCEPT !.bad = bad]
      BY <2>1
    <3>. HIDE DEF bad
    <3>3. cut(c) \in Command /\ cut(c).bad = bad
      BY <3>1, <3>2 DEF Command
    <3>4. \A k \in {"kind", "keys", "op", "timing", "from", "to", "file", "persist",
                    "parts", "parts_bytes", "occurrence"} : cut(c)[k] = c[k]
      BY <3>2 DEF Command
    <3>. QED
      BY <3>1, <3>3, <3>4
  <2>. QED
    BY <1>1, <1>5, <2>2 DEF key
<1>. QED
  BY <1>2, <1>3, <1>4, <1>5

\* The value that stays is a good one of the last command that has one.
LEMMA ValueOf ==
    ASSUME NEW n \in Nat, NEW b, DOMAIN b = 1 .. n, NEW key, NEW default
    PROVE  LET with(i) == key \in given(b[i]) /\ key \notin b[i].bad
           IN  \/ value(b, key, default) = default /\ \A i \in 1 .. n : ~with(i)
               \/ \E i \in 1 .. n : /\ with(i) /\ value(b, key, default) = b[i][key]
                                    /\ \A j \in 1 .. n : with(j) => j <= i
<1>. DEFINE W == {i \in 1 .. n : key \in given(b[i]) /\ key \notin b[i].bad}
<1>1. value(b, key, default) = IF W = {} THEN default ELSE b[Max(W)][key]
  BY DEF value
<1>2. CASE W = {}
  BY <1>1, <1>2
<1>3. CASE W # {}
  <2>1. Max(W) \in W /\ \A j \in W : j <= Max(W)
    <3>1. W \in SUBSET (1 .. n)
      OBVIOUS
    <3>. HIDE DEF W
    <3>. QED
      BY <1>3, <3>1, MaxIs
  <2>2. value(b, key, default) = b[Max(W)][key]
    BY <1>1, <1>3
  <2>3. Max(W) \in 1 .. n /\ key \in given(b[Max(W)]) /\ key \notin b[Max(W)].bad
    BY <2>1
  <2>4. \A j \in 1 .. n : key \in given(b[j]) /\ key \notin b[j].bad => j <= Max(W)
    BY <2>1
  <2>. QED
    BY <2>2, <2>3, <2>4
<1>. QED
  BY <1>2, <1>3

\* What a read finds in its buffer: the last command whole, the others cut.
LEMMA Buffer ==
    ASSUME FifoInv, read
    PROVE  LET b == buffer(batch)
               n == Len(batch)
           IN  /\ n \in Nat \ {0} /\ DOMAIN b = 1 .. n /\ b[n] = batch[n]
               /\ \A i \in 1 .. n :
                     /\ batch[i] \in commands_sent
                     /\ batch[i] \in Command /\ CommandOK(batch[i])
                     /\ i # n => b[i] = cut(batch[i])
                     /\ b[i] \in Command
                     /\ b[i].kind = batch[i].kind /\ b[i].keys = batch[i].keys
                     /\ batch[i].bad \subseteq b[i].bad
                     /\ given(b[i]) = given(batch[i])
<1>1. /\ Len(batch) \in Nat \ {0} /\ DOMAIN batch = 1 .. Len(batch)
      /\ \A i \in 1 .. Len(batch) : batch[i] \in commands_sent
  BY Reading DEF FifoInv
<1>2. \A c \in commands_sent : c \in Command /\ CommandOK(c)
  <2>1. commands_sent = {scenario.commands[i] : i \in 1 .. sent}
    BY CommandsSent DEF FifoInv, commands_sent
  <2>2. \A i \in 1 .. Len(scenario.commands) :
            scenario.commands[i] \in Command /\ CommandOK(scenario.commands[i])
    BY Commands DEF FifoInv
  <2>3. 1 .. sent \subseteq 1 .. Len(scenario.commands)
    BY Commands DEF FifoInv
  <2>. HIDE DEF Command, CommandOK, commands_sent
  <2>. QED
    BY <2>1, <2>2, <2>3
<1>3. /\ DOMAIN buffer(batch) = 1 .. Len(batch)
      /\ \A i \in 1 .. Len(batch) :
            buffer(batch)[i] = IF i = Len(batch) THEN batch[i] ELSE cut(batch[i])
  BY <1>1 DEF buffer
<1>. HIDE DEF Command, CommandOK
<1>4. ASSUME NEW i \in 1 .. Len(batch)
      PROVE  LET b == buffer(batch)
             IN  /\ b[i] \in Command
                 /\ b[i].kind = batch[i].kind /\ b[i].keys = batch[i].keys
                 /\ batch[i].bad \subseteq b[i].bad
  <2>1. batch[i] \in Command
    BY <1>1, <1>2
  <2>2. CASE i = Len(batch)
    BY <1>3, <2>1, <2>2
  <2>3. CASE i # Len(batch)
    <3>1. buffer(batch)[i] = cut(batch[i])
      BY <1>3, <2>3
    <3>. QED
      BY <2>1, <3>1, CutCommand
  <2>. QED
    BY <2>2, <2>3
<1>. QED
  <2>1. ASSUME NEW i \in 1 .. Len(batch), i # Len(batch)
        PROVE  buffer(batch)[i] = cut(batch[i])
    BY <1>3, <2>1
  <2>2. buffer(batch)[Len(batch)] = batch[Len(batch)]
    <3>1. Len(batch) \in 1 .. Len(batch)
      BY <1>1
    <3>. QED
      BY <1>3, <3>1
  <2>. QED
    BY <1>1, <1>2, <1>3, <1>4, <2>1, <2>2 DEF given

LEMMA ValueOfLast ==
    ASSUME NEW n \in Nat \ {0}, NEW b, DOMAIN b = 1 .. n, NEW key, NEW default,
           key \in given(b[n]), key \notin b[n].bad
    PROVE  value(b, key, default) = b[n][key]
<1>1. n \in 1 .. n
  OBVIOUS
<1>2. PICK i \in 1 .. n : /\ value(b, key, default) = b[i][key]
                          /\ \A j \in 1 .. n :
                                key \in given(b[j]) /\ key \notin b[j].bad => j <= i
  BY <1>1, ValueOf
<1>3. i = n
  BY <1>1, <1>2
<1>. QED
  BY <1>2, <1>3

\* An expression is no word of the code, and only crash commands give one.
LEMMA Expressions ==
    /\ NoRgx \notin Rgx /\ BadRgx # NoRgx
    /\ \A c \in Command :
          CommandOK(c) /\ given(c) \cap {"from", "to", "timing"} # {} => c.kind = "crash"
<1>1. NoRgx \notin Rgx /\ BadRgx # NoRgx
  BY FaultCommandsAssumption DEF Rgx
<1>2. ASSUME NEW c \in Command, CommandOK(c), given(c) \cap {"from", "to", "timing"} # {},
             c.kind # "crash"
      PROVE  FALSE
  <2>1. given(c) \subseteq TornOpKeys \cup TornSeqKeys
    BY <1>2 DEF CommandOK, given, keys_of
  <2>. QED
    BY <1>2, <2>1 DEF TornOpKeys, TornSeqKeys
<1>. QED
  BY <1>1, <1>2

\* What is known of the buffer when its crash fault is taken.
LEMMA CrashValues ==
    ASSUME FifoInv, read, valid_crash(buffer(batch)), NEW key \in {"from", "to"}
    PROVE  LET b == buffer(batch)
               rgx == value(b, key, NoRgx)
           IN  IF rgx = NoRgx
               THEN \A i \in 1 .. Len(batch) : key \notin given(b[i])
               ELSE \E i \in 1 .. Len(batch) :
                       /\ batch[i].kind = "crash" /\ key \in given(b[i])
                       /\ b[i][key] = rgx /\ batch[i].bad = {}
<1>. DEFINE b == buffer(batch)
            n == Len(batch)
<1>1. /\ n \in Nat \ {0} /\ DOMAIN b = 1 .. n
      /\ \A i \in 1 .. n : /\ batch[i] \in Command /\ CommandOK(batch[i])
                           /\ b[i] \in Command /\ b[i].kind = batch[i].kind
                           /\ given(b[i]) = given(batch[i])
                           /\ batch[i].bad \subseteq b[i].bad
                           /\ (i # n => b[i] = cut(batch[i])) /\ b[n] = batch[n]
  BY Buffer
<1>2. \A i \in 1 .. n : {"op", "timing"} \cap b[i].bad = {}
  BY <1>1 DEF valid_crash
<1>. HIDE DEF b, n
<1>3. ASSUME NEW i \in 1 .. n, key \in given(b[i])
      PROVE  batch[i].kind = "crash" /\ batch[i].bad = {} /\ key \notin b[i].bad
  <2>1. batch[i].kind = "crash"
    BY <1>1, <1>3, Expressions
  <2>2. batch[i].bad = {}
    BY <1>1, <1>2, <2>1 DEF CommandOK
  <2>3. CASE i = n
    BY <1>1, <2>1, <2>2, <2>3
  <2>4. CASE i # n
    <3>1. batch[i].keys # <<>> /\ given(batch[i]) \subseteq CrashKeys
      <4>1. given(batch[i]) # {}
        BY <1>1, <1>3
      <4>2. batch[i].keys # <<>>
        BY <4>1 DEF given, ToSet
      <4>. QED
        BY <1>1, <2>1, <4>2 DEF CommandOK, given, keys_of
    <3>2. PICK last \in CrashKeys :
              IF last \in {"from", "to", "file"} THEN cut(batch[i]).bad = batch[i].bad
                                                 ELSE last \in cut(batch[i]).bad
      BY <1>1, <3>1, CutCommand
    <3>. QED
      BY <1>1, <1>2, <2>1, <2>2, <2>4, <3>2 DEF CrashKeys
  <2>. QED
    BY <2>3, <2>4
<1>4. \A i \in 1 .. n : b[i][key] \in Rgx
  BY <1>1 DEF Command
<1>5. LET rgx == value(b, key, NoRgx)
      IN  \/ rgx = NoRgx /\ \A i \in 1 .. n : ~(key \in given(b[i]) /\ key \notin b[i].bad)
          \/ \E i \in 1 .. n : key \in given(b[i]) /\ rgx = b[i][key]
  BY <1>1, ValueOf
<1>. QED
  BY <1>1, <1>3, <1>4, <1>5, Expressions DEF b, n

\* Without an operation in the buffer the last command alone passes the parser and has
\* none: two commands without one are as good as the one that gives the expression.
LEMMA NoOperation ==
    ASSUME FifoInv, read, valid_crash(buffer(batch)), Head(batch).kind = "crash",
           crash_fault(buffer(batch)).op \notin Operations
    PROVE  \E c \in commands_sent : throws(c)
<1>. DEFINE b == buffer(batch)
            n == Len(batch)
            f == crash_fault(b)
<1>2. /\ n \in Nat \ {0} /\ DOMAIN b = 1 .. n /\ b[n] = batch[n]
      /\ \A i \in 1 .. n : /\ batch[i] \in Command /\ CommandOK(batch[i])
                           /\ b[i] \in Command /\ given(b[i]) = given(batch[i])
                           /\ batch[i] \in commands_sent
                           /\ batch[i].bad \subseteq b[i].bad
                           /\ (i # n => b[i] = cut(batch[i]))
  BY Buffer
<1>3. /\ f.op = value(b, "op", "none") /\ f.from = value(b, "from", NoRgx)
      /\ f.to = value(b, "to", NoRgx)
  BY DEF crash_fault
<1>4. \A i \in 1 .. n : {"op", "timing"} \cap b[i].bad = {}
  BY <1>2 DEF valid_crash
<1>5. \A i \in 1 .. n : b[i].op = batch[i].op
  BY <1>2, CutCommand
<1>6. f.from # NoRgx /\ f.to = NoRgx
  BY DEF valid_crash, Operations
<1>. HIDE DEF b, n, f
<1>7. \A i \in 1 .. n : "op" \notin given(batch[i])
  <2>. SUFFICES ASSUME NEW j \in 1 .. n, "op" \in given(batch[j]) PROVE FALSE
    OBVIOUS
  <2>1. "op" \in given(b[j]) /\ "op" \notin b[j].bad
    BY <1>2, <1>4
  <2>2. PICK i \in 1 .. n : "op" \in given(b[i]) /\ f.op = b[i]["op"]
    BY <1>2, <1>3, <2>1, ValueOf
  <2>3. "op" \in given(batch[i]) \ batch[i].bad
    BY <1>2, <1>4, <2>2
  <2>4. batch[i].op \in Operations
    BY <1>2, <2>3 DEF CommandOK, given
  <2>. QED
    BY <1>5, <2>2, <2>4 DEF f, b
<1>8. \A i \in 1 .. n : "to" \notin given(batch[i])
  BY <1>2, <1>3, <1>6, CrashValues DEF b, n
<1>9. PICK i \in 1 .. n :
          batch[i].kind = "crash" /\ "from" \in given(b[i]) /\ batch[i].bad = {}
  BY <1>3, <1>6, CrashValues DEF b, n
<1>. DEFINE c == batch[i]
            one == <<c>>
            k == 1
<1>10. k \in Nat \ {0} /\ DOMAIN one = 1 .. k /\ one[k] = c /\ \A j \in 1 .. k : one[j] = c
  OBVIOUS
<1>11. /\ c \in Command /\ c \in commands_sent /\ c.kind = "crash" /\ c.bad = {}
       /\ "from" \in given(c) /\ "to" \notin given(c) /\ "op" \notin given(c)
  BY <1>2, <1>7, <1>8, <1>9
<1>. HIDE DEF c, one, k
<1>12. value(one, "from", NoRgx) # NoRgx
  <2>1. value(one, "from", NoRgx) = c.from
    BY <1>10, <1>11, ValueOfLast
  <2>. QED
    BY <1>11, <2>1, Expressions DEF Command
<1>13. value(one, "to", NoRgx) = NoRgx /\ value(one, "op", "none") = "none"
  BY <1>10, <1>11, ValueOf
<1>14. valid_crash(one)
  <2>1. \A j \in DOMAIN one : {"op", "timing"} \cap one[j].bad = {}
    BY <1>10, <1>11
  <2>. QED
    BY <1>12, <1>13, <2>1 DEF valid_crash, crash_fault, MultiPath
<1>. QED
  BY <1>11, <1>14 DEF throws, one

\* An expression that does not parse is one of a command, which is whole or cut.
LEMMA BadExpression ==
    ASSUME FifoInv, read, valid_crash(buffer(batch)), NEW key \in {"from", "to"},
           value(buffer(batch), key, NoRgx) = BadRgx
    PROVE  \E c \in commands_sent : throws(c)
<1>. DEFINE b == buffer(batch)
            n == Len(batch)
<1>1. PICK i \in 1 .. n :
          batch[i].kind = "crash" /\ key \in given(b[i]) /\ b[i][key] = BadRgx
  BY CrashValues, Expressions
<1>2. /\ batch[i] \in Command /\ given(b[i]) = given(batch[i]) /\ batch[i] \in commands_sent
      /\ i # n => b[i] = cut(batch[i])
      /\ b[n] = batch[n]
  BY Buffer
<1>3. BadRgx # {}
  BY FaultCommandsAssumption
<1>4. batch[i][key] = BadRgx
  <2>1. CASE i = n
    BY <1>1, <1>2, <2>1
  <2>2. CASE i # n
    <3>1. cut(batch[i]).from \in {batch[i].from, {}} /\ cut(batch[i]).to \in {batch[i].to, {}}
      BY <1>2, CutCommand
    <3>. QED
      BY <1>1, <1>2, <1>3, <2>2, <3>1
  <2>. QED
    BY <2>1, <2>2
<1>. QED
  BY <1>1, <1>2, <1>4 DEF throws

\* A number that is too large is one of the last command that gives its key.
LEMMA LargeNumber ==
    ASSUME FifoInv, read, out_of_range(buffer(batch)),
           NEW kind \in {"torn-op", "torn-seq"}, NEW keys,
           valid_torn(buffer(batch), kind, keys)
    PROVE  \E c \in commands_sent : throws(c)
<1>. DEFINE b == buffer(batch)
            n == Len(batch)
<1>1. /\ n \in Nat \ {0} /\ DOMAIN b = 1 .. n
      /\ \A i \in 1 .. n : /\ batch[i] \in Command /\ b[i] \in Command
                           /\ given(b[i]) = given(batch[i])
                           /\ b[i].kind = batch[i].kind
                           /\ batch[i] \in commands_sent /\ batch[i].bad \subseteq b[i].bad
  BY Buffer
<1>2. \A i \in 1 .. n : batch[i].kind = kind /\ b[i].bad = {} /\ batch[i].bad = {}
  BY <1>1 DEF valid_torn
<1>3. \A i \in 1 .. n : \A key \in {"persist", "parts", "parts_bytes", "occurrence"} :
          b[i][key] = batch[i][key]
  <2>. TAKE i \in 1 .. n
  <2>1. CASE i = n
    BY <2>1, Buffer
  <2>2. CASE i # n
    <3>1. b[i] = cut(batch[i])
      BY <2>2, Buffer
    <3>. QED
      BY <1>1, <3>1, CutCommand
  <2>. QED
    BY <2>1, <2>2
<1>4. PICK m \in numbers(b) : m > MaxInt
  BY DEF out_of_range
<1>. HIDE DEF b, n
\* A key whose value is not the default one has that value in one of the commands.
<1>5. ASSUME NEW key \in {"persist", "parts", "parts_bytes", "occurrence"}, NEW default,
             value(b, key, default) # default
      PROVE  \E i \in 1 .. n : value(<<batch[i]>>, key, default) = value(b, key, default)
  <2>1. PICK i \in 1 .. n : key \in given(b[i]) /\ value(b, key, default) = b[i][key]
    BY <1>1, <1>5, ValueOf
  <2>. DEFINE c == batch[i]
              one == <<c>>
              k == 1
  <2>2. k \in Nat \ {0} /\ DOMAIN one = 1 .. k /\ one[k] = c
    OBVIOUS
  <2>3. key \in given(c) /\ key \notin c.bad /\ c[key] = b[i][key]
    BY <1>1, <1>2, <1>3, <2>1
  <2>. HIDE DEF c, one, k
  <2>4. value(one, key, default) = c[key]
    BY <2>2, <2>3, ValueOfLast
  <2>. QED
    BY <2>1, <2>3, <2>4 DEF one, c
<1>6. MaxInt \in Nat \ {0}
  BY FaultCommandsAssumption
<1>7. PICK i \in 1 .. n : m \in numbers(<<batch[i]>>)
  <2>1. CASE m = value(b, "occurrence", 1)
    <3>1. m # 1
      BY <1>4, <1>6
    <3>. QED
      BY <1>5, <2>1, <3>1 DEF numbers
  <2>2. CASE m = value(b, "parts", 0)
    <3>1. m # 0
      BY <1>4, <1>6
    <3>. QED
      BY <1>5, <2>2, <3>1 DEF numbers
  <2>3. CASE m \in ToSet(value(b, "persist", <<>>))
    <3>1. value(b, "persist", <<>>) # <<>>
      BY <2>3 DEF ToSet
    <3>. QED
      BY <1>5, <2>3, <3>1 DEF numbers
  <2>4. CASE m \in ToSet(value(b, "parts_bytes", <<>>))
    <3>1. value(b, "parts_bytes", <<>>) # <<>>
      BY <2>4 DEF ToSet
    <3>. QED
      BY <1>5, <2>4, <3>1 DEF numbers
  <2>. QED
    BY <1>4, <2>1, <2>2, <2>3, <2>4 DEF numbers
<1>8. out_of_range(<<batch[i]>>)
  BY <1>4, <1>7 DEF out_of_range
<1>. QED
  BY <1>1, <1>2, <1>8 DEF throws

AllComplete == \A c \in commands_sent : c.kind = "crash" => complete(c) \/ c.bad # {}

\* Command c is the crash fault f, for an operation on one path.
asked_as(c, f) ==
    /\ c.kind = "crash" /\ complete(c)
    /\ c.op = f.op /\ c.timing = f.timing
    /\ "from" \in given(c) /\ c.from = f.from
    /\ "to" \notin given(c)

LEMMA CrashTaken ==
    ASSUME FifoInv, read, valid_crash(buffer(batch)), AllComplete,
           crash_fault(buffer(batch)).op \in SinglePath,
           crash_fault(buffer(batch)).from \notin {{}, BadRgx}
    PROVE  \E c \in commands_sent : asked_as(c, crash_fault(buffer(batch)))
<1>. DEFINE b == buffer(batch)
            n == Len(batch)
            f == crash_fault(b)
<1>2. /\ n \in Nat \ {0} /\ DOMAIN b = 1 .. n /\ b[n] = batch[n]
      /\ \A i \in 1 .. n : /\ batch[i] \in Command /\ CommandOK(batch[i])
                           /\ b[i] \in Command /\ given(b[i]) = given(batch[i])
                           /\ batch[i] \in commands_sent
                           /\ batch[i].bad \subseteq b[i].bad
                           /\ (i # n => b[i] = cut(batch[i]))
  BY Buffer
<1>3. /\ f.op = value(b, "op", "none") /\ f.timing = value(b, "timing", "none")
      /\ f.from = value(b, "from", NoRgx) /\ f.to = value(b, "to", NoRgx)
  BY DEF crash_fault
<1>4. /\ \A i \in 1 .. n : {"op", "timing"} \cap b[i].bad = {}
      /\ f.from # NoRgx /\ f.to = NoRgx
  BY <1>2 DEF valid_crash, SinglePath, MultiPath
<1>. HIDE DEF b, n, f
<1>5. \A i \in 1 .. n : "to" \notin given(b[i])
  BY <1>3, <1>4, CrashValues DEF b, n
<1>6. PICK i \in 1 .. n :
          batch[i].kind = "crash" /\ "from" \in given(b[i]) /\ b[i]["from"] = f.from
          /\ batch[i].bad = {}
  BY <1>3, <1>4, CrashValues DEF b, n
<1>7. i = n
  <2>. SUFFICES ASSUME i # n PROVE FALSE
    OBVIOUS
  <2>1. batch[i].keys # <<>> /\ given(batch[i]) \subseteq CrashKeys
    <3>1. given(batch[i]) # {}
      BY <1>2, <1>6
    <3>2. batch[i].keys # <<>>
      BY <3>1 DEF given, ToSet
    <3>. QED
      BY <1>2, <1>6, <3>2 DEF CommandOK, given, keys_of
  <2>2. PICK last \in given(batch[i]) :
            /\ last = "from" => cut(batch[i]).from \in {{}, BadRgx}
            /\ IF last \in {"from", "to", "file"} THEN cut(batch[i]).bad = batch[i].bad
                                                  ELSE last \in cut(batch[i]).bad
    BY <1>2, <2>1, CutCommand
  <2>3. last \in {"timing", "op", "from", "to"} /\ last # "to"
    BY <1>2, <1>5, <2>1, <2>2 DEF CrashKeys
  <2>4. b[i].from = f.from /\ f.from \notin {{}, BadRgx}
    BY <1>6 DEF f, b
  <2>. QED
    BY <1>2, <1>4, <2>2, <2>3, <2>4
<1>8. complete(batch[n]) /\ batch[n].kind = "crash"
  BY <1>2, <1>6, <1>7 DEF AllComplete
<1>9. f.op = b[n]["op"] /\ f.timing = b[n]["timing"]
  BY <1>2, <1>3, <1>8, ValueOfLast DEF complete
<1>. QED
  BY <1>2, <1>5, <1>6, <1>7, <1>8, <1>9 DEF asked_as, f, b

\* Each crash fault that can fire in an operation on one path is a command that was
\* sent.  The keys must be known of the command that was accepted, since a command
\* without one takes it from another in its buffer.
CrashInv ==
    /\ FifoInv /\ HostsInv
    /\ \A f \in crash : f.from # BadRgx
    /\ AllComplete => \A f \in crash :
          f.op \in SinglePath /\ f.from # {} => \E c \in commands_sent : asked_as(c, f)
    /\ CrashAsAsked

LEMMA CrashInit == ASSUME Init PROVE CrashInv
<1>1. crash = {} /\ hosts = {} /\ killer.op = "none"
  BY DEF Init, NoCall
<1>. QED
  BY <1>1, FifoInit DEF CrashInv, HostsInv, CrashAsAsked, SinglePath

LEMMA CrashStep == ASSUME CrashInv, [Next]_vars PROVE CrashInv'
<1>0. FifoInv /\ FifoInv' /\ commands_sent \subseteq commands_sent' /\ HostsInv /\ HostsInv'
  BY FifoStep, HostsStep DEF CrashInv, FifoInv
<1>1. AllComplete' => AllComplete
  BY <1>0 DEF AllComplete, complete, given
<1>2. ASSUME UNCHANGED <<crash, killer, torn>> PROVE CrashInv'
  <2>1. CrashAsAsked'
    BY <1>0, <1>2 DEF CrashInv, CrashAsAsked, asks, complete, given
  <2>. QED
    BY <1>0, <1>1, <1>2, <2>1 DEF CrashInv, asked_as, complete, given
<1>3. CASE ReadCrash
  <2>. DEFINE f == crash_fault(buffer(batch))
              g == [f EXCEPT !.timing = IF @ = "before" THEN @ ELSE "after"]
  <2>1. read /\ UNCHANGED <<killer, torn>>
    BY <1>3 DEF ReadCrash, torn_vars
  <2>2. CASE crash' = crash
    BY <1>2, <2>1, <2>2
  <2>3. CASE crash' # crash
    <3>1. crash' = crash \cup {g} /\ f.from # BadRgx /\ valid_crash(buffer(batch))
      BY <1>3, <2>3 DEF ReadCrash
    <3>2. /\ g.op = f.op /\ g.from = f.from
          /\ f.timing \in {"before", "after"} => g.timing = f.timing
      BY DEF crash_fault
    <3>. HIDE DEF g
    <3>3. ASSUME AllComplete, f.op \in SinglePath, f.from # {}
          PROVE  \E c \in commands_sent : asked_as(c, g)
      <4>1. PICK c \in commands_sent : asked_as(c, f)
        BY <1>0, <2>1, <3>1, <3>3, CrashTaken
      <4>2. CommandOK(c)
        <5>1. commands_sent = {scenario.commands[i] : i \in 1 .. sent}
          BY <1>0, CommandsSent DEF FifoInv, commands_sent
        <5>2. 1 .. sent \subseteq 1 .. Len(scenario.commands)
          BY <1>0, Commands DEF FifoInv
        <5>. HIDE DEF CommandOK, commands_sent
        <5>. QED
          BY <1>0, <5>1, <5>2, Commands DEF FifoInv
      <4>3. c.timing \in {"before", "after"}
        BY <4>1, <4>2 DEF asked_as, complete, CommandOK, given
      <4>. QED
        BY <3>2, <4>1, <4>3 DEF asked_as
    <3>4. CrashAsAsked'
      BY <1>0, <2>1 DEF CrashInv, CrashAsAsked, asks, complete, given
    <3>5. \A e \in crash' : e.from # BadRgx
      BY <3>1, <3>2 DEF CrashInv
    <3>6. ASSUME AllComplete, NEW e \in crash', e.op \in SinglePath, e.from # {}
          PROVE  \E c \in commands_sent : asked_as(c, e)
      BY <3>1, <3>2, <3>3, <3>6 DEF CrashInv
    <3>. HIDE DEF f
    <3>. QED
      BY <1>0, <1>1, <3>4, <3>5, <3>6 DEF CrashInv, asked_as, complete, given
  <2>. QED
    BY <2>2, <2>3
<1>4. CASE AppStep
  <2>1. UNCHANGED <<crash, scenario, sent>> /\ scenario \in Scenarios
    BY <1>0, <1>4, Handlers DEF tables, user, FifoInv
  <2>2. PICK op, p, q, size, inner : /\ handler(op, p, q, size, inner)
                                     /\ op = "write" => size \in Sizes
    BY <1>0, <1>4, <2>1, Handlers
  <2>. DEFINE k(timing) == [op |-> op, timing |-> timing, from |-> p, to |-> q]
  <2>3. ASSUME NEW timing, fires(timing, op, p, q), killer' = k(timing)
        PROVE  CrashAsAsked'
    <3>1. PICK f \in crash : f.timing = timing /\ f.op = op /\ matches(f, p, q)
      BY <2>3 DEF fires
    <3>. SUFFICES ASSUME op \in SinglePath, AllComplete
                  PROVE  \E c \in commands_sent' : asks(c, killer')
      BY <1>1, <2>3 DEF CrashAsAsked, AllComplete
    <3>2. p \in f.from
      BY <3>1 DEF matches, SinglePath, MultiPath
    <3>3. PICK c \in commands_sent : asked_as(c, f)
      BY <3>1, <3>2 DEF CrashInv
    <3>4. asks(c, k(timing))
      BY <3>1, <3>2, <3>3 DEF asks, asked_as
    <3>. QED
      BY <1>0, <2>3, <3>3, <3>4
  <2>4. ASSUME NEW timing, trigger(timing, op, p, q, FALSE), torn' = torn
        PROVE  CrashAsAsked'
    <3>1. CASE killer' = killer
      BY <1>0, <2>4, <3>1 DEF CrashInv, CrashAsAsked, asks, complete, given
    <3>2. CASE killer' # killer
      <4>1. fires(timing, op, p, q) /\ killer' = k(timing)
        BY <2>4, <3>2 DEF trigger
      <4>. QED
        BY <2>3, <4>1
    <3>. QED
      BY <3>1, <3>2
  <2>5. CrashAsAsked'
    <3>1. CASE trigger("before", op, p, q, FALSE) /\ torn' = torn
      BY <2>4, <3>1
    <3>2. CASE work(op, p, q, size, inner) /\ op = "write" /\ tears(p, size)
      <4>1. torn'.size = size /\ size # 0
        BY <2>2, <3>2, TornOpAssumption DEF work, split_write
      <4>. QED
        BY <4>1 DEF CrashAsAsked
    <3>3. CASE work(op, p, q, size, inner) /\ ~(op = "write" /\ tears(p, size))
      <4>1. torn' = torn /\ trigger("after", op, p, q, FALSE)
        BY <3>3 DEF work, split_write
      <4>. QED
        BY <2>4, <4>1
    <3>. QED
      BY <2>2, <3>1, <3>2, <3>3 DEF handler
  <2>. QED
    BY <1>0, <1>1, <2>1, <2>5 DEF CrashInv, asked_as, complete, given, commands_sent
<1>5. CASE OpenFifos \/ Clear \/ Notify \/ Checkpoint \/ Send \/ UNCHANGED vars
  BY <1>2, <1>5 DEF OpenFifos, Clear, Notify, Checkpoint, Send, vars, tables, torn_vars
<1>6. CASE ReadTornOp \/ ReadTornSeq \/ ReadClear \/ ReadCheckpoint \/ ReadOther
  BY <1>2, <1>6
     DEF ReadTornOp, ReadTornSeq, ReadClear, ReadCheckpoint, ReadOther, tables, torn_vars
<1>. QED
  BY <1>3, <1>4, <1>5, <1>6 DEF Next, Worker, AppStep

\* In a call of an operation on one path a crash fault fires only where a user asked
\* for it: the parser takes no value from a command that it cut.
THEOREM CrashesAsAsked == Spec => []CrashAsAsked
<1>1. Init => CrashInv
  BY CrashInit
<1>2. CrashInv /\ [Next]_vars => CrashInv'
  BY CrashStep
<1>3. CrashInv => CrashAsAsked
  BY DEF CrashInv
<1>. QED
  BY <1>1, <1>2, <1>3, PTL DEF Spec

ThrowInv ==
    /\ FifoInv /\ HostsInv
    /\ \A f \in crash : f.to = BadRgx => \E c \in commands_sent : throws(c)
    /\ NoNewException

LEMMA ThrowStep == ASSUME ThrowInv, [Next]_vars PROVE ThrowInv'
<1>0. FifoInv /\ FifoInv' /\ commands_sent \subseteq commands_sent' /\ HostsInv /\ HostsInv'
  BY FifoStep, HostsStep DEF ThrowInv, FifoInv
<1>. DEFINE found == \E c \in commands_sent : throws(c)
<1>1. found => found'
  BY <1>0 DEF throws, valid_crash, crash_fault, value, given, out_of_range, numbers
<1>2. ASSUME terminated' => terminated \/ found,
             \A f \in crash' : f \in crash \/ (f.to = BadRgx => found)
      PROVE  ThrowInv'
  <2>1. terminated' => found
    BY <1>2 DEF ThrowInv, NoNewException
  <2>2. \A f \in crash' : f.to = BadRgx => found
    BY <1>2 DEF ThrowInv
  <2>. HIDE DEF found
  <2>3. /\ terminated' => found'
        /\ \A f \in crash' : f.to = BadRgx => found'
    BY <1>1, <2>1, <2>2
  <2>. QED
    BY <1>0, <2>3 DEF ThrowInv, NoNewException, found
<1>3. CASE ReadCrash
  <2>. DEFINE b == buffer(batch)
              f == crash_fault(b)
              g == [f EXCEPT !.timing = IF @ = "before" THEN @ ELSE "after"]
  <2>1. /\ read /\ Head(batch).kind = "crash" /\ f.from = value(b, "from", NoRgx)
        /\ f.to = value(b, "to", NoRgx) /\ g.to = f.to
    BY <1>3 DEF ReadCrash, crash_fault
  <2>2. ASSUME terminated' # terminated PROVE found
    <3>1. valid_crash(b) /\ (f.op \notin Operations \/ f.from = BadRgx)
      BY <1>3, <2>2 DEF ReadCrash
    <3>. QED
      BY <1>0, <2>1, <3>1, NoOperation, BadExpression
  <2>3. ASSUME NEW e \in crash', e \notin crash, e.to = BadRgx PROVE found
    <3>1. valid_crash(b) /\ e = g
      BY <1>3, <2>3 DEF ReadCrash
    <3>2. value(b, "to", NoRgx) = BadRgx
      BY <2>1, <2>3, <3>1
    <3>. HIDE DEF b
    <3>. QED
      BY <1>0, <2>1, <3>1, <3>2, BadExpression DEF b
  <2>. HIDE DEF found
  <2>. QED
    BY <1>2, <2>2, <2>3
<1>4. CASE ReadTornOp
  <2>1. read /\ crash' = crash
    BY <1>4 DEF ReadTornOp, tables
  <2>2. terminated' => valid_torn(buffer(batch), "torn-op", TornOpKeys) /\ out_of_range(buffer(batch))
    BY <1>4 DEF ReadTornOp
  <2>3. terminated' => found
    BY <1>0, <2>1, <2>2, LargeNumber
  <2>. HIDE DEF found
  <2>. QED
    BY <1>2, <2>1, <2>3
<1>5. CASE ReadTornSeq
  <2>1. read /\ crash' = crash
    BY <1>5 DEF ReadTornSeq
  <2>2. terminated' => valid_torn(buffer(batch), "torn-seq", TornSeqKeys) /\ out_of_range(buffer(batch))
    BY <1>5 DEF ReadTornSeq
  <2>3. terminated' => found
    BY <1>0, <2>1, <2>2, LargeNumber
  <2>. HIDE DEF found
  <2>. QED
    BY <1>2, <2>1, <2>3
<1>6. CASE AppStep
  <2>1. crash' = crash /\ scenario \in Scenarios
    BY <1>0, <1>6, Handlers DEF tables, FifoInv
  <2>2. PICK op, p, q, size, inner : handler(op, p, q, size, inner)
    BY <1>0, <1>6, <2>1, Handlers
  <2>3. PICK timing, torn_now : trigger(timing, op, p, q, torn_now)
    BY <2>2 DEF handler, work
  <2>4. ASSUME terminated' # terminated PROVE found
    <3>1. fails(timing, op)
      BY <2>3, <2>4 DEF trigger
    <3>. HIDE DEF found
    <3>. QED
      BY <3>1 DEF fails, ThrowInv, found
  <2>. HIDE DEF found
  <2>. QED
    BY <1>2, <2>1, <2>4
<1>7. CASE /\ UNCHANGED <<terminated, crash>>
  <2>. HIDE DEF found
  <2>. QED
    BY <1>2, <1>7
<1>8. CASE OpenFifos \/ Clear \/ Notify \/ Checkpoint \/ Send \/ UNCHANGED vars
  BY <1>7, <1>8 DEF OpenFifos, Clear, Notify, Checkpoint, Send, vars, tables
<1>9. CASE ReadClear \/ ReadCheckpoint \/ ReadOther
  BY <1>7, <1>9 DEF ReadClear, ReadCheckpoint, ReadOther, tables
<1>. QED
  BY <1>3, <1>4, <1>5, <1>6, <1>8, <1>9 DEF Next, Worker, AppStep

\* LazyFS ends by an exception only if a command was sent that has in itself what the
\* code throws for: no rejected command, and no cut in a buffer, makes one.
THEOREM NoNewExceptions == Spec => []NoNewException
<1>1. Init => ThrowInv
  BY FifoInit DEF Init, ThrowInv, HostsInv, NoNewException
<1>2. ThrowInv /\ [Next]_vars => ThrowInv'
  BY ThrowStep
<1>3. ThrowInv => NoNewException
  BY DEF ThrowInv
<1>. QED
  BY <1>1, <1>2, <1>3, PTL DEF Spec

-----------------------------------------------------------------------------
(* The parts of a write.                                                   *)

LEMMA BytesBefore ==
    ASSUME NEW l \in Seq(Nat)
    PROVE  /\ bytes_before(l, 1) = 0
           /\ \A p \in Nat : bytes_before(l, p) \in Nat
           /\ \A p \in Nat \ {0} : bytes_before(l, p + 1) = bytes_before(l, p) + length_at(l, p)
<1>. DEFINE R(f) == f = [q \in Nat |-> IF q <= 1 THEN 0 ELSE f[q - 1] + length_at(l, q - 1)]
            B == CHOOSE f : R(f)
            more == [n \in Nat |-> IF n <= 1 THEN 0 ELSE length_at(l, n - 1)]
<1>1. more \in [Nat -> Nat]
  BY DEF length_at
<1>2. \A n \in Nat : more[n] = IF n <= 1 THEN 0 ELSE length_at(l, n - 1)
  OBVIOUS
<1>. HIDE DEF more
<1>3. \E f \in [Nat -> Nat] : R(f)
  <2>1. PICK f \in [Nat -> Nat] : f[0] = 0 /\ \A n \in Nat : f[n + 1] = f[n] + more[n + 1]
    BY <1>1, Sums
  <2>4. ASSUME NEW q \in Nat
        PROVE  f[q] = IF q <= 1 THEN 0 ELSE f[q - 1] + length_at(l, q - 1)
    <3>1. CASE q = 0
      BY <2>1, <3>1
    <3>2. CASE q # 0
      <4>1. q - 1 \in Nat /\ (q - 1) + 1 = q
        BY <3>2
      <4>2. f[q] = f[q - 1] + more[q]
        BY <2>1, <4>1
      <4>3. CASE q = 1
        <5>1. more[1] = 0
          BY <1>2
        <5>2. q - 1 = 0 /\ f[0] = 0
          BY <2>1, <4>3
        <5>3. f[q] = 0
          BY <4>2, <4>3, <5>1, <5>2
        <5>. QED
          BY <4>3, <5>3
      <4>4. CASE q > 1
        BY <1>2, <4>2, <4>4
      <4>. QED
        BY <3>2, <4>3, <4>4
    <3>. QED
      BY <3>1, <3>2
  <2>5. R(f)
    BY <2>4
  <2>. HIDE DEF R
  <2>. QED
    BY <2>5
<1>4. R(B)
  <2>. HIDE DEF R
  <2>. QED
    BY <1>3
<1>5. \A p : bytes_before(l, p) = B[p]
  BY DEF bytes_before
<1>. HIDE DEF B, R
<1>6. \A q \in Nat : B[q] = IF q <= 1 THEN 0 ELSE B[q - 1] + length_at(l, q - 1)
  BY <1>4 DEF R
<1>7. B[1] = 0 /\ \A q \in Nat \ {0} : B[q + 1] = B[q] + length_at(l, q)
  BY <1>6
<1>8. \A q \in Nat : B[q] \in Nat
  <2>. DEFINE I == {q \in Nat : B[q] \in Nat}
  <2>1. 0 \in I
    BY <1>6
  <2>2. ASSUME NEW n \in Nat, n \in I PROVE n + 1 \in I
    <3>1. more[n + 1] \in Nat
      BY <1>1
    <3>2. B[n + 1] = IF n = 0 THEN 0 ELSE B[n] + more[n + 1]
      BY <1>2, <1>6
    <3>. QED
      BY <2>2, <3>1, <3>2
  <2>. HIDE DEF I
  <2>3. Nat \subseteq I
    BY <2>1, <2>2, Induction
  <2>. QED
    BY <2>3 DEF I
<1>. QED
  BY <1>5, <1>7, <1>8
LEMMA BytesGrow ==
    ASSUME NEW l \in Seq(Nat), NEW p \in Nat \ {0}, NEW q \in Nat, p <= q
    PROVE  bytes_before(l, p) <= bytes_before(l, q)
<1>. DEFINE I == {d \in Nat : bytes_before(l, p) <= bytes_before(l, p + d)}
<1>1. 0 \in I
  BY BytesBefore
<1>2. ASSUME NEW d \in Nat, d \in I PROVE d + 1 \in I
  <2>1. p + d \in Nat \ {0} /\ p + (d + 1) = (p + d) + 1
    OBVIOUS
  <2>2. bytes_before(l, (p + d) + 1) = bytes_before(l, p + d) + length_at(l, p + d)
    BY <2>1, BytesBefore
  <2>3. length_at(l, p + d) \in Nat
    BY DEF length_at
  <2>4. bytes_before(l, p + d) \in Nat /\ bytes_before(l, p) \in Nat
    BY <2>1, BytesBefore
  <2>. QED
    BY <1>2, <2>1, <2>2, <2>3, <2>4
<1>3. q - p \in Nat /\ p + (q - p) = q
  OBVIOUS
<1>4. q - p \in I
  <2>. HIDE DEF I
  <2>. QED
    BY <1>1, <1>2, <1>3, Induction
<1>. QED
  BY <1>3, <1>4

\* The piece of a part that an accepted fault names, in a write that it fits: within
\* the write, and the part, with the rest when it is listed last.
LEMMA Pieces ==
    ASSUME NEW f \in SplitWriteF, valid(f), NEW size \in Nat \ {0}, fits(f, size),
           NEW i \in DOMAIN f.persist
    PROVE  LET piece == IF custom(f) THEN custom_piece(f, i) ELSE equal_piece(f, i, size)
               p == f.persist[i]
           IN  /\ bytes_of(piece) \subseteq 0 .. size - 1
               /\ bytes_of(piece) =
                     part(f, p, size) \cup (IF i = Len(f.persist) THEN rest(f, p, size) ELSE {})
<1>. DEFINE p == f.persist[i]
            l == f.parts_bytes
<1>1. /\ p \in 1 .. nr_parts(f) /\ l \in Seq(Nat) /\ f.persist # <<>>
      /\ f.persist \in Seq(Nat) /\ f.parts \in Int
  BY DEF valid, SplitWriteF
<1>2. CASE custom(f)
  <2>. DEFINE from == bytes_before(l, p)
              len == length_at(l, p)
  <2>1. p \in Nat \ {0} /\ nr_parts(f) = Len(l) /\ Len(l) \in Nat
    BY <1>1, <1>2 DEF nr_parts
  <2>2. custom_piece(f, i) = [from |-> from, len |-> len]
    BY DEF custom_piece
  <2>3. from \in Nat /\ len \in Nat /\ bytes_before(l, p + 1) = from + len
    <3>1. len \in Nat
      BY <1>1 DEF length_at
    <3>. HIDE DEF p, l
    <3>. QED
      BY <1>1, <2>1, <3>1, BytesBefore
  <2>4. from + len <= size
    <3>1. size = bytes_before(l, Len(l) + 1)
      BY <1>1, <1>2, <2>1 DEF fits
    <3>0. p \in 1 .. Len(l)
      BY <1>1, <2>1
    <3>. HIDE DEF p, l
    <3>2. p + 1 \in Nat \ {0} /\ Len(l) + 1 \in Nat /\ p + 1 <= Len(l) + 1
      BY <2>1, <3>0
    <3>3. bytes_before(l, p + 1) <= bytes_before(l, Len(l) + 1)
      BY <1>1, <3>2, BytesGrow
    <3>. QED
      BY <2>3, <3>1, <3>3
  <2>5. bytes_of(custom_piece(f, i)) = from .. (from + len - 1)
    BY <2>2 DEF bytes_of
  <2>6. /\ part(f, p, size) = {j \in 0 .. size - 1 : from <= j /\ j < from + len}
        /\ rest(f, p, size) = {}
    BY <1>2, <2>3 DEF part, rest, begins
  <2>. HIDE DEF p, l, from, len
  <2>7. /\ from .. (from + len - 1) \subseteq 0 .. size - 1
        /\ from .. (from + len - 1) = {j \in 0 .. size - 1 : from <= j /\ j < from + len}
    BY <2>3, <2>4
  <2>. QED
    BY <1>2, <2>5, <2>6, <2>7 DEF p
<1>3. CASE ~custom(f)
  <2>. DEFINE n == f.parts
              each == size \div n
              extra == IF i = Len(f.persist) THEN size % n ELSE 0
  <2>1. n \in Nat \ {0} /\ p \in 1 .. n
    BY <1>1, <1>3 DEF nr_parts, valid
  <2>2. each \in Nat /\ size % n \in 0 .. n - 1 /\ size = n * each + (size % n)
    <3>. HIDE DEF n
    <3>. QED
      BY <2>1, Division
  <2>3. extra \in Nat /\ extra <= size % n
    BY <2>2
  <2>4. equal_piece(f, i, size) = [from |-> (p - 1) * each, len |-> each + extra]
    BY DEF equal_piece
  <2>5. bytes_of(equal_piece(f, i, size)) = (p - 1) * each .. ((p - 1) * each + (each + extra) - 1)
    BY <2>4 DEF bytes_of
  <2>6. /\ part(f, p, size) = {j \in 0 .. size - 1 : (p - 1) * each <= j /\ j < p * each}
        /\ rest(f, p, size) =
              {j \in 0 .. size - 1 : p * each <= j /\ j < p * each + (size % n)}
    <3>1. (p + 1) - 1 = p
      BY <2>1
    <3>2. begins(f, p, size) = (p - 1) * each /\ begins(f, p + 1, size) = p * each
      BY <1>3, <3>1 DEF begins
    <3>. HIDE DEF p, n, each
    <3>. QED
      BY <1>3, <3>2 DEF part, rest, n
  <2>12. extra = IF i = Len(f.persist) THEN size % n ELSE 0
    OBVIOUS
  <2>. HIDE DEF p, n, each, extra
  <2>7. (p - 1) * each \in Nat /\ (p - 1) * each + each = p * each
    BY <2>1, <2>2
  <2>8. p * each <= n * each /\ p * each \in Nat
    BY <2>1, <2>2, Times
  <2>9. (p - 1) * each + (each + extra) <= size
    <3>. DEFINE a == (p - 1) * each
                b == p * each
                c == n * each
                r == size % n
    <3>1. /\ a \in Nat /\ a + each = b /\ b \in Nat /\ b <= c /\ size = c + r
          /\ each \in Nat /\ extra \in Nat /\ extra <= r /\ r \in Nat
      BY <2>2, <2>3, <2>7, <2>8
    <3>2. c \in Int
      BY <2>1, <2>2
    <3>. HIDE DEF a, b, c, r
    <3>3. a + (each + extra) <= size
      BY <3>1, <3>2
    <3>. QED
      BY <3>3 DEF a
  <2>10. bytes_of(equal_piece(f, i, size)) \subseteq 0 .. size - 1
    BY <2>2, <2>3, <2>5, <2>7, <2>9
  <2>11. bytes_of(equal_piece(f, i, size)) =
            part(f, p, size) \cup (IF i = Len(f.persist) THEN rest(f, p, size) ELSE {})
    <3>. DEFINE x == (p - 1) * each
                y == p * each
                r == size % n
                B == x .. (x + (each + extra) - 1)
                P == {j \in 0 .. size - 1 : x <= j /\ j < y}
                R == {j \in 0 .. size - 1 : y <= j /\ j < y + r}
    <3>1. /\ x \in Nat /\ y = x + each /\ each \in Nat /\ r \in Nat /\ extra \in Nat
          /\ x + (each + extra) <= size
      BY <2>2, <2>3, <2>7, <2>9
    <3>. HIDE DEF x, y, r
    <3>2. CASE i = Len(f.persist)
      <4>1. extra = r
        BY <2>12, <3>2 DEF r
      <4>2. B = P \cup R
        BY <3>1, <4>1
      <4>. QED
        BY <2>5, <2>6, <3>2, <4>2 DEF x, y, r
    <3>3. CASE i # Len(f.persist)
      <4>1. extra = 0
        BY <2>12, <3>3
      <4>2. B = P
        BY <3>1, <4>1
      <4>. QED
        BY <2>5, <2>6, <3>3, <4>2 DEF x, y, r
    <3>. QED
      BY <3>2, <3>3
  <2>. QED
    BY <1>3, <2>10, <2>11 DEF p
<1>. QED
  BY <1>2, <1>3

-----------------------------------------------------------------------------
(* Torn-op faults.                                                         *)

\* What the code finds of a torn-op fault has its type.
LEMMA TornOpType ==
    ASSUME NEW n \in Nat, NEW b, DOMAIN b = 1 .. n, \A i \in 1 .. n : b[i] \in Command
    PROVE  torn_op_fault(b) \in SplitWriteF /\ torn_op_fault(b) # NoFault
<1>. DEFINE V(key, default) == value(b, key, default)
<1>0. ASSUME NEW key, NEW default
      PROVE  V(key, default) = default \/ \E i \in 1 .. n : V(key, default) = b[i][key]
  BY ValueOf
<1>. HIDE DEF V
<1>1. V("occurrence", 1) \in Nat
  <2>. DEFINE default == 1
  <2>1. default \in Nat /\ \A i \in 1 .. n : b[i]["occurrence"] \in Nat
    BY DEF Command
  <2>. HIDE DEF default
  <2>2. V("occurrence", default) \in Nat
    BY <1>0, <2>1
  <2>. QED
    BY <2>2 DEF default
<1>2. V("persist", <<>>) \in Seq(Nat)
  <2>. DEFINE default == <<>>
              T == Seq(Nat)
  <2>1. default \in T /\ \A i \in 1 .. n : b[i]["persist"] \in T
    BY DEF Command
  <2>. HIDE DEF default, T
  <2>2. V("persist", default) \in T
    BY <1>0, <2>1
  <2>. QED
    BY <2>2 DEF default, T
<1>3. V("parts", -1) \in Int
  <2>. DEFINE default == -1
  <2>1. default \in Int /\ \A i \in 1 .. n : b[i]["parts"] \in Int
    BY DEF Command
  <2>. HIDE DEF default
  <2>2. V("parts", default) \in Int
    BY <1>0, <2>1
  <2>. QED
    BY <2>2 DEF default
<1>4. V("parts_bytes", <<>>) \in Seq(Nat)
  <2>. DEFINE default == <<>>
              T == Seq(Nat)
  <2>1. default \in T /\ \A i \in 1 .. n : b[i]["parts_bytes"] \in T
    BY DEF Command
  <2>. HIDE DEF default, T
  <2>2. V("parts_bytes", default) \in T
    BY <1>0, <2>1
  <2>. QED
    BY <2>2 DEF default, T
<1>5. torn_op_fault(b) \in SplitWriteF
  BY <1>1, <1>2, <1>3, <1>4 DEF torn_op_fault, SplitWriteF, V
<1>. QED
  BY <1>5, FaultCommandsAssumption

\* The fault that the configuration file gives a file is one of its injections.
LEMMA Loaded ==
    ASSUME NEW s \in Scenarios, NEW f, load_torn_op(s.injections, f) # NoFault
    PROVE  /\ load_torn_op(s.injections, f) \in SplitWriteF
           /\ valid(load_torn_op(s.injections, f))
           /\ \E c \in ToSet(s.injections) :
                 /\ c.kind = "torn-op" /\ c.file = f
                 /\ load_torn_op(s.injections, f) = torn_op_fault(<<c>>)
<1>. DEFINE inj == s.injections
            usable == {i \in DOMAIN inj : usable_torn_op(inj[i]) /\ inj[i].file = f}
<1>1. inj \in Seq(Command)
  BY FaultCommandsAssumption
<1>2. /\ usable # {}
      /\ load_torn_op(inj, f) = torn_op_fault(<<inj[Min(usable)]>>)
  BY DEF load_torn_op
<1>3. Min(usable) \in usable
  <2>1. usable \in SUBSET Nat
    BY <1>1
  <2>. HIDE DEF usable
  <2>. QED
    BY <1>2, <2>1, MinIs
<1>. DEFINE c == inj[Min(usable)]
<1>4. c \in Command /\ c \in ToSet(inj) /\ usable_torn_op(c) /\ c.file = f
  <2>1. Min(usable) \in DOMAIN inj /\ usable_torn_op(c) /\ c.file = f
    BY <1>3
  <2>2. c \in ToSet(inj)
    BY <2>1 DEF ToSet
  <2>. HIDE DEF usable
  <2>3. c \in Command
    BY <1>1, <2>1
  <2>. QED
    BY <2>1, <2>2, <2>3
<1>5. load_torn_op(inj, f) = torn_op_fault(<<c>>)
  BY <1>2
<1>. HIDE DEF c
<1>6. torn_op_fault(<<c>>) \in SplitWriteF
  <2>. DEFINE b == <<c>>
  <2>1. DOMAIN b = 1 .. 1 /\ \A i \in 1 .. 1 : b[i] \in Command
    BY <1>4
  <2>. HIDE DEF b
  <2>2. torn_op_fault(b) \in SplitWriteF
    BY <2>1, TornOpType
  <2>. QED
    BY <2>2 DEF b
<1>. QED
  BY <1>4, <1>5, <1>6 DEF usable_torn_op

\* After a torn-op command that ends with its file come no other keys.
SameKeys ==
    \A c, d \in commands_sent :
        c.kind = "torn-op" /\ d.kind = "torn-op" /\ c.keys # <<>> /\ Last(c.keys) = "file"
        => given(c) = given(d)

\* A fault that is taken from a buffer is the last command of it: the others are cut
\* at their file, so they have the same keys and no value is left of them.
LEMMA TornTaken ==
    ASSUME FifoInv, read, valid_torn(buffer(batch), "torn-op", TornOpKeys), SameKeys,
           value(buffer(batch), "file", NoFile) # NoFile
    PROVE  \E c \in commands_sent :
              /\ c.kind = "torn-op" /\ c.file = value(buffer(batch), "file", NoFile)
              /\ torn_op_fault(<<c>>) = torn_op_fault(buffer(batch))
<1>. DEFINE b == buffer(batch)
            n == Len(batch)
            c == batch[n]
            one == <<c>>
<1>1. /\ n \in Nat \ {0} /\ DOMAIN b = 1 .. n /\ b[n] = c
      /\ \A i \in 1 .. n : /\ batch[i] \in commands_sent /\ b[i].kind = batch[i].kind
                           /\ given(b[i]) = given(batch[i]) /\ batch[i] \in Command
                           /\ (i # n => b[i] = cut(batch[i]))
  BY Buffer
<1>2. n \in 1 .. n
  BY <1>1
<1>9. \A i \in 1 .. n :
          /\ batch[i].kind = "torn-op" /\ b[i].bad = {}
          /\ given(batch[i]) \subseteq TornOpKeys
  BY <1>1 DEF valid_torn
<1>10. ASSUME NEW i \in 1 .. n PROVE given(b[i]) = given(c)
  <2>1. CASE i = n
    BY <1>1, <2>1
  <2>2. CASE i # n
    <3>1. b[i] = cut(batch[i]) /\ cut(batch[i]).bad = {}
      BY <1>1, <1>9, <2>2
    <3>2. batch[i].keys # <<>> /\ Last(batch[i].keys) \in given(batch[i]) \cap {"from", "to", "file"}
      BY <1>1, <3>1, CutCommand
    <3>3. Last(batch[i].keys) = "file"
      BY <1>9, <3>2 DEF TornOpKeys
    <3>. QED
      BY <1>1, <1>2, <1>9, <3>2, <3>3 DEF SameKeys
  <2>. QED
    BY <2>1, <2>2
<1>3. /\ c \in commands_sent /\ c.kind = "torn-op"
      /\ \A i \in 1 .. n : given(b[i]) = given(c) /\ b[i].bad = {}
  BY <1>1, <1>2, <1>9, <1>10
<1>. DEFINE k == 1
<1>4. k \in Nat \ {0} /\ DOMAIN one = 1 .. k /\ one[k] = c /\ \A i \in 1 .. k : one[i] = c
  OBVIOUS
<1>. HIDE DEF b, n, c, one, k
<1>5. ASSUME NEW key, NEW default PROVE value(one, key, default) = value(b, key, default)
  <2>1. CASE key \in given(c)
    <3>1. value(b, key, default) = b[n][key]
      BY <1>1, <1>2, <1>3, <2>1, ValueOfLast
    <3>2. c.bad = {}
      BY <1>1, <1>2, <1>3
    <3>3. value(one, key, default) = one[k][key]
      BY <1>4, <2>1, <3>2, ValueOfLast
    <3>. QED
      BY <1>1, <1>4, <3>1, <3>3
  <2>2. CASE key \notin given(c)
    <3>1. value(b, key, default) = default
      BY <1>1, <1>3, <2>2, ValueOf
    <3>2. value(one, key, default) = default
      BY <1>4, <2>2, ValueOf
    <3>. QED
      BY <3>1, <3>2
  <2>. QED
    BY <2>1, <2>2
<1>6. value(b, "file", NoFile) = c.file
  <2>1. "file" \in given(c)
    BY <1>1, <1>3, ValueOf DEF b
  <2>. QED
    BY <1>1, <1>2, <1>3, <2>1, ValueOfLast
<1>7. (\E i \in DOMAIN one : "parts" \in given(one[i])) <=> (\E i \in DOMAIN b : "parts" \in given(b[i]))
  BY <1>1, <1>2, <1>3, <1>4
<1>8. torn_op_fault(one) = torn_op_fault(b)
  BY <1>5, <1>7 DEF torn_op_fault
<1>. QED
  BY <1>3, <1>6, <1>8 DEF b, one

LEMMA TearWrites ==
    ASSUME NEW f \in SplitWriteF, valid(f), NEW size \in Nat \ {0}, fits(f, size)
    PROVE  LET w == UNION {bytes_of(piece) : piece \in pieces(f, size)}
           IN  w \subseteq 0 .. size - 1 /\ w = wanted(f, size)
<1>. DEFINE piece(i) == IF custom(f) THEN custom_piece(f, i) ELSE equal_piece(f, i, size)
            w == UNION {bytes_of(e) : e \in pieces(f, size)}
            l == Len(f.persist)
<1>1. pieces(f, size) = {piece(i) : i \in DOMAIN f.persist}
  BY DEF pieces
<1>2. \A i \in DOMAIN f.persist :
          /\ bytes_of(piece(i)) \subseteq 0 .. size - 1
          /\ bytes_of(piece(i)) =
                part(f, f.persist[i], size) \cup
                (IF i = l THEN rest(f, f.persist[i], size) ELSE {})
  BY Pieces
<1>. HIDE DEF piece
<1>3. w \subseteq 0 .. size - 1
  BY <1>1, <1>2
<1>4. f.persist # <<>> => l \in DOMAIN f.persist /\ Last(f.persist) = f.persist[l]
  <2>1. f.persist \in Seq(Nat)
    BY DEF SplitWriteF
  <2>. QED
    BY <2>1 DEF Last
<1>5. f.persist = <<>> => DOMAIN f.persist = {}
  <2>1. DOMAIN <<>> = {}
    OBVIOUS
  <2>. QED
    BY <2>1, Zenon
<1>6. \A x : x \in w <=> \E i \in DOMAIN f.persist : x \in bytes_of(piece(i))
  BY <1>1
<1>7. \A x : x \in wanted(f, size) <=>
          \/ \E i \in DOMAIN f.persist : x \in part(f, f.persist[i], size)
          \/ f.persist # <<>> /\ x \in rest(f, Last(f.persist), size)
  <2>. DEFINE parts == UNION {part(f, f.persist[i], size) : i \in DOMAIN f.persist}
  <2>1. \A x : x \in parts <=> \E i \in DOMAIN f.persist : x \in part(f, f.persist[i], size)
    OBVIOUS
  <2>2. wanted(f, size) =
            parts \cup (IF f.persist = <<>> THEN {} ELSE rest(f, Last(f.persist), size))
    BY DEF wanted
  <2>. HIDE DEF parts
  <2>. QED
    BY <2>1, <2>2
<1>. HIDE DEF w, l
<1>8. \A x : x \in w <=> x \in wanted(f, size)
  BY <1>2, <1>4, <1>5, <1>6, <1>7
<1>. QED
  BY <1>3, <1>8 DEF w

\* A fault of the table was accepted, and is one that a user asked for.
asked_torn_op(f) ==
    \E c \in sources : c.kind = "torn-op" /\ c.file = f /\ torn_op_fault(<<c>>) = fault[f]

TornInv ==
    /\ FifoInv /\ HostsInv
    /\ fault = [f \in Paths |-> fault[f]]
    /\ \A f \in Paths : fault[f] # NoFault => fault[f] \in SplitWriteF /\ valid(fault[f])
    /\ counter \in [Files -> 0 .. MaxWrites]
    /\ torn.size \in Sizes \cup {0}
    /\ torn.size # 0 => killed
    /\ WithinWrite
    /\ SameKeys => \A f \in Files : fault[f] # NoFault => asked_torn_op(f)
    /\ TornAsAsked

LEMMA TornOpInit == ASSUME Init PROVE TornInv
<1>1. FifoInv /\ scenario \in Scenarios
  BY FifoInit DEF FifoInv
<1>2. fault = [f \in Paths |-> load_torn_op(scenario.injections, f)]
  BY DEF Init, load_config
<1>3. /\ counter = [f \in Files |-> 0] /\ torn.size = 0 /\ persisted = {}
      /\ 0 \in 0 .. MaxWrites /\ hosts = {}
  BY TornOpAssumption DEF Init, TornInit
<1>4. \A f \in Paths : fault[f] = load_torn_op(scenario.injections, f)
  BY <1>2
<1>5. \A f \in Paths : fault[f] # NoFault => fault[f] \in SplitWriteF /\ valid(fault[f])
  BY <1>1, <1>4, Loaded
<1>6. \A f \in Files : fault[f] # NoFault => asked_torn_op(f)
  <2>. SUFFICES ASSUME NEW f \in Files, fault[f] # NoFault PROVE asked_torn_op(f)
    OBVIOUS
  <2>1. fault[f] = load_torn_op(scenario.injections, f)
    BY <1>4 DEF Paths
  <2>2. PICK c \in ToSet(scenario.injections) :
            /\ c.kind = "torn-op" /\ c.file = f
            /\ load_torn_op(scenario.injections, f) = torn_op_fault(<<c>>)
    BY <1>1, <2>1, Loaded
  <2>. QED
    BY <2>1, <2>2 DEF asked_torn_op, sources
<1>7. TornAsAsked /\ WithinWrite
  BY <1>3 DEF TornAsAsked, WithinWrite
<1>. QED
  BY <1>1, <1>2, <1>3, <1>5, <1>6, <1>7 DEF TornInv, HostsInv

LEMMA TornOpStep == ASSUME TornInv, [Next]_vars PROVE TornInv'
<1>0. /\ FifoInv /\ FifoInv' /\ commands_sent \subseteq commands_sent' /\ scenario' = scenario
      /\ HostsInv /\ HostsInv'
  BY FifoStep, HostsStep DEF TornInv, FifoInv
<1>1. (SameKeys' => SameKeys) /\ sources \subseteq sources'
  BY <1>0 DEF SameKeys, sources, given
<1>2. ASSUME UNCHANGED torn_vars PROVE TornInv'
  <2>1. TornAsAsked'
    BY <1>0, <1>1, <1>2
       DEF TornInv, TornAsAsked, torn_vars, SameKeys, given
  <2>. QED
    BY <1>0, <1>1, <1>2, <2>1 DEF TornInv, torn_vars, WithinWrite, asked_torn_op
<1>3. CASE ReadTornOp
  <2>. DEFINE b == buffer(batch)
              f == torn_op_fault(b)
              file == value(b, "file", NoFile)
  <2>1. read /\ running /\ UNCHANGED <<counter, torn, persisted, killed>>
    BY <1>3 DEF ReadTornOp, read
  <2>2. CASE fault' = fault
    BY <1>2, <2>1, <2>2 DEF torn_vars
  <2>3. CASE fault' # fault
    <3>1. /\ valid_torn(b, "torn-op", TornOpKeys) /\ valid(f)
          /\ fault' = [fault EXCEPT ![file] = f]
      BY <1>3, <2>3 DEF ReadTornOp
    <3>2. f \in SplitWriteF
      BY <1>0, <2>1, Buffer, TornOpType
    <3>3. ASSUME SameKeys, file \in Files
          PROVE  \E c \in sources :
                    c.kind = "torn-op" /\ c.file = file /\ torn_op_fault(<<c>>) = f
      <4>1. file # NoFile
        BY <3>3, FaultCommandsAssumption
      <4>. QED
        BY <1>0, <2>1, <3>1, <3>3, <4>1, TornTaken DEF sources
    <3>. HIDE DEF f, file, b
    <3>4. /\ fault' = [g \in Paths |-> fault'[g]]
          /\ \A g \in Paths : fault'[g] = IF g = file THEN f ELSE fault[g]
      <4>1. fault = [g \in Paths |-> fault[g]]
        BY DEF TornInv
      <4>. QED
        BY <3>1, <4>1
    <3>5. \A g \in Paths : fault'[g] # NoFault => fault'[g] \in SplitWriteF /\ valid(fault'[g])
      BY <3>1, <3>2, <3>4 DEF TornInv
    <3>6. SameKeys' => \A g \in Files : fault'[g] # NoFault => asked_torn_op(g)'
      <4>. SUFFICES ASSUME SameKeys, NEW g \in Files, fault'[g] # NoFault
                    PROVE  asked_torn_op(g)'
        BY <1>1
      <4>1. g \in Paths
        BY DEF Paths
      <4>2. CASE g = file
        BY <1>1, <3>3, <3>4, <4>1, <4>2 DEF asked_torn_op
      <4>3. CASE g # file
        <5>1. fault'[g] = fault[g]
          BY <3>4, <4>1, <4>3
        <5>2. asked_torn_op(g)
          BY <5>1 DEF TornInv
        <5>. QED
          BY <1>1, <5>1, <5>2 DEF asked_torn_op
      <4>. QED
        BY <4>2, <4>3
    <3>7. torn.size = 0
      BY <2>1 DEF TornInv, running
    <3>8. TornAsAsked'
      BY <2>1, <3>7 DEF TornAsAsked
    <3>. QED
      BY <1>0, <2>1, <3>4, <3>5, <3>6, <3>8 DEF TornInv, WithinWrite
  <2>. QED
    BY <2>2, <2>3
<1>4. CASE AppStep
  <2>1. UNCHANGED <<fault, crash, scenario, sent>> /\ running /\ scenario \in Scenarios
    BY <1>0, <1>4, Handlers DEF tables, user, FifoInv
  <2>2. PICK op, p, q, size, inner : /\ handler(op, p, q, size, inner)
                                     /\ op = "write" => p \in Files /\ size \in Sizes
    BY <1>0, <1>4, <2>1, Handlers
  <2>3. torn.size = 0
    BY <2>1 DEF TornInv, running
  <2>4. SameKeys' => \A f \in Files : fault'[f] # NoFault => asked_torn_op(f)'
    BY <1>1, <2>1 DEF TornInv, asked_torn_op
  <2>5. CASE UNCHANGED <<counter, torn, persisted>>
    <3>1. TornAsAsked'
      BY <2>3, <2>5 DEF TornAsAsked
    <3>. QED
      BY <1>0, <2>1, <2>3, <2>4, <2>5, <3>1 DEF TornInv, WithinWrite
  <2>6. CASE work(op, p, q, size, inner) /\ op = "write"
    <3>1. p \in Files /\ p \in Paths /\ size \in Sizes /\ size \in Nat \ {0}
      BY <2>2, <2>6, TornOpAssumption DEF Paths
    <3>2. counter \in [Files -> 0 .. MaxWrites] /\ counter[p] < MaxWrites /\ split_write(p, size)
      BY <2>6 DEF TornInv, work, split_write
    <3>3. counter' = IF fault[p] = NoFault THEN counter
                                           ELSE [counter EXCEPT ![p] = counter[p] + 1]
      BY <3>2 DEF split_write
    <3>4. counter' \in [Files -> 0 .. MaxWrites]
      BY <3>1, <3>2, <3>3, TornOpAssumption
    <3>5. CASE ~tears(p, size)
      <4>1. UNCHANGED <<torn, persisted>>
        BY <3>2, <3>5 DEF split_write
      <4>2. TornAsAsked'
        BY <2>3, <4>1 DEF TornAsAsked
      <4>. QED
        BY <1>0, <2>1, <2>3, <2>4, <3>4, <4>1, <4>2 DEF TornInv, WithinWrite
    <3>6. CASE tears(p, size)
      <4>. DEFINE f == fault[p]
                  w == UNION {bytes_of(piece) : piece \in pieces(f, size)}
      <4>1. torn' = [file |-> p, size |-> size] /\ persisted' = w
        BY <3>2, <3>6 DEF split_write
      <4>2. /\ f # NoFault /\ fits(f, size) /\ counter[p] + 1 = f.occurrence
            /\ f \in SplitWriteF /\ valid(f)
        BY <3>1, <3>6 DEF tears, TornInv
      <4>3. counter'[p] = f.occurrence
        <5>1. counter'[p] = counter[p] + 1
          BY <3>1, <3>2, <3>3, <4>2
        <5>. QED
          BY <4>2, <5>1
      <4>4. w \subseteq 0 .. size - 1 /\ w = wanted(f, size)
        BY <3>1, <4>2, TearWrites
      <4>. HIDE DEF f, w
      <4>6. TornAsAsked'
        <5>. SUFFICES ASSUME SameKeys
                      PROVE  \E c \in sources' :
                                LET g == torn_op_fault(<<c>>)
                                IN  /\ c.kind = "torn-op" /\ c.file = p
                                    /\ g.occurrence = counter'[p]
                                    /\ w = wanted(g, size)
          BY <1>1, <4>1 DEF TornAsAsked, SameKeys
        <5>1. PICK c \in sources :
                  c.kind = "torn-op" /\ c.file = p /\ torn_op_fault(<<c>>) = f
          BY <3>1, <4>2 DEF TornInv, asked_torn_op, f
        <5>. QED
          BY <1>1, <4>3, <4>4, <5>1
      <4>7. killed' = TRUE
        <5>1. trigger("after", op, p, q, TRUE) /\ ~fails("after", op)
          BY <2>6, <3>6 DEF work, fails, MultiPath
        <5>. QED
          BY <5>1 DEF trigger
      <4>8. WithinWrite' /\ torn'.size \in Sizes
        BY <3>1, <4>1, <4>4 DEF WithinWrite
      <4>. QED
        BY <1>0, <2>1, <2>4, <3>4, <4>6, <4>7, <4>8 DEF TornInv
    <3>. QED
      BY <3>5, <3>6
  <2>. QED
    BY <2>2, <2>5, <2>6 DEF handler, work
<1>5. CASE OpenFifos \/ Clear \/ Notify \/ Checkpoint \/ Send \/ UNCHANGED vars
  BY <1>2, <1>5 DEF OpenFifos, Clear, Notify, Checkpoint, Send, vars
<1>6. CASE ReadCrash \/ ReadTornSeq \/ ReadClear \/ ReadCheckpoint \/ ReadOther
  BY <1>2, <1>6 DEF ReadCrash, ReadTornSeq, ReadClear, ReadCheckpoint, ReadOther
<1>. QED
  BY <1>3, <1>4, <1>5, <1>6 DEF Next, Worker, AppStep

LEMMA TornInvariant == Spec => []TornInv
<1>1. Init => TornInv
  BY TornOpInit
<1>2. TornInv /\ [Next]_vars => TornInv'
  BY TornOpStep
<1>. QED
  BY <1>1, <1>2, PTL DEF Spec

\* split_write reads no byte outside the buffer of the write: every part that an
\* accepted fault names ends within the write, since the parts fit it.
THEOREM TearsWithinWrite == Spec => []WithinWrite
<1>1. TornInv => WithinWrite
  BY DEF TornInv
<1>. QED
  BY <1>1, TornInvariant, PTL

\* The write that is torn and its bytes on the disk are those of one fault that a user
\* asked for, in the configuration file or in a command, also where the parts do not
\* divide the write; the run of lfs_write that fills a gap counts as a write.
THEOREM TearsAsAsked == Spec => []TornAsAsked
<1>1. TornInv => TornAsAsked
  BY DEF TornInv
<1>. QED
  BY <1>1, TornInvariant, PTL

-----------------------------------------------------------------------------
(* The torn-op faults of the configuration file.                           *)

configured(f) == load_torn_op(scenario.injections, f)

\* While LazyFS runs no command has replaced a fault of the file, and its counter has
\* counted the writes.
ConfiguredInv ==
    /\ TornInv
    /\ done \in Seq(Runs)
    /\ running => \A f \in Files : configured(f) # NoFault =>
          /\ fault[f] = configured(f)
          /\ counter[f] = Cardinality(writes_of(f, Len(done)))
    /\ ConfiguredFaultFires

\* What one more call does to the writes of a file.
LEMMA WritesOf ==
    ASSUME NEW f, NEW T, done \in Seq(T), NEW d \in T, done' = Append(done, d),
           NEW n, n = Len(done)
    PROVE  LET mine == d.op = "write" /\ d.file = f
           IN  /\ \A m \in 1 .. n : writes_of(f, m)' = writes_of(f, m)
               /\ \A m \in 1 .. n : done'[m] = done[m]
               /\ Cardinality(writes_of(f, n + 1)') =
                     Cardinality(writes_of(f, n)) + (IF mine THEN 1 ELSE 0)
               /\ Cardinality(writes_of(f, n)) \in Nat
<1>. DEFINE mine == d.op = "write" /\ d.file = f
            W == writes_of(f, n)
<1>1. /\ n \in Nat /\ Len(done') = n + 1 /\ done'[n + 1] = d
      /\ \A m \in 1 .. n : done'[m] = done[m]
  OBVIOUS
<1>2. \A m \in 1 .. n : writes_of(f, m)' = writes_of(f, m)
  BY <1>1 DEF writes_of
<1>3. writes_of(f, n + 1)' = IF mine THEN W \cup {n + 1} ELSE W
  <2>1. /\ \A m \in 1 .. n + 1 :
              m \in writes_of(f, n + 1)' <=> IF m = n + 1 THEN mine ELSE m \in W
        /\ writes_of(f, n + 1)' \subseteq 1 .. n + 1 /\ W \subseteq 1 .. n
    BY <1>1 DEF writes_of
  <2>2. 1 .. n + 1 = 1 .. n \cup {n + 1} /\ n + 1 \notin 1 .. n
    BY <1>1
  <2>. HIDE DEF W, mine
  <2>3. CASE mine
    BY <2>1, <2>2, <2>3
  <2>4. CASE ~mine
    BY <2>1, <2>2, <2>4
  <2>. QED
    BY <2>3, <2>4
<1>4. W \subseteq 1 .. n /\ n + 1 \notin W
  BY <1>1 DEF writes_of
<1>5. IsFiniteSet(W)
  <2>. HIDE DEF W
  <2>1. IsFiniteSet(1 .. n)
    BY <1>1, FS_Interval
  <2>. QED
    BY <1>4, <2>1, FS_Subset
<1>6. /\ Cardinality(W) \in Nat
      /\ Cardinality(W \cup {n + 1}) = Cardinality(W) + 1
  <2>. HIDE DEF W
  <2>. QED
    BY <1>4, <1>5, FS_CardinalityType, FS_AddElement
<1>7. Cardinality(writes_of(f, n + 1)') = Cardinality(W) + (IF mine THEN 1 ELSE 0)
  <2>. HIDE DEF W
  <2>. QED
    BY <1>3, <1>6
<1>. QED
  BY <1>1, <1>2, <1>6, <1>7

LEMMA ConfiguredInit == ASSUME Init PROVE ConfiguredInv
<1>1. TornInv
  BY TornOpInit
<1>2. done = <<>> /\ counter = [f \in Files |-> 0]
  BY DEF Init, TornInit
<1>3. \A f \in Files : fault[f] = configured(f)
  BY DEF Init, load_config, configured, Paths
<1>4. \A f : Cardinality(writes_of(f, Len(done))) = 0
  <2>1. \A f : writes_of(f, Len(done)) = {}
    BY <1>2 DEF writes_of
  <2>. QED
    BY <2>1, FS_EmptySet
<1>5. ConfiguredFaultFires
  BY <1>2 DEF ConfiguredFaultFires
<1>. QED
  BY <1>1, <1>2, <1>3, <1>4, <1>5 DEF ConfiguredInv

LEMMA ConfiguredStep == ASSUME ConfiguredInv, [Next]_vars PROVE ConfiguredInv'
<1>0. /\ TornInv /\ TornInv' /\ scenario' = scenario /\ scenario \in Scenarios
      /\ HostsInv /\ Runs' = Runs
  BY TornOpStep, HostsStep DEF ConfiguredInv, TornInv, FifoInv, Runs
<1>1. \A f : configured(f)' = configured(f)
  BY <1>0 DEF configured
<1>2. ASSUME UNCHANGED <<fault, counter, done>>, running' => running PROVE ConfiguredInv'
  <2>1. \A f, n : writes_of(f, n)' = writes_of(f, n)
    BY <1>2 DEF writes_of
  <2>2. ConfiguredFaultFires'
    BY <1>0, <1>2, <2>1 DEF ConfiguredInv, ConfiguredFaultFires
  <2>3. done' \in Seq(Runs')
    BY <1>0, <1>2 DEF ConfiguredInv
  <2>. HIDE DEF Runs
  <2>4. ASSUME running', NEW f \in Files, configured(f)' # NoFault
        PROVE  /\ fault'[f] = configured(f)'
               /\ counter'[f] = Cardinality(writes_of(f, Len(done)))'
    BY <1>1, <1>2, <2>1, <2>4 DEF ConfiguredInv
  <2>. QED
    BY <1>0, <2>2, <2>3, <2>4 DEF ConfiguredInv
<1>3. CASE ReadTornOp
  <2>. DEFINE file == value(buffer(batch), "file", NoFile)
              g == torn_op_fault(buffer(batch))
  <2>1. running /\ UNCHANGED <<counter, done>>
    BY <1>3 DEF ReadTornOp, read
  <2>2. CASE fault' = fault
    BY <1>2, <2>1, <2>2
  <2>3. CASE fault' # fault
    <3>1. fault' = [fault EXCEPT ![file] = g] /\ fault[file] = NoFault
      BY <1>3, <2>3 DEF ReadTornOp
    <3>2. \A f \in Files : fault[f] # NoFault => fault'[f] = fault[f]
      <4>1. fault = [f \in Paths |-> fault[f]]
        BY <1>0 DEF TornInv
      <4>. HIDE DEF file, g
      <4>. QED
        BY <3>1, <4>1 DEF Paths
    <3>3. \A f, n : writes_of(f, n)' = writes_of(f, n)
      BY <2>1 DEF writes_of
    <3>4. ConfiguredFaultFires'
      BY <1>0, <2>1, <3>3 DEF ConfiguredInv, ConfiguredFaultFires
    <3>5. ASSUME running', NEW f \in Files, configured(f)' # NoFault
          PROVE  /\ fault'[f] = configured(f)'
                 /\ counter'[f] = Cardinality(writes_of(f, Len(done)))'
      BY <1>1, <2>1, <3>2, <3>3, <3>5 DEF ConfiguredInv
    <3>. QED
      BY <1>0, <2>1, <3>4, <3>5 DEF ConfiguredInv
  <2>. QED
    BY <2>2, <2>3
<1>4. ASSUME AppStep, done' # done PROVE ConfiguredInv'
  <2>1. PICK op, p, q, size, inner :
            /\ handler(op, p, q, size, inner)
            /\ [op |-> op, file |-> p, size |-> size, inner |-> inner] \in Runs
    BY <1>0, <1>4, Handlers
  <2>9. work(op, p, q, size, inner)
    BY <1>4, <2>1 DEF handler
  <2>. DEFINE T == Runs
              d == [op |-> op, file |-> p, size |-> size, inner |-> inner]
              mine(f) == d.op = "write" /\ d.file = f
  <2>2. /\ done \in Seq(T) /\ d \in T /\ done' = Append(done, d)
        /\ fault' = fault /\ running
    BY <1>0, <1>4, <2>1, <2>9, Handlers DEF work, ConfiguredInv
  <2>3. d.op = op /\ d.file = p /\ d.size = size
    OBVIOUS
  <2>. PICK n : n = Len(done)
    OBVIOUS
  <2>. HIDE DEF T, d
  <2>4. /\ n \in Nat /\ Len(done') = n + 1 /\ done'[n + 1] = d /\ DOMAIN done' = 1 .. n + 1
        /\ DOMAIN done = 1 .. n
    BY <2>2
  <2>5. \A f : /\ \A m \in 1 .. n : writes_of(f, m)' = writes_of(f, m) /\ done'[m] = done[m]
               /\ Cardinality(writes_of(f, n + 1)') =
                     Cardinality(writes_of(f, n)) + (IF mine(f) THEN 1 ELSE 0)
    <3>. TAKE f
    <3>1. done \in Seq(T) /\ d \in T /\ done' = Append(done, d) /\ n = Len(done)
      BY <2>2
    <3>. QED
      BY <3>1, WritesOf
  <2>6. ASSUME running', NEW f \in Files, configured(f) # NoFault
        PROVE  /\ counter'[f] = Cardinality(writes_of(f, n + 1)')
               /\ mine(f) /\ counter'[f] = configured(f).occurrence =>
                     ~fits(configured(f), d.size)
    <3>1. /\ fault[f] = configured(f) /\ counter[f] = Cardinality(writes_of(f, n))
          /\ counter \in [Files -> 0 .. MaxWrites]
      <4>1. n = Len(done) /\ running
        BY <2>2
      <4>2. counter \in [Files -> 0 .. MaxWrites]
        BY <1>0 DEF TornInv
      <4>. QED
        BY <2>6, <4>1, <4>2 DEF ConfiguredInv
    <3>3. CASE op = "write"
      <4>1. split_write(p, size) /\ ~tears(p, size)
        <5>1. /\ split_write(p, size)
              /\ trigger("after", op, p, q, op = "write" /\ tears(p, size))
          BY <2>9, <3>3, Zenon DEF work
        <5>2. running' => ~(op = "write" /\ tears(p, size))
          BY <5>1 DEF trigger, running, fails, MultiPath
        <5>. QED
          BY <2>6, <3>3, <5>1, <5>2
      <4>2. CASE p = f
        <5>1. counter' = [counter EXCEPT ![f] = counter[f] + 1]
          BY <2>6, <3>1, <4>1, <4>2 DEF split_write
        <5>2. counter'[f] = counter[f] + 1
          BY <3>1, <5>1
        <5>3. counter[f] + 1 = fault[f].occurrence => ~fits(fault[f], size)
          BY <2>6, <3>1, <4>1, <4>2 DEF tears
        <5>. QED
          BY <2>3, <2>5, <3>1, <3>3, <4>2, <5>2, <5>3
      <4>3. CASE p # f
        <5>1. counter'[f] = counter[f]
          BY <3>1, <4>1, <4>3 DEF split_write
        <5>2. ~mine(f)
          BY <2>3, <4>3
        <5>3. Cardinality(writes_of(f, n + 1)') = counter[f] + 0 /\ counter[f] \in Nat
          BY <2>5, <3>1, <5>2, TornOpAssumption
        <5>. QED
          BY <5>1, <5>2, <5>3
      <4>. QED
        BY <4>2, <4>3
    <3>4. CASE op # "write"
      <4>1. counter' = counter
        BY <2>9, <3>4 DEF work
      <4>2. ~mine(f)
        BY <2>3, <3>4
      <4>3. Cardinality(writes_of(f, n + 1)') = counter[f] + 0 /\ counter[f] \in Nat
        BY <2>5, <3>1, <4>2, TornOpAssumption
      <4>. QED
        BY <4>1, <4>2, <4>3
    <3>. QED
      BY <3>3, <3>4
  <2>7. ConfiguredFaultFires'
    <3>. SUFFICES ASSUME running', NEW f \in Files, NEW m \in 1 .. n + 1,
                         configured(f) # NoFault, m \in writes_of(f, m)',
                         Cardinality(writes_of(f, m)') = configured(f).occurrence
                  PROVE  ~fits(configured(f), done'[m].size)
      BY <1>0, <2>4 DEF ConfiguredFaultFires, configured
    <3>1. CASE m \in 1 .. n
      BY <2>2, <2>4, <2>5, <3>1 DEF ConfiguredInv, ConfiguredFaultFires, configured
    <3>2. CASE m = n + 1
      <4>1. mine(f)
        BY <2>4, <3>2 DEF writes_of
      <4>. QED
        BY <2>4, <2>6, <3>2, <4>1
    <3>. QED
      BY <2>4, <3>1, <3>2
  <2>8. done' \in Seq(T)
    BY <2>2
  <2>. QED
    BY <1>0, <1>1, <2>2, <2>4, <2>6, <2>7, <2>8 DEF ConfiguredInv, T
<1>7. ASSUME AppStep, done' = done PROVE ConfiguredInv'
  <2>1. fault' = fault /\ running
    BY <1>0, <1>7, Handlers
  <2>2. PICK op, p, q, size, inner : handler(op, p, q, size, inner)
    BY <1>0, <1>7, Handlers
  <2>3. ~work(op, p, q, size, inner)
    <3>1. done \in Seq(Runs)
      BY DEF ConfiguredInv
    <3>2. \A d : done # Append(done, d)
      BY <3>1
    <3>. QED
      BY <1>7, <3>2 DEF work
  <2>. QED
    BY <1>2, <1>7, <2>1, <2>2, <2>3 DEF handler
<1>5. CASE OpenFifos \/ Clear \/ Notify \/ Checkpoint \/ Send \/ UNCHANGED vars
  BY <1>2, <1>5 DEF OpenFifos, Clear, Notify, Checkpoint, Send, vars, torn_vars, running
<1>6. CASE ReadCrash \/ ReadTornSeq \/ ReadClear \/ ReadCheckpoint \/ ReadOther
  BY <1>2, <1>6
     DEF ReadCrash, ReadTornSeq, ReadClear, ReadCheckpoint, ReadOther, torn_vars, running, read
<1>. QED
  BY <1>3, <1>4, <1>5, <1>6, <1>7 DEF Next, Worker, AppStep

\* A torn-op fault of the configuration file fires at the run of lfs_write that it
\* names: no command replaces it, and every run for the file counts, also one that
\* fills a gap inside a call.
THEOREM ConfiguredFaultsFire == Spec => []ConfiguredFaultFires
<1>1. Init => ConfiguredInv
  BY ConfiguredInit
<1>2. ConfiguredInv /\ [Next]_vars => ConfiguredInv'
  BY ConfiguredStep
<1>3. ConfiguredInv => ConfiguredFaultFires
  BY DEF ConfiguredInv
<1>. QED
  BY <1>1, <1>2, <1>3, PTL DEF Spec

-----------------------------------------------------------------------------
(* Types.                                                                  *)

Flags == /\ killed \in BOOLEAN /\ terminated \in BOOLEAN /\ unsynced \in BOOLEAN
         /\ awaiting \in BOOLEAN /\ leftover \in BOOLEAN

LEMMA FlagsStep ==
    ASSUME Flags, scenario \in Scenarios, HostsInv, [Next]_vars
    PROVE  Flags'
<1>1. CASE Worker
  BY <1>1
     DEF Flags, Worker, OpenFifos, ReadCrash, ReadTornOp, ReadTornSeq, ReadClear, Clear, Notify,
         ReadCheckpoint, Checkpoint, ReadOther, user, torn_vars
<1>2. CASE Send
  BY <1>2 DEF Flags, Send, torn_vars
<1>3. CASE AppStep
  <2>1. UNCHANGED <<awaiting, leftover>>
    BY <1>3, Handlers DEF user
  <2>2. PICK op, p, q, size, inner : handler(op, p, q, size, inner)
    BY <1>3, Handlers
  <2>3. /\ \E timing, torn_now : trigger(timing, op, p, q, torn_now)
        /\ unsynced' \in BOOLEAN
    BY <2>2 DEF handler, work, Flags
  <2>. QED
    BY <2>1, <2>3 DEF Flags, trigger
<1>4. CASE UNCHANGED vars
  BY <1>4 DEF Flags, vars, torn_vars, user
<1>. QED
  BY <1>1, <1>2, <1>3, <1>4 DEF Next, AppStep

TypeInv ==
    /\ NoticeInv /\ ConfiguredInv /\ Flags
    /\ \A f \in crash : f.timing \in {"before", "after"}

LEMMA TypeInit == ASSUME Init PROVE TypeInv
<1>1. Flags /\ crash = {}
  BY DEF Flags, Init
<1>. QED
  BY <1>1, NoticeInit, ConfiguredInit DEF TypeInv

LEMMA TypeStep == ASSUME TypeInv, [Next]_vars PROVE TypeInv'
<1>0. NoticeInv' /\ ConfiguredInv' /\ Flags'
  BY NoticeStep, ConfiguredStep, FlagsStep DEF TypeInv, ConfiguredInv, TornInv, FifoInv
<1>1. \A f \in crash' : f.timing \in {"before", "after"}
  <2>1. CASE ReadCrash
    <3>. DEFINE f == crash_fault(buffer(batch))
                g == [f EXCEPT !.timing = IF @ = "before" THEN @ ELSE "after"]
    <3>1. crash' = crash \/ crash' = crash \cup {g}
      BY <2>1 DEF ReadCrash
    <3>2. g.timing \in {"before", "after"}
      BY DEF crash_fault
    <3>. HIDE DEF g
    <3>. QED
      BY <3>1, <3>2 DEF TypeInv
  <2>2. CASE crash' = crash
    BY <2>2 DEF TypeInv
  <2>3. CASE AppStep
    BY <2>2, <2>3, Handlers DEF TypeInv, ConfiguredInv, TornInv, FifoInv, tables
  <2>. QED
    BY <2>1, <2>2, <2>3
       DEF Next, Worker, OpenFifos, ReadTornOp, ReadTornSeq, ReadClear, Clear, Notify,
           ReadCheckpoint, Checkpoint, ReadOther, Send, AppStep, vars, tables
<1>. QED
  BY <1>0, <1>1 DEF TypeInv

\* The tables, the counters, the FIFO and the flags keep their types.
THEOREM TypeCorrect == Spec => []TypeOK
<1>1. Init => TypeInv
  BY TypeInit
<1>2. TypeInv /\ [Next]_vars => TypeInv'
  BY TypeStep
<1>3. TypeInv => TypeOK
  <2>. SUFFICES ASSUME TypeInv PROVE TypeOK
    OBVIOUS
  <2>1. \A f \in Files : fault[f] # NoFault => fault[f] \in SplitWriteF
    BY DEF TypeInv, ConfiguredInv, TornInv, Paths
  <2>2. torn.size \in Nat
    BY TornOpAssumption DEF TypeInv, ConfiguredInv, TornInv
  <2>3. persisted \subseteq Nat
    BY <2>2 DEF TypeInv, ConfiguredInv, TornInv, WithinWrite
  <2>4. TornTypeOK
    BY <2>1, <2>3 DEF TornTypeOK, TypeInv, ConfiguredInv, TornInv, Flags
  <2>5. hosts \subseteq [call : scenario.calls, filled : BOOLEAN]
    BY DEF TypeInv, ConfiguredInv, TornInv, HostsInv
  <2>. QED
    BY <2>4, <2>5 DEF TypeOK, TypeInv, NoticeInv, FifoInv, Flags
<1>. QED
  BY <1>1, <1>2, <1>3, PTL DEF Spec

=============================================================================
