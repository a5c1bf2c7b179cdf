---------------------------- MODULE FaultCommands ----------------------------
(***************************************************************************)
(* How faults get into LazyFS and fire: the injections of the              *)
(* configuration file (load_config), the commands that users write to the  *)
(* FIFO (fht_worker), the tables that both fill, and the triggers in the   *)
(* handlers, trigger_crash_fault and split_write (module TornOp).          *)
(*                                                                         *)
(* The worker reads what the FIFO holds: commands that were written since  *)
(* its last read arrive in one buffer, with a newline between them, and it *)
(* parses the buffer as one command.                                       *)
(*                                                                         *)
(* A command or an injection is a record: its kind, the keys that it gives *)
(* in their order, the value of each, and the keys whose value is not of   *)
(* the form the code accepts.  A regular expression is the set of paths it *)
(* matches.  A read returns whole commands.                                *)
(*                                                                         *)
(* A write that starts past the end of its file runs lfs_write for the     *)
(* zeros of the gap, and a truncate that makes its file longer runs it for *)
(* all it adds: with the triggers and the count of a write.                *)
(***************************************************************************)
EXTENDS TornOp, FiniteSetsExt

CONSTANTS
    Scenarios,  \* the injections in the file, the commands that users send, whether
                \* a notifier is configured and read, and the application's calls
    NoFile,     \* a file name that no file has
    NoRgx,      \* "none": no regular expression is given
    BadRgx,     \* a regular expression that does not parse
    MaxInt,     \* the largest number that stoi converts
    MaxRead,    \* bound on the commands that one read returns
    MaxCalls    \* bound on the runs of handlers after which no call begins

SinglePath == {"write", "truncate", "read"}
MultiPath == {"rename"}
Operations == SinglePath \cup MultiPath

CrashKeys == {"timing", "op", "from", "to"}
TornOpKeys == {"file", "persist", "parts", "parts_bytes", "occurrence"}
TornSeqKeys == {"file", "op", "persist", "occurrence"}
ClearKeys == {"occurrence", "timing", "op", "crash"}

VARIABLES
    scenario,    \* one of Scenarios
    sent,        \* how many of the commands were sent
    fifo,        \* the commands that the worker has not read
    worker,      \* "opening", "reading", "clearing", "notifying" or "syncing"
    crash,       \* crash_faults_before_map and crash_faults_after_map
    seqs,        \* per file: its torn-seq faults
    clears,      \* per file: its clear-cache faults
    terminated,  \* an exception has ended LazyFS
    killer,      \* the call in which LazyFS killed itself
    unsynced,    \* the cache holds unsynced data
    awaiting,    \* a user waits for the notice of a clear
    leftover,    \* data from before the awaited clear is still in the cache
    hosts,       \* the calls under way that run lfs_write inside
    done         \* history: the runs of handlers that did their work; inner is one
                 \* inside a call

tables == <<crash, seqs, clears>>
user == <<scenario, sent, awaiting>>
vars == <<torn_vars, tables, user, fifo, worker, terminated, killer, unsynced,
          leftover, hosts, done>>

running == ~killed /\ ~terminated

Paths == Files \cup {NoFile}

Keys == CrashKeys \cup TornOpKeys \cup TornSeqKeys \cup ClearKeys

keys_of(kind) ==
    CASE kind = "crash" -> CrashKeys
      [] kind = "torn-op" -> TornOpKeys
      [] kind = "torn-seq" -> TornSeqKeys
      [] OTHER -> {}

Rgx == {BadRgx} \cup SUBSET Paths

\* A negative number is rejected as zero is.
Command ==
    [kind : STRING, keys : Seq(Keys), bad : SUBSET (Keys \cup {"name"}),
     op : STRING, timing : STRING,
     from : Rgx, to : Rgx, file : Paths, persist : Seq(Nat), parts : Nat,
     parts_bytes : Seq(Nat), occurrence : Nat]

\* The parsers know the keys of the kind, and what is not bad is as they ask for.
CommandOK(c) ==
    LET good == ToSet(c.keys) \ c.bad
    IN  /\ ToSet(c.keys) \subseteq keys_of(c.kind)
        /\ c.kind = "crash" => c.bad \subseteq {"op", "timing"}
        /\ "op" \in good => c.op \in Operations
        /\ "timing" \in good => c.timing \in {"before", "after"}

ASSUME FaultCommandsAssumption ==
    /\ NoFile \notin Files
    /\ BadRgx # NoRgx
    /\ \A paths \in SUBSET Paths : paths # BadRgx /\ paths # NoRgx
    /\ NoFault \notin SplitWriteF
    /\ MaxInt \in Nat \ {0} /\ MaxRead \in Nat \ {0} /\ MaxCalls \in Nat
    /\ \A s \in Scenarios :
          /\ s.commands \in Seq({c \in Command : CommandOK(c)})
          /\ s.injections \in Seq(Command)
          /\ \A c \in s.calls :
                /\ c.op = "write" => c.from \in Files /\ c.size \in Sizes
                /\ c.fill # 0 => c.op \in {"write", "truncate"}
                                 /\ c.from \in Files /\ c.fill \in Sizes

NoCall == [op |-> "none", timing |-> "none", from |-> NoFile, to |-> NoFile]

-----------------------------------------------------------------------------
(* Parsing.                                                                *)

given(c) == ToSet(c.keys)

\* A command followed by another in the buffer: a newline and the other's "lazyfs"
\* are now part of its last value, or of its name.  An expression that does not
\* parse is none with more text behind it either.
cut(c) ==
    LET key == IF c.keys = <<>> THEN "name" ELSE Last(c.keys)
    IN  CASE key \in {"from", "to"} ->
               [c EXCEPT ![key] = IF @ = BadRgx THEN BadRgx ELSE {}]
          [] key = "file" -> [c EXCEPT !.file = NoFile]
          [] OTHER -> [c EXCEPT !.bad = @ \cup {key}]

\* The commands of one read as the parsers see them.
buffer(batch) == [i \in DOMAIN batch |-> IF i = Len(batch) THEN batch[i] ELSE cut(batch[i])]

\* The parsers go through the keys in their order: the last good value stays.
value(b, key, default) ==
    LET with == {i \in DOMAIN b : key \in given(b[i]) /\ key \notin b[i].bad}
    IN  IF with = {} THEN default ELSE b[Max(with)][key]

\* The crash parser checks op and timing, and skips what it does not know.
crash_fault(b) ==
    [timing |-> value(b, "timing", "none"), op |-> value(b, "op", "none"),
     from   |-> value(b, "from", NoRgx),    to |-> value(b, "to", NoRgx)]

\* Faulty variant: a bad value is reported but does not make the command invalid.
valid_crash_reported(b) ==
    LET f == crash_fault(b)
    IN  IF f.op \in MultiPath THEN f.from # NoRgx \/ f.to # NoRgx
                              ELSE f.from # NoRgx /\ f.to = NoRgx

valid_crash(b) ==
    LET f == crash_fault(b)
    IN  /\ \A i \in DOMAIN b : {"op", "timing"} \cap b[i].bad = {}
        /\ IF f.op \in MultiPath THEN f.from # NoRgx \/ f.to # NoRgx
                                 ELSE f.from # NoRgx /\ f.to = NoRgx

\* The parsers of torn faults take only their own keys, with good values.
valid_torn(b, kind, keys) ==
    \A i \in DOMAIN b : b[i].kind = kind /\ given(b[i]) \subseteq keys /\ b[i].bad = {}

\* parts goes before parts_bytes.
torn_op_fault(b) ==
    LET equal == \E i \in DOMAIN b : "parts" \in given(b[i])
    IN  [occurrence |-> value(b, "occurrence", 1), persist |-> value(b, "persist", <<>>),
         parts |-> value(b, "parts", -1),
         parts_bytes |-> IF equal THEN <<>> ELSE value(b, "parts_bytes", <<>>)]

torn_seq_fault(b) ==
    [op |-> value(b, "op", "none"), persist |-> value(b, "persist", <<>>),
     occurrence |-> value(b, "occurrence", 1)]

\* The numbers that the last good values of the keys have, for which stoi is called.
numbers(b) ==
    {value(b, "occurrence", 1), value(b, "parts", 0)}
        \cup ToSet(value(b, "persist", <<>>)) \cup ToSet(value(b, "parts_bytes", <<>>))

\* stoi throws.
out_of_range(b) == \E n \in numbers(b) : n > MaxInt

\* ReorderF::validate.
valid_seq(f) ==
    f.op = "write" /\ f.occurrence > 0 /\ \A i \in DOMAIN f.persist : f.persist[i] > 0

-----------------------------------------------------------------------------
(* The configuration file.                                                 *)

\* All the keys of a torn-op injection are needed, and one of parts and parts_bytes.
usable_torn_op(c) ==
    /\ c.kind = "torn-op"
    /\ given(c) \in {TornOpKeys \ {"parts"}, TornOpKeys \ {"parts_bytes"}}
    /\ valid(torn_op_fault(<<c>>))

\* The injections are taken in their order; a file keeps its first torn-op fault.
load_torn_op(injections, f) ==
    LET usable == {i \in DOMAIN injections :
                      usable_torn_op(injections[i]) /\ injections[i].file = f}
    IN  IF usable = {} THEN NoFault ELSE torn_op_fault(<<injections[Min(usable)]>>)

\* The errors of the check go to a variable that hides the one that is read, so a
\* fault is taken whether it is valid or not; the first per operation and file.
load_torn_seq(injections, f) ==
    LET usable == {i \in DOMAIN injections : /\ injections[i].kind = "torn-seq"
                                             /\ given(injections[i]) = TornSeqKeys
                                             /\ injections[i].file = f}
        loaded(i) == torn_seq_fault(<<injections[i]>>)
    IN  {[loaded(i) EXCEPT !.persist = SortSeq(@, <)] :
            i \in {i \in usable : \A j \in usable : j < i => loaded(j).op # loaded(i).op}}

\* ClearF::validate, and the keys without which there is no fault.
valid_clear(c) ==
    /\ c.kind = "clear-cache"
    /\ ClearKeys \subseteq given(c) /\ c.bad = {}
    /\ c.occurrence > 0
    /\ "from" \in given(c) /\ ("to" \in given(c) <=> c.op \in MultiPath)

load_clear(injections, f) ==
    LET usable == {i \in DOMAIN injections :
                      valid_clear(injections[i]) /\ injections[i].file = f}
    IN  {[timing |-> injections[i].timing, op |-> injections[i].op] :
            i \in {i \in usable : \A j \in usable : i <= j}}

\* The tables that the injections give.
load_config(injections) ==
    /\ fault = [f \in Paths |-> load_torn_op(injections, f)]
    /\ seqs = [f \in Paths |-> load_torn_seq(injections, f)]
    /\ clears = [f \in Paths |-> load_clear(injections, f)]

Init ==
    /\ scenario \in Scenarios
    /\ load_config(scenario.injections)
    /\ TornInit
    /\ killed = FALSE /\ terminated = FALSE
    /\ sent = 0 /\ fifo = <<>> /\ worker = "opening"
    /\ crash = {}
    /\ killer = NoCall
    /\ unsynced = FALSE /\ awaiting = FALSE /\ leftover = FALSE
    /\ hosts = {} /\ done = <<>>

-----------------------------------------------------------------------------
(* The worker.                                                             *)

\* Opening the notifier to write waits for somebody who opens it to read.
OpenFifos ==
    /\ running /\ worker = "opening"
    /\ scenario.notifier => scenario.reader
    /\ worker' = "reading"
    /\ UNCHANGED <<torn_vars, tables, user, fifo, terminated, killer, unsynced,
                   leftover, hosts, done>>

\* The commands that the next read returns.
batch == SubSeq(fifo, 1, IF Len(fifo) < MaxRead THEN Len(fifo) ELSE MaxRead)

read == /\ running /\ worker = "reading" /\ fifo # <<>>
        /\ fifo' = SubSeq(fifo, Len(batch) + 1, Len(fifo))

\* Faulty variant: the newline stays at the end of the buffer.
exactly_with_newline(kind) == FALSE

\* The buffer is compared with the whole command.
exactly(kind) == Len(batch) = 1 /\ Head(batch).kind = kind

\* add_crash_fault: .at throws for an operation that was not given, the regular
\* expression when it does not parse.
ReadCrash ==
    LET b == buffer(batch)
        f == crash_fault(b)
        added == [f EXCEPT !.timing = IF @ = "before" THEN @ ELSE "after"]
    IN  /\ read
        /\ Head(batch).kind = "crash"
        /\ \/ ~valid_crash(b) /\ UNCHANGED <<terminated, crash>>
           \/ /\ valid_crash(b) /\ (f.op \notin Operations \/ f.from = BadRgx)
              /\ terminated' = TRUE
              /\ UNCHANGED crash
           \/ /\ valid_crash(b) /\ f.op \in Operations /\ f.from # BadRgx
              /\ crash' = crash \cup {added}
              /\ UNCHANGED terminated
        /\ UNCHANGED <<torn_vars, seqs, clears, user, worker, killer, unsynced, leftover,
                       hosts, done>>

\* add_torn_op_fault.
ReadTornOp ==
    LET b == buffer(batch)
        f == torn_op_fault(b)
        file == value(b, "file", NoFile)
        accepted == /\ valid_torn(b, "torn-op", TornOpKeys)
                    /\ \E i \in DOMAIN b : given(b[i]) \cap {"parts", "parts_bytes"} # {}
    IN  /\ read
        /\ Head(batch).kind = "torn-op"
        /\ terminated' = (accepted /\ out_of_range(b))
        /\ IF accepted /\ ~out_of_range(b) /\ valid(f) /\ fault[file] = NoFault
           THEN fault' = [fault EXCEPT ![file] = f]
           ELSE UNCHANGED fault
        /\ UNCHANGED <<counter, torn, persisted, killed, tables, user, worker,
                       killer, unsynced, leftover, hosts, done>>

\* add_torn_seq_fault: one per file, and the list is not sorted.
ReadTornSeq ==
    LET b == buffer(batch)
        f == torn_seq_fault(b)
        file == value(b, "file", NoFile)
        accepted == valid_torn(b, "torn-seq", TornSeqKeys)
    IN  /\ read
        /\ Head(batch).kind = "torn-seq"
        /\ terminated' = (accepted /\ out_of_range(b))
        /\ IF accepted /\ ~out_of_range(b) /\ valid_seq(f) /\ seqs[file] = {}
           THEN seqs' = [seqs EXCEPT ![file] = {f}]
           ELSE UNCHANGED seqs
        /\ UNCHANGED <<torn_vars, crash, clears, user, worker, killer,
                       unsynced, leftover, hosts, done>>

\* Faulty variant: the cache is cleared in the background, after the notice.
ReadClearAsync ==
    /\ read /\ exactly("clear-cache")
    /\ worker' = "notifying"
    /\ UNCHANGED <<torn_vars, tables, user, terminated, killer, unsynced, leftover, hosts,
                   done>>

ReadClear ==
    /\ read /\ exactly("clear-cache")
    /\ worker' = "clearing"
    /\ UNCHANGED <<torn_vars, tables, user, terminated, killer, unsynced, leftover, hosts,
                   done>>

\* A clear, and a checkpoint, wait for the calls that hold the command lock.
Clear ==
    /\ running /\ worker = "clearing" /\ hosts = {}
    /\ unsynced' = FALSE /\ leftover' = FALSE
    /\ worker' = IF scenario.notifier THEN "notifying" ELSE "reading"
    /\ UNCHANGED <<torn_vars, tables, user, fifo, terminated, killer, hosts, done>>

Notify ==
    /\ running /\ worker = "notifying"
    /\ worker' = "reading"
    /\ awaiting' = FALSE
    /\ UNCHANGED <<torn_vars, tables, scenario, sent, fifo, terminated, killer,
                   unsynced, leftover, hosts, done>>

ReadCheckpoint ==
    /\ read /\ exactly("cache-checkpoint")
    /\ worker' = "syncing"
    /\ UNCHANGED <<torn_vars, tables, user, terminated, killer, unsynced, leftover, hosts,
                   done>>

Checkpoint ==
    /\ running /\ worker = "syncing" /\ hosts = {}
    /\ unsynced' = FALSE /\ leftover' = FALSE
    /\ worker' = "reading"
    /\ UNCHANGED <<torn_vars, tables, user, fifo, terminated, killer, hosts, done>>

\* A command that only displays something, or is not known: so are two commands
\* in one buffer when the first is not a fault.
ReadOther ==
    /\ read
    /\ Head(batch).kind \notin {"crash", "torn-op", "torn-seq"}
    /\ ~exactly("clear-cache") /\ ~exactly("cache-checkpoint")
    /\ UNCHANGED <<torn_vars, tables, user, worker, terminated, killer, unsynced,
                   leftover, hosts, done>>

Worker ==
    \/ OpenFifos \/ ReadCrash \/ ReadTornOp \/ ReadTornSeq
    \/ ReadClear \/ Clear \/ Notify \/ ReadCheckpoint \/ Checkpoint \/ ReadOther

-----------------------------------------------------------------------------
(* The users and the application.                                          *)

Send ==
    LET c == scenario.commands[sent + 1]
        waits == c.kind = "clear-cache" /\ scenario.notifier /\ scenario.reader
    IN  /\ running /\ ~awaiting /\ sent < Len(scenario.commands)
        /\ sent' = sent + 1
        /\ fifo' = Append(fifo, c)
        /\ awaiting' = waits
        /\ leftover' = (waits /\ unsynced)
        /\ UNCHANGED <<torn_vars, tables, scenario, worker, terminated, killer, unsynced,
                       hosts, done>>

\* The condition of trigger_crash_fault.  With two paths, from is compared only
\* when it matches the word "none", which is what stands for no expression.
matches(f, p, q) ==
    IF f.op \in MultiPath
    THEN f.from # NoRgx /\ f.to # BadRgx /\ (f.to = NoRgx \/ q \in f.to)
    ELSE p \in f.from

fires(timing, op, p, q) ==
    \E f \in crash : f.timing = timing /\ f.op = op /\ matches(f, p, q)

\* The expression for the second path is built at each call, and may not parse.
fails(timing, op) ==
    \E f \in crash : f.timing = timing /\ f.op = op /\ op \in MultiPath /\ f.to = BadRgx

stops(timing, op, p, q) == fires(timing, op, p, q) \/ fails(timing, op)

\* trigger_crash_fault.  The faults are tried in the order in which they were added,
\* which is left out: of one that fires and one that fails either may be first.
\* The write that is torn has just added a fault for its own path.
trigger(timing, op, p, q, torn_now) ==
    \/ /\ fires(timing, op, p, q) \/ torn_now
       /\ killed' = TRUE
       /\ killer' = [op |-> op, timing |-> timing, from |-> p, to |-> q]
       /\ UNCHANGED terminated
    \/ /\ fails(timing, op)
       /\ terminated' = TRUE
       /\ UNCHANGED <<killed, killer>>
    \/ /\ ~stops(timing, op, p, q) /\ ~torn_now
       /\ UNCHANGED <<killed, killer, terminated>>

\* What a handler does between its triggers, and the last one.
work(op, p, q, size, inner) ==
    /\ done' = Append(done, [op |-> op, file |-> p, size |-> size, inner |-> inner])
    /\ IF op = "write"
       THEN split_write(p, size) /\ unsynced' = TRUE
       ELSE UNCHANGED <<counter, torn, persisted, unsynced>>
    /\ trigger("after", op, p, q, op = "write" /\ tears(p, size))

\* A handler that runs no other: the trigger, the work, the trigger.
run(op, p, q, size, inner) ==
    \/ /\ stops("before", op, p, q)
       /\ trigger("before", op, p, q, FALSE)
       /\ UNCHANGED <<counter, torn, persisted, unsynced, done>>
    \/ /\ ~stops("before", op, p, q)
       /\ work(op, p, q, size, inner)

\* A call begins.  The kernel runs one write or truncate of a file at a time.
begin(c) ==
    /\ running /\ Len(done) < MaxCalls
    /\ c.op \in {"write", "truncate"} => \A h \in hosts : h.call.from # c.from

\* A call of the application that runs no other handler.
Call(c) ==
    /\ begin(c) /\ c.fill = 0
    /\ run(c.op, c.from, c.to, c.size, FALSE)
    /\ UNCHANGED <<fault, tables, user, fifo, worker, leftover, hosts>>

\* A sparse write or a truncate that makes the file longer: its first trigger.
BeginHost(c) ==
    /\ begin(c) /\ c.fill # 0
    /\ trigger("before", c.op, c.from, c.to, FALSE)
    /\ hosts' = hosts \cup {[call |-> c, filled |-> FALSE]}
    /\ UNCHANGED <<fault, counter, torn, persisted, tables, user, fifo, worker, unsynced,
                   leftover, done>>

\* It runs lfs_write for the bytes that are missing.
Fill(h) ==
    /\ running /\ ~h.filled
    /\ run("write", h.call.from, NoFile, h.call.fill, TRUE)
    /\ hosts' = (hosts \ {h}) \cup {[h EXCEPT !.filled = TRUE]}
    /\ UNCHANGED <<fault, tables, user, fifo, worker, leftover>>

\* It does its own work.
EndHost(h) ==
    /\ running /\ h.filled
    /\ work(h.call.op, h.call.from, h.call.to, h.call.size, FALSE)
    /\ hosts' = hosts \ {h}
    /\ UNCHANGED <<fault, tables, user, fifo, worker, leftover>>

GoOn == \E h \in hosts : Fill(h) \/ EndHost(h)

Next ==
    \/ Worker
    \/ Send
    \/ \E c \in scenario.calls : Call(c) \/ BeginHost(c)
    \/ GoOn

\* The worker is a thread that runs; a clear waits for the command lock, which it
\* gets (ClearFault).  So is each handler that has begun.
Spec == Init /\ [][Next]_vars /\ WF_vars(Worker) /\ WF_vars(GoOn)

-----------------------------------------------------------------------------
(* Properties.                                                             *)

TypeOK ==
    /\ TornTypeOK
    /\ sent \in 0 .. Len(scenario.commands)
    /\ worker \in {"opening", "reading", "clearing", "notifying", "syncing"}
    /\ \A f \in crash : f.timing \in {"before", "after"}
    /\ {terminated, unsynced, awaiting, leftover} \subseteq BOOLEAN
    /\ hosts \subseteq [call : scenario.calls, filled : BOOLEAN]
    /\ Len(fifo) <= sent

commands_sent == ToSet(SubSeq(scenario.commands, 1, sent))

\* A crash command as the README writes them.
complete(c) ==
    /\ {"timing", "op"} \subseteq given(c) /\ c.bad = {}
    /\ given(c) \cap {"from", "to"} # {}

\* Command c asks for a crash in call k.
asks(c, k) ==
    /\ c.kind = "crash" /\ complete(c)
    /\ c.op = k.op /\ c.timing = k.timing
    /\ "from" \in given(c) => k.from \in c.from
    /\ "to" \in given(c) => k.to \in c.to

\* In an operation on one path a crash fault fires only where a user asked for it,
\* whatever commands were rejected or met in one buffer, when the accepted ones
\* are complete.
CrashAsAsked ==
    /\ killer.op \in SinglePath /\ torn.size = 0
    /\ \A c \in commands_sent : c.kind = "crash" => complete(c) \/ c.bad # {}
    => \E c \in commands_sent : asks(c, killer)

\* The same for an operation on two paths.
TwoPathsAsAsked ==
    killer.op \in MultiPath => \E c \in commands_sent : asks(c, killer)

sources == commands_sent \cup ToSet(scenario.injections)

\* The write that is torn and the bytes of it on the disk are those of one fault that
\* a user asked for: the file, the number of the write since the fault was there, and
\* the parts.  The run of lfs_write that fills a gap counts, and may be the one.
\* Commands that met in one buffer do not mix: a cut command is not valid unless its
\* last key is its file, and then the keys of the next one must be the same.
TornAsAsked ==
    /\ torn.size > 0
    /\ \A c, d \in commands_sent :
          c.kind = "torn-op" /\ d.kind = "torn-op" /\ c.keys # <<>> /\ Last(c.keys) = "file"
          => given(c) = given(d)
    => \E c \in sources :
        LET f == torn_op_fault(<<c>>)
        IN  /\ c.kind = "torn-op" /\ c.file = torn.file
            /\ f.occurrence = counter[torn.file]
            /\ persisted = wanted(f, torn.size)

\* The first n runs of handlers that are writes of file f.
writes_of(f, n) == {m \in 1 .. n : done[m].op = "write" /\ done[m].file = f}

\* A torn-op fault of the configuration file fires at the run of lfs_write that it
\* names: LazyFS does not outlive it, whatever is sent to the FIFO.
ConfiguredFaultFires ==
    running => \A f \in Files : \A n \in DOMAIN done :
        LET g == load_torn_op(scenario.injections, f)
        IN  /\ g # NoFault
            /\ n \in writes_of(f, n) /\ Cardinality(writes_of(f, n)) = g.occurrence
            => ~fits(g, done[n].size)

\* The same with the writes that the application issues, as the README counts them.
IssuedWriteIsTorn ==
    running => \A f \in Files : \A n \in DOMAIN done :
        LET g == load_torn_op(scenario.injections, f)
            issued == {m \in writes_of(f, n) : ~done[m].inner}
        IN  /\ g # NoFault
            /\ n \in issued /\ Cardinality(issued) = g.occurrence
            => ~fits(g, done[n].size)

\* What the code throws for, in a command: an operation that is missing where it would
\* be used, an expression that does not parse, a number that is too large.
throws(c) ==
    \/ c.kind = "crash" /\ "op" \notin given(c) /\ valid_crash(<<c>>)
    \/ c.kind = "crash" /\ "from" \in given(c) /\ c.from = BadRgx
    \/ c.kind = "crash" /\ "to" \in given(c) /\ c.to = BadRgx
    \/ c.kind \in {"torn-op", "torn-seq"} /\ out_of_range(<<c>>)

\* LazyFS ends by an exception, in the worker or in a handler, only if a command was
\* sent that has in itself what the code throws for: commands that are rejected, or
\* that meet in one buffer, do not end it.
NoNewException == terminated => \E c \in commands_sent : throws(c)

\* A user who has the notice of a clear finds nothing in the cache from before it.
NoticeMeansCleared == ~awaiting => ~leftover

\* A user who sends only clear-cache commands, each after the notice of the one
\* before, gets every notice, unless LazyFS ends.
ClearIsAnswered ==
    /\ awaiting
    /\ \A i \in DOMAIN scenario.commands : scenario.commands[i].kind = "clear-cache"
    ~> ~awaiting \/ ~running
==============================================================================
