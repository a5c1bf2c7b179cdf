--------------------------- MODULE MCFaultCommands ---------------------------
(* Instances of FaultCommands for TLC. *)
EXTENDS FaultCommands

CONSTANTS f1, f2, f3

\* A command or an injection that gives these keys; the other values are not used.
Plain(kind, keys) ==
    [kind |-> kind, keys |-> keys, bad |-> {}, op |-> "write", timing |-> "before",
     from |-> {f1}, to |-> {f2}, file |-> f1, persist |-> <<1>>, parts |-> 2,
     parts_bytes |-> <<1, 1>>, occurrence |-> 1]

Crash(timing, op, from) ==
    [Plain("crash", <<"timing", "op", "from">>) EXCEPT
        !.timing = timing, !.op = op, !.from = from]

TwoPaths(keys) == [Plain("crash", keys) EXCEPT !.op = "rename"]

Split(keys) == Plain("torn-op", keys)

\* As the README writes them, in other orders, without a key, with bad values.
Commands ==
    { Crash("before", "write", {f1}), Crash("after", "truncate", {f2}),
      [Plain("crash", <<"from", "timing", "op">>) EXCEPT !.from = {f2}],
      [Crash("before", "write", {f1}) EXCEPT !.bad = {"timing"}],
      [Crash("before", "write", {f2}) EXCEPT !.bad = {"op"}],
      Crash("before", "read", BadRgx),
      Plain("crash", <<"timing", "from">>),
      TwoPaths(<<"timing", "op", "from", "to">>), TwoPaths(<<"timing", "op", "to">>),
      [TwoPaths(<<"timing", "op", "from", "to">>) EXCEPT !.to = BadRgx],
      Split(<<"file", "persist", "parts", "occurrence">>),
      [Split(<<"persist", "parts", "occurrence", "file">>) EXCEPT
          !.file = f2, !.persist = <<2>>],
      [Split(<<"file", "persist", "parts_bytes">>) EXCEPT !.persist = <<2>>],
      [Split(<<"file", "persist", "parts", "occurrence">>) EXCEPT !.occurrence = MaxInt + 1],
      Split(<<"file", "persist", "parts">>),
      Split(<<"file", "persist">>),
      Plain("torn-seq", <<"op", "file", "persist", "occurrence">>),
      [Plain("torn-seq", <<"op", "file", "persist">>) EXCEPT !.persist = <<MaxInt + 1>>],
      Plain("clear-cache", <<>>), Plain("cache-checkpoint", <<>>), Plain("other", <<>>) }

Write(f, size) == [op |-> "write", from |-> f, to |-> NoFile, size |-> size, fill |-> 0]
Sparse(f, gap, size) == [Write(f, size) EXCEPT !.fill = gap]
Grow(f, more) == [op |-> "truncate", from |-> f, to |-> NoFile, size |-> 0, fill |-> more]
Rename(f, g) == [op |-> "rename", from |-> f, to |-> g, size |-> 0, fill |-> 0]

Scenario(injections, commands, notifier, reader, app) ==
    [injections |-> injections, commands |-> commands, notifier |-> notifier,
     reader |-> reader, calls |-> app]

SomeCalls == {Write(f1, 2), Grow(f2, 2), Rename(f1, f2)}

\* Any two commands, and three that are read in one buffer or in several.
Sending == {Scenario(<<>>, s, TRUE, TRUE, SomeCalls) : s \in TupleOf(Commands, 2)}
    \cup {Scenario(<<>>, s, n, n, {Write(f1, 2), Sparse(f1, 3, 2)}) :
             s \in BoundedSeq({Plain("clear-cache", <<>>)}, 3), n \in BOOLEAN}
    \cup {Scenario(<<>>, <<Plain("clear-cache", <<>>)>>, TRUE, FALSE, {Write(f1, 2)})}

\* Every list of up to two parts, in any order, up to one past the end.
Lists == BoundedSeq(0 .. 4, 2)

Equal == {[Split(<<"file", "persist", "parts", "occurrence">>) EXCEPT
             !.occurrence = o, !.persist = l, !.parts = n] :
          o \in 0 .. 2, l \in Lists, n \in 0 .. 3}

Custom == {[Split(<<"file", "persist", "parts_bytes", "occurrence">>) EXCEPT
              !.occurrence = 2, !.persist = l, !.parts_bytes = b] :
           l \in Lists, b \in BoundedSeq(0 .. 2, 3)}

\* One injection of the configuration file, or two for one file and a torn command.
Configuring == {Scenario(<<c>>, <<>>, FALSE, FALSE,
                         {Write(f1, n) : n \in Sizes} \cup {Sparse(f1, 1, 2)}) :
                   c \in Equal \cup Custom}

Injections ==
    { [Split(<<"file", "persist", "parts", "occurrence">>) EXCEPT !.occurrence = 2],
      Split(<<"file", "persist", "parts", "parts_bytes", "occurrence">>),
      Plain("torn-seq", <<"op", "file", "persist", "occurrence">>),
      [Plain("torn-seq", <<"op", "file", "persist", "occurrence">>) EXCEPT !.occurrence = 0],
      Plain("clear-cache", <<"timing", "op", "from", "occurrence", "crash">>),
      Plain("clear-cache", <<"timing", "op", "to", "occurrence", "crash">>) }

Mixing == {Scenario(s, <<c>>, FALSE, FALSE, {Write(f1, 2), Sparse(f1, 3, 2), Rename(f1, f2)}) :
              s \in TupleOf(Injections, 2), c \in {c \in Commands : c.kind \in {"torn-op", "torn-seq"}}}

All == Sending \cup Configuring \cup Mixing

\* A torn-op injection for the first write, which is of two bytes and may be sparse.
FirstWrite ==
    {Scenario(<<[Split(<<"file", "persist", "parts_bytes", "occurrence">>) EXCEPT
                    !.persist = <<2>>]>>,
              <<>>, FALSE, FALSE, {Write(f1, 2), Sparse(f1, 10, 2), Grow(f1, 10)})}

\* The README's second example of a crash command.
Renaming == {Scenario(<<>>, <<TwoPaths(<<"timing", "op", "from", "to">>)>>, FALSE, FALSE,
                      {Rename(p, q) : p, q \in Files})}
==============================================================================
