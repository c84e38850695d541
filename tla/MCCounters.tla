----------------------------- MODULE MCCounters -----------------------------
(***************************************************************************)
(* Small machines to compile, and small programs, for CounterRun.          *)
(***************************************************************************)
EXTENDS CounterRun, TLC

Accept == [accept |-> TRUE, rules |-> <<>>]
State(rules) == [accept |-> FALSE, rules |-> rules]
Rule(read, write, moves, next) == [read |-> read, write |-> write, moves |-> moves, next |-> next]
R(read, write, move, next) == Rule(<<read>>, <<write>>, <<move>>, next)

\* Walks over a unary string and appends a mark.
Increment ==
  [start |-> "scan", tapes |-> 1,
   states |-> [scan |-> State(<<R("1", "*", "R", "scan"), R("_", "1", "S", "done")>>),
               done |-> Accept]]

\* Adds one to a binary number, its most significant digit first.
BinaryIncrement ==
  [start |-> "right", tapes |-> 1,
   states |-> [right |-> State(<<R("0", "*", "R", "right"), R("1", "*", "R", "right"),
                                 R("_", "*", "L", "carry")>>),
               carry |-> State(<<R("1", "0", "L", "carry"), R("0", "1", "S", "done"),
                                 R("_", "1", "S", "done")>>),
               done |-> Accept]]

\* Copies one tape to the other, the second head behind the first; a rule
\* that moves nothing comes between.
Copy ==
  [start |-> "copy", tapes |-> 2,
   states |-> [copy |-> State(<<Rule(<<"1", "*">>, <<"x", "1">>, <<"R", "L">>, "mark")>>),
               mark |-> State(<<Rule(<<"1", "*">>, <<"*", "*">>, <<"S", "S">>, "copy"),
                                Rule(<<"_", "_">>, <<"x", "1">>, <<"S", "S">>, "turn")>>),
               turn |-> State(<<Rule(<<"x", "1">>, <<"*", "*">>, <<"L", "S">>, "turn"),
                                Rule(<<"_", "1">>, <<"*", "x">>, <<"S", "R">>, "turn"),
                                Rule(<<"_", "_">>, <<"*", "*">>, <<"S", "S">>, "done")>>),
               done |-> Accept]]

\* Moves once, then goes round two rules that move nothing for ever.
Spinner ==
  [start |-> "a", tapes |-> 1,
   states |-> [a |-> State(<<R("1", "*", "L", "b")>>),
               b |-> State(<<R("_", "1", "S", "c")>>),
               c |-> State(<<R("1", "_", "S", "b")>>)]]

\* The blank is its only symbol.
BlankOnly == [start |-> "a", tapes |-> 1,
              states |-> [a |-> State(<<R("_", "*", "R", "b")>>),
                          b |-> State(<<R("_", "*", "L", "c")>>), c |-> Accept]]
RunsOn == [start |-> "run", tapes |-> 1, states |-> [run |-> State(<<R("*", "1", "R", "run")>>)]]
NoStart == [start |-> "gone", tapes |-> 1, states |-> [a |-> Accept]]

Wide == [macros |-> 60, bits |-> 40, steps |-> 20000]
Compiled(machine, input) ==
  [kind |-> "machine", machine |-> machine, input |-> input, caps |-> Wide]
Given(base, macros, counters) ==
  [kind |-> "program", counters |-> counters, caps |-> Wide,
   program |-> [counters |-> 3, scratch |-> 3, base |-> base, macros |-> macros, start |-> 1]]

Mv(push, pop, s, exits) == CP!Move(push, pop, s, exits)
End == CP!Stop("end", <<>>)

\* Empties the second counter into the first, then a digit of it back.
Pour(base) == <<Mv(1, 2, base - 1, [d \in 1..base |-> IF d = 1 THEN 2 ELSE 1]),
                Mv(2, 1, 0, [d \in 1..base |-> 3]), End>>
Branching == <<Mv(1, 2, 2, <<2, 3, 1>>), Mv(2, 1, 0, <<3, 4, 5>>), Mv(2, 1, 1, <<4, 5, 4>>), End, End>>
\* n digits from the second counter to the first, and n back, for ever.
Swing(base, n) ==
  [j \in 1..(2 * n) |-> Mv(IF j <= n THEN 1 ELSE 2, IF j <= n THEN 2 ELSE 1, 1,
                           [d \in 1..base |-> (j % (2 * n)) + 1])]
Grow(base) == <<Mv(1, 2, base - 1, [d \in 1..base |-> 1])>>
OnceThenSpin == <<Mv(1, 2, 1, <<2, 2>>), CP!Spin>>

AllJobs ==
  {Compiled(Increment, << <<"1", "1", "1">> >>), Compiled(Increment, <<>>),
   Compiled(BinaryIncrement, << <<"1", "0", "1", "1">> >>),
   Compiled(BinaryIncrement, << <<"1", "1">> >>),
   Compiled(Copy, << <<"1", "1">> >>), Compiled(Copy, << <<"1">>, <<"1", "_", "x">> >>),
   Compiled(Spinner, << <<"1">> >>), Compiled(BlankOnly, <<>>),
   Compiled(RunsOn, <<>>), Compiled(NoStart, <<>>), Compiled(Copy, << <<>>, <<>>, <<>> >>)}
   \cup {Given(3, Branching, <<c1, c2, 0>>) : c1 \in {0, 7}, c2 \in {0, 26, 140}}
   \cup {Given(b, Pour(b), <<5, c, 0>>) : b \in {2, 9, 11}, c \in {1, 100, 207}}
   \cup {[Given(2, Swing(2, 4), <<1, 1, 0>>) EXCEPT !.caps.macros = 250],
         [Given(2, Swing(2, 1), <<90, 90, 0>>) EXCEPT !.caps.macros = 24],
         Given(9, Grow(9), <<0, 207, 0>>)}
   \cup {[Given(b, Grow(b), <<1, 0, 0>>) EXCEPT !.caps.bits = n] : b \in {1, 2, 3, 7}, n \in {9, 21}}
   \cup {Given(2, OnceThenSpin, <<0, 5, 0>>), Given(3, Branching, <<0, 0, 1>>), Given(0, Branching, <<0, 0, 0>>)}

\* The table, which TLC evaluates once as a definition of its own.
Rows == FoldLeft(LAMBDA rows, j : Append(rows, Row(j)), <<>>, Listing(AllJobs))
MCTable == LET table == Rows IN table
=============================================================================
