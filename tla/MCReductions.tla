---------------------------- MODULE MCReductions ----------------------------
(***************************************************************************)
(* Small machines, stage lists and caps for Reductions.                    *)
(***************************************************************************)
EXTENDS Reductions, TLC

Accept == [accept |-> TRUE, rules |-> <<>>]
State(rules) == [accept |-> FALSE, rules |-> rules]
Rule(read, write, moves, next) == [read |-> read, write |-> write, moves |-> moves, next |-> next]
R(read, write, move, next) == Rule(<<read>>, <<write>>, <<move>>, next)

\* Goes left of its origin, comes back over it, and on to the right.
Walker ==
  [start |-> "out", tapes |-> 1,
   states |-> [out  |-> State(<<R("x", "y", "L", "out"), R("_", "x", "L", "back")>>),
               back |-> State(<<R("_", "_", "R", "right")>>),
               right |-> State(<<R("x", "*", "R", "right"), R("y", "z", "R", "right"),
                                 R("*", "y", "S", "done")>>),
               done |-> Accept]]

\* Copies its first tape backwards to its second and sticks on a "y".
Copier ==
  [start |-> "copy", tapes |-> 2,
   states |-> [copy |-> State(<<Rule(<<"x", "*">>, <<"*", "x">>, <<"R", "L">>, "copy"),
                                Rule(<<"_", "_">>, <<"x", "*">>, <<"S", "R">>, "turn")>>),
               turn |-> State(<<Rule(<<"x", "x">>, <<"_", "*">>, <<"L", "R">>, "turn"),
                                Rule(<<"x", "_">>, <<"*", "*">>, <<"S", "S">>, "done")>>),
               done |-> Accept]]

\* Never halts.
Runner == [start |-> "run", tapes |-> 1,
           states |-> [run |-> State(<<R("*", "x", "R", "run")>>)]]
LeftRunner == [start |-> "run", tapes |-> 1,
               states |-> [run |-> State(<<R("*", "*", "L", "run")>>)]]
Naming(s) == [start |-> "s", tapes |-> 1,
              states |-> [s |-> State(<<R(s, "*", "R", "t")>>), t |-> Accept]]
Wide == [start |-> "s", tapes |-> 4,
         states |-> [s |-> State(<<Rule(<<"*", "*", "*", "*">>, <<"*", "*", "*", "*">>,
                                        <<"R", "R", "R", "R">>, "t")>>), t |-> Accept]]

Job(machine, input, plan, steps, enough) ==
  [machine |-> machine, input |-> input, plan |-> plan, pads |-> <<>>, ceiling |-> 5000,
   caps |-> [steps |-> steps, cells |-> 400], enough |-> enough, amounts |-> {}]

Long == 60000
Never == MaxU64 + 1

AllJobs ==
  LET W == <<Walker, << <<"x">> >> >>
      C == <<Copier, << <<"x", "x">> >> >>
      S == <<Copier, << <<"x", "y">> >> >>
      Run(x, plan) == Job(x[1], x[2], plan, Long, 50)
      Plans == {<<"Fold">>, <<"SingleTape">>, <<"TwoSymbol">>, <<"Universal">>}
  IN  {Run(W, <<>>), Run(C, <<>>)}
        \cup {Run(x, plan) : x \in {W, C, S}, plan \in Plans}
        \cup {Run(W, plan) : plan \in {<<"Fold", "SingleTape">>, <<"Fold", "TwoSymbol">>,
                                       <<"SingleTape", "TwoSymbol">>}}
        \cup {Run(C, <<"Fold", "SingleTape">>)}
        \* caps met and raised
        \cup {[Job(x[1], x[2], <<>>, steps, 12) EXCEPT !.caps.cells = cells, !.amounts = {0, 2, MaxU64}]
                : x \in {W, C}, steps \in {0, 3, 6}, cells \in {1, 3, 9}}
        \cup {[Job(Runner, <<>>, <<>>, 3, Never) EXCEPT !.amounts = {1, 4}]}
        \* skeletons too small
        \cup {[Job(x[1], x[2], <<"SingleTape">>, Long, Never) EXCEPT !.pads = pads]
                : x \in {W, C, <<LeftRunner, <<>> >>}, pads \in {<<0, 0>>, <<1, 0>>, <<2, 3>>}}
        \* refusals
        \cup {Job(m, <<>>, plan, 50, Never)
                : m \in {Naming("|"), Naming("A"), Wide},
                  plan \in {<<"Fold", "SingleTape", "TwoSymbol">>, <<"SingleTape", "TwoSymbol">>}}
        \cup {[Job(Walker, <<>>, <<"Fold", "SingleTape", "TwoSymbol">>, 9, Never) EXCEPT !.ceiling = n]
                : n \in {0, 1, 10, 30, 200}}
        \cup {Job(Walker, << <<s>> >>, <<stage>>, 50, Never) : s \in {"|", "x"}, stage \in {"Fold", "SingleTape"}}

\* The table, which TLC evaluates once as a definition of its own.
Rows == FoldLeft(LAMBDA rows, j : Append(rows, Row(j)), <<>>, Listing(AllJobs))
MCTable == LET table == Rows IN table
=============================================================================
