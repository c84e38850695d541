----------------------------- MODULE Reduction -----------------------------
(***************************************************************************)
(* What the machine reductions share (tm/reduction.rs): the shape of a     *)
(* refusal, which every stage hands on unchanged, and the ceiling on the   *)
(* states a stage may create.  A generated state is a record whose fields  *)
(* are the parts the code joins into the state's name.                     *)
(***************************************************************************)
EXTENDS Machine, TLC

Refusals == {"too-many-states", "too-many-tapes", "alphabet-collision",
             "code-does-not-cover-alphabet", "left-end-collision"}

Refused(reason) ==
  [start |-> reason, tapes |-> 1, states |-> [s \in {reason} |-> StuckState]]

\* The shape is checked, not only the name.
IsRefusal(m) ==
  /\ Cardinality(DOMAIN m.states) = 1
  /\ m.tapes = 1
  /\ m.states[m.start] = StuckState
  /\ m.start \in Refusals

\* A function as a table: TLC evaluates each entry once.
Tabulated(f) == f @@ <<>>

\* A stage's machine, refused when its table would have to hold more names than
\* its ceiling.
Built(table, ceiling, start, tapes) ==
  IF Cardinality(DOMAIN table) > ceiling THEN Refused("too-many-states")
  ELSE [start |-> start, tapes |-> tapes, states |-> Tabulated(table)]

\* A rule of a machine with the given number of tapes that reads and moves
\* tape i alone.
OnTape(tapes, i, read, move, next) ==
  [read  |-> [j \in 1..tapes |-> IF j = i THEN read ELSE Wild],
   write |-> [j \in 1..tapes |-> Wild],
   moves |-> [j \in 1..tapes |-> IF j = i THEN move ELSE "S"],
   next  |-> next]

\* A rule of a one-tape machine.
R1(read, write, move, next) ==
  [read |-> <<read>>, write |-> <<write>>, moves |-> <<move>>, next |-> next]

\* One tape in the original's coordinates: its cells, the head's index and
\* the index of the cell the head started on.
OriginSnapshot(cells, head, origin) == [cells |-> cells, head |-> head, origin |-> origin]
=============================================================================
