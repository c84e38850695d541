------------------------------ MODULE Machine ------------------------------
(***************************************************************************)
(* The multi-tape Turing machine of crates/redextape-core: the tables of   *)
(* tm/machine.rs, the zipper tapes of tm/sim.rs and the stepping cursor of *)
(* trace.rs.                                                               *)
(*                                                                         *)
(* A machine is [start, tapes, states]; states maps a state to             *)
(* [accept, rules], so its domain stands for the table's ids and names.  A *)
(* rule is [read, write, moves, next] with one entry per tape; Wild in read *)
(* matches every symbol, Wild in write leaves the cell alone.  Tapes are    *)
(* numbered from 1 and cells from 0.                                       *)
(***************************************************************************)
EXTENDS Integers, Sequences, FiniteSets, SequencesExt, FiniteSetsExt, Functions

CONSTANT MaxU64     \* the largest value of the caps' and counters' type

ASSUME MaxU64Assumption == MaxU64 \in Nat

Blank == "_"
Wild == "*"

\* The elements of a set in some order, and those of a set of integers in theirs.
Listing(S) == FoldSet(LAMBDA x, seq : <<x>> \o seq, <<>>, S)
Ascending(S) ==
  [n \in 1..Cardinality(S) |-> CHOOSE x \in S : Cardinality({y \in S : y < x}) = n - 1]

\* A vector of Rust, read as the sequence it is.
IsVector(v) == Len(v) \in Nat /\ v = [i \in 1..Len(v) |-> v[i]]

StuckState == [accept |-> FALSE, rules |-> <<>>]

Rules(m, s) == m.states[s].rules

\* The symbols any rule reads or writes.
Alphabet(m) ==
  UNION { UNION {ToSet(Rules(m, s)[j].read) \cup ToSet(Rules(m, s)[j].write)
                   : j \in DOMAIN Rules(m, s)} : s \in DOMAIN m.states } \ {Wild}

\* No problem validate reports: the start and every target are states, every
\* rule has one entry per tape, and an accepting state has no rules.
Valid(m) ==
  /\ m.start \in DOMAIN m.states
  /\ \A s \in DOMAIN m.states :
       /\ m.states[s].accept => Rules(m, s) = <<>>
       /\ \A j \in DOMAIN Rules(m, s) :
            LET r == Rules(m, s)[j]
            IN  /\ {Len(r.read), Len(r.write), Len(r.moves)} = {m.tapes}
                /\ r.next \in DOMAIN m.states

\* What the types of a table say: its rules are vectors of symbols and moves.
Moves == {"L", "R", "S"}
Typed(m) ==
  /\ m.tapes \in Nat
  /\ \A s \in DOMAIN m.states :
       /\ IsVector(Rules(m, s))
       /\ \A j \in DOMAIN Rules(m, s) :
            LET r == Rules(m, s)[j]
            IN  /\ IsVector(r.read) /\ IsVector(r.write)
                /\ r.moves \in Seq(Moves)

(***************************************************************************)
(* Tapes.  left and right are stacks whose last element lies next to the   *)
(* head; blanks beyond them are not stored.                                *)
(***************************************************************************)
NewTape(init) ==
  IF init = <<>> THEN [left |-> <<>>, head |-> Blank, right |-> <<>>]
  ELSE [left |-> <<>>, head |-> Head(init), right |-> Reverse(Tail(init))]

Popped(stack) == IF stack = <<>> THEN <<>> ELSE Front(stack)
Top(stack) == IF stack = <<>> THEN Blank ELSE Last(stack)

Stepped(t, mv) ==
  CASE mv = "S" -> t
    [] mv = "L" -> [left |-> Popped(t.left), head |-> Top(t.left),
                    right |-> Append(t.right, t.head)]
    [] mv = "R" -> [left |-> Append(t.left, t.head), head |-> Top(t.right),
                    right |-> Popped(t.right)]

CellCount(t) == Len(t.left) + 1 + Len(t.right)
HeadIndex(t) == Len(t.left)
Snapshot(t) == t.left \o <<t.head>> \o Reverse(t.right)

\* The cell at a 0-based index, blank past either end.
CellAt(cells, i) == IF i + 1 \in DOMAIN cells THEN cells[i + 1] ELSE Blank

FromSnapshot(cells, head) ==
  [left  |-> [i \in 1..head |-> CellAt(cells, i - 1)],
   head  |-> CellAt(cells, head),
   right |-> Reverse(SubSeq(cells, head + 2, Len(cells)))]

\* Up to radius cells on each side of the head, and the index of the first.
Window(t, radius) ==
  LET start == IF Len(t.left) > radius THEN Len(t.left) - radius ELSE 0
      after == IF Len(t.right) > radius THEN Len(t.right) - radius ELSE 0
  IN  [cells |-> SubSeq(t.left, start + 1, Len(t.left)) \o <<t.head>>
                   \o Reverse(SubSeq(t.right, after + 1, Len(t.right))),
       start |-> start]

\* Mutant: the slice is cut out of the stacks as they lie.
SliceUnreversed(t, from0, to0) ==
  LET cells == t.left \o <<t.head>> \o t.right
  IN  SubSeq(cells, from0 + 1, IF to0 < Len(cells) THEN to0 ELSE Len(cells))

\* Cells from..to - 1 in the snapshot's coordinates, read off the two stacks.
Slice(t, from0, to0) ==
  LET len  == CellCount(t)
      from == IF from0 < len THEN from0 ELSE len
      to   == IF to0 < len THEN to0 ELSE len
      left == Len(t.left)
      size == Len(t.right)
      start == IF from > left + 1 THEN from ELSE left + 1
      upTo == IF to < left THEN to ELSE left
  IN  IF from >= to THEN <<>>
      ELSE (IF from < left THEN SubSeq(t.left, from + 1, upTo) ELSE <<>>)
           \o (IF from <= left /\ left < to THEN <<t.head>> ELSE <<>>)
           \o (IF to > left + 1
               THEN Reverse(SubSeq(t.right, size - (to - 1 - left) + 1,
                                            size - (start - left) + 1))
               ELSE <<>>)

(***************************************************************************)
(* Rules.                                                                  *)
(***************************************************************************)
RuleMatches(read, tapes) ==
  /\ Len(read) = Len(tapes)
  /\ \A i \in DOMAIN read : read[i] \in {Wild, tapes[i].head}

Apply(rule, tapes) ==
  [i \in DOMAIN tapes |->
     Stepped(IF rule.write[i] = Wild THEN tapes[i]
             ELSE [tapes[i] EXCEPT !.head = rule.write[i]], rule.moves[i])]

(***************************************************************************)
(* The cursor: the machine's one stepper.                                  *)
(***************************************************************************)
TotalCells(tapes) ==
  LET sum[k \in 0..Len(tapes)] == IF k = 0 THEN 0 ELSE sum[k - 1] + CellCount(tapes[k])
  IN  sum[Len(tapes)]
SaturatingAdd(a, b) == IF a + b > MaxU64 THEN MaxU64 ELSE a + b

\* A machine with more tapes than its cell budget is refused before any tape
\* is made; a tape the input does not name starts blank.
NewCursor(m, init, caps) ==
  LET refused == m.tapes > caps.cells
  IN  [cur    |-> m.start,
       tapes  |-> IF refused THEN <<>>
                  ELSE [i \in 1..m.tapes |->
                          NewTape(IF i \in DOMAIN init THEN init[i] ELSE <<>>)],
       steps  |-> 0,
       caps   |-> caps,
       status |-> IF refused THEN "HitCap" ELSE "Running"]

MatchingRules(m, c) ==
  LET rules == Rules(m, c.cur)
  IN  {j \in DOMAIN rules : RuleMatches(rules[j].read, c.tapes)}
\* The first match wins.
FiringRule(m, c) == Rules(m, c.cur)[Min(MatchingRules(m, c))]

Malformed(m, rule) ==
  \/ rule.next \notin DOMAIN m.states
  \/ Len(rule.write) # m.tapes
  \/ Len(rule.moves) # m.tapes

\* Mutant: the caps are asked before the state.
EndOfCapsFirst(m, c) ==
  IF c.steps >= c.caps.steps \/ TotalCells(c.tapes) > c.caps.cells THEN "HitCap"
  ELSE IF m.states[c.cur].accept \/ MatchingRules(m, c) = {} THEN "Halted"
  ELSE "Running"

\* How the next call of next ends the run, or "Running" when it will step.
EndOf(m, c) ==
  IF c.cur \notin DOMAIN m.states THEN "Halted"
  ELSE IF m.states[c.cur].accept THEN "Halted"
  ELSE IF c.steps >= c.caps.steps THEN "HitCap"
  ELSE IF TotalCells(c.tapes) > c.caps.cells THEN "HitCap"
  ELSE IF MatchingRules(m, c) = {} THEN "Halted"
  ELSE IF Malformed(m, FiringRule(m, c)) THEN "Halted"
  ELSE "Running"

Fire(c, rule) ==
  [c EXCEPT !.tapes = Apply(rule, c.tapes), !.cur = rule.next, !.steps = @ + 1]

CursorNext(m, c) ==
  LET end == EndOf(m, c)
  IN  IF c.status # "Running" THEN c
      ELSE IF end # "Running" THEN [c EXCEPT !.status = end]
      ELSE Fire(c, FiringRule(m, c))

\* Mutant: every capped run goes on, the refused one without tapes too.
RaiseCapAlways(m, c, extraSteps, extraCells) ==
  [c EXCEPT !.caps.steps = SaturatingAdd(@, extraSteps),
            !.caps.cells = SaturatingAdd(@, extraCells),
            !.status = IF @ = "HitCap" THEN "Running" ELSE @]

\* The refusal of NewCursor has nothing to continue from and stays latched.
RaiseCap(m, c, extraSteps, extraCells) ==
  IF c.tapes = <<>> /\ m.tapes > 0 THEN c
  ELSE [c EXCEPT !.caps.steps = SaturatingAdd(@, extraSteps),
                 !.caps.cells = SaturatingAdd(@, extraCells),
                 !.status = IF @ = "HitCap" THEN "Running" ELSE @]

\* A tape grew on its left exactly when it has more cells and its head is on
\* the first: where the starting cell of every tape now is.
MovedOrigins(origins, before, after) ==
  [i \in DOMAIN origins |->
     IF /\ i \in DOMAIN after
        /\ CellCount(after[i]) > CellCount(before[i])
        /\ HeadIndex(after[i]) = 0
     THEN origins[i] + 1 ELSE origins[i]]

\* One call of next during a run that keeps every tape's origin.
Advanced(m, was) ==
  LET now == CursorNext(m, was.c)
  IN  IF was.c.status # "Running" THEN was
      ELSE [c |-> now, origins |-> MovedOrigins(was.origins, was.c.tapes, now.tapes)]

\* The run of a machine on an input, call by call, and what it ends with.
Course(m, init, caps) ==
  LET at[n \in Nat] ==
        IF n = 0
        THEN [c |-> NewCursor(m, init, caps), origins |-> [i \in 1..m.tapes |-> 0]]
        ELSE Advanced(m, at[n - 1])
  IN  at
Simulate(m, init, caps) ==
  LET at == Course(m, init, caps)
  IN  at[CHOOSE n \in 0..(caps.steps + 1) : at[n].c.status # "Running"]
=============================================================================
