----------------------------- MODULE TextbookTM -----------------------------
(***************************************************************************)
(* What a machine table means, free of how tapes are stored: every tape is *)
(* infinite both ways with cells numbered by integers, each step applies   *)
(* the first rule whose reads match, and a machine that accepts or has no  *)
(* matching rule takes no step.                                            *)
(***************************************************************************)
EXTENDS Machine

VARIABLES
  machine,    \* the table, fixed
  input,      \* the tapes it is started on, fixed
  conf        \* [state, heads, marks]: marks[i] holds tape i's non-blank
              \* cells as <<cell, symbol>>

TapesFrom(m, init) == [i \in 1..m.tapes |-> IF i \in DOMAIN init THEN init[i] ELSE <<>>]
Marks(cells, origin) ==
  {<<n - 1 - origin, cells[n]>> : n \in {k \in DOMAIN cells : cells[k] # Blank}}

Initially(m, init) ==
  [state |-> m.start,
   heads |-> [i \in 1..m.tapes |-> 0],
   marks |-> [i \in 1..m.tapes |-> Marks(TapesFrom(m, init)[i], 0)]]

SymbolAt(c, i) ==
  IF \E mark \in c.marks[i] : mark[1] = c.heads[i]
  THEN (CHOOSE mark \in c.marks[i] : mark[1] = c.heads[i])[2] ELSE Blank

Matching(m, c) ==
  {j \in DOMAIN Rules(m, c.state) :
     \A i \in 1..m.tapes : Rules(m, c.state)[j].read[i] \in {Wild, SymbolAt(c, i)}}
Halts(m, c) == m.states[c.state].accept \/ Matching(m, c) = {}

Offset(mv) == CASE mv = "L" -> -1 [] mv = "S" -> 0 [] mv = "R" -> 1
Written(c, i, s) ==
  {mark \in c.marks[i] : mark[1] # c.heads[i]}
    \cup (IF s = Blank THEN {} ELSE {<<c.heads[i], s>>})

After(m, c) ==
  LET rule == Rules(m, c.state)[Min(Matching(m, c))]
  IN  [state |-> rule.next,
       heads |-> [i \in 1..m.tapes |-> c.heads[i] + Offset(rule.moves[i])],
       marks |-> [i \in 1..m.tapes |->
                    IF rule.write[i] = Wild THEN c.marks[i] ELSE Written(c, i, rule.write[i])]]

Init == conf = Initially(machine, input)
Step == ~Halts(machine, conf) /\ conf' = After(machine, conf) /\ UNCHANGED <<machine, input>>
Spec == Init /\ [][Step]_<<machine, input, conf>>
=============================================================================
