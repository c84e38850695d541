--------------------------- MODULE CounterProgram ---------------------------
(***************************************************************************)
(* What a counter program is made of (counter/program.rs): macros, and the *)
(* literal instructions each of them expands to.  Counters, macros and     *)
(* instructions are numbered from 1; exits[d + 1] is where a move goes     *)
(* when the digit it removed is d.                                         *)
(***************************************************************************)
EXTENDS Integers, Sequences, SequencesExt, FiniteSetsExt

CONSTANT MaxBase        \* the largest base of a program

Move(push, pop, s, exits) ==
  [kind |-> "Move", push |-> push, pop |-> pop, s |-> s, exits |-> exits]
Stop(state, head) == [kind |-> "Stop", state |-> state, head |-> head]
Spin == [kind |-> "Spin"]

Inc(c, next) == [op |-> "Inc", c |-> c, next |-> next]
Dec(c, nonzero, zero) == [op |-> "Dec", c |-> c, nonzero |-> nonzero, zero |-> zero]
Halt == [op |-> "Stop"]

\* Every structural rule of a program.
Checks(p) ==
  /\ p.base \in 1..MaxBase
  /\ p.start \in DOMAIN p.macros
  /\ p.scratch \in 1..p.counters
  /\ \A j \in DOMAIN p.macros :
       LET m == p.macros[j]
       IN  m.kind = "Move" =>
             /\ {m.push, m.pop} \subseteq (1..p.counters) \ {p.scratch}
             /\ m.push # m.pop
             /\ m.s < p.base
             /\ Len(m.exits) = p.base
             /\ ToSet(m.exits) \subseteq DOMAIN p.macros

LiteralLen(m, base) == IF m.kind = "Move" THEN 4 * base + 4 + m.s ELSE 1

\* The instruction a macro's expansion starts at.
FirstOf(p) ==
  LET first[j \in Nat] == IF j = 1 THEN 1 ELSE first[j - 1] + LiteralLen(p.macros[j - 1], p.base)
  IN  [j \in DOMAIN p.macros |-> first[j]]

\* Five loops: copy push to t; b times the copy back; the digit; divide pop by
\* b into t, the Dec that finds zero telling the digit; for each digit, the
\* quotient back into pop.
ExpandMove(m, at, t, b, first) ==
  LET scale  == at + 2
      add    == scale + 1 + b
      divide == add + m.s
      copy   == divide + b + 1
  IN  <<Dec(m.push, at + 1, scale), Inc(t, at), Dec(t, scale + 1, add)>>
        \o [i \in 1..b |-> Inc(m.push, IF i < b THEN scale + 1 + i ELSE scale)]
        \o [i \in 1..m.s |-> Inc(m.push, IF i < m.s THEN add + i ELSE divide)]
        \o [d \in 1..b |-> Dec(m.pop, divide + d, copy + 2 * (d - 1))]
        \o <<Inc(t, divide)>>
        \o FlattenSeq([d \in 1..b |-> <<Dec(t, copy + 2 * d - 1, first[m.exits[d]]),
                                        Inc(m.pop, copy + 2 * (d - 1))>>])

\* A Spin goes back to itself whether or not scratch is zero.
ExpandMacro(p, first, j) ==
  LET m == p.macros[j]
  IN  CASE m.kind = "Move" -> ExpandMove(m, first[j], p.scratch, p.base, first)
        [] m.kind = "Stop" -> <<Halt>>
        [] m.kind = "Spin" -> <<Dec(p.scratch, first[j], first[j])>>

\* The literal program, the macro of each instruction, and the instructions
\* whose zero branch leaves their macro: the copy loops' Decs.
Expand(p) ==
  LET first  == FirstOf(p)
      len(j) == LiteralLen(p.macros[j], p.base)
      copies(j) == first[j] + len(j) - 2 * p.base
  IN  [instrs |-> FoldLeft(LAMBDA out, j : out \o ExpandMacro(p, first, j), <<>>,
                           [j \in DOMAIN p.macros |-> j]),
       first  |-> first,
       owner  |-> FlattenSeq([j \in DOMAIN p.macros |-> [i \in 1..len(j) |-> j]]),
       leaves |-> UNION {{copies(j) + 2 * d : d \in 0..(p.base - 1)}
                           : j \in {n \in DOMAIN p.macros : p.macros[n].kind = "Move"}}]
=============================================================================
