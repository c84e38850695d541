------------------------------ MODULE TwoSymbol ------------------------------
(***************************************************************************)
(* tm/two_symbol.rs: a machine over any alphabet as one over two symbols.  *)
(* Every cell becomes a block of k binary cells, every read a walk that    *)
(* compares a block with a pattern and comes back, every write a walk that *)
(* ends on the next block, every move k single steps.                      *)
(*                                                                         *)
(* A generated state is [q, c, tape, at, p]: step p of walk at on tape,    *)
(* for candidate rule c of state q.                                        *)
(***************************************************************************)
EXTENDS Reduction

Zero == Blank
One == "1"

(***************************************************************************)
(* The code: the blank first, so that an untouched block reads blank.      *)
(***************************************************************************)
Code(m, inits) ==
  <<Blank>> \o Listing((Alphabet(m) \cup UNION {ToSet(inits[i]) : i \in DOMAIN inits}) \ {Blank})

Bits(code) == CHOOSE b \in 1..Len(code) : 2 ^ b >= Len(code) /\ (b = 1 \/ 2 ^ (b - 1) < Len(code))

IndexOf(code, s) == (CHOOSE n \in DOMAIN code : code[n] = s) - 1
Pattern(code, s) ==
  [b \in 1..Bits(code) |->
     IF (IndexOf(code, s) \div 2 ^ (Bits(code) - b)) % 2 = 1 THEN One ELSE Zero]
BlockIndex(block) ==
  FoldLeft(LAMBDA n, bit : 2 * n + (IF bit = One THEN 1 ELSE 0), 0, block)

Bitify(inits, code) ==
  [i \in DOMAIN inits |-> FlattenSeq([j \in DOMAIN inits[i] |-> Pattern(code, inits[i][j])])]

\* The blocks of a tape; a short last one is filled up with Zero.
Blocks(t, code) ==
  LET k == Bits(code)
      cells == Snapshot(t)
  IN  [n \in 1..((Len(cells) + k - 1) \div k) |-> [b \in 1..k |-> CellAt(cells, k * (n - 1) + b - 1)]]
UnbitifyOk(t, code) ==
  /\ HeadIndex(t) % Bits(code) = 0
  /\ \A block \in ToSet(Blocks(t, code)) :
       ToSet(block) \subseteq {Zero, One} /\ BlockIndex(block) < Len(code)
Unbitify(t, code) ==
  LET blocks == Blocks(t, code)
  IN  [cells |-> [n \in DOMAIN blocks |-> code[BlockIndex(blocks[n]) + 1]],
       head  |-> HeadIndex(t) \div Bits(code)]

(***************************************************************************)
(* The states and their rules.                                             *)
(***************************************************************************)
At(q, c, i, at, p) == [q |-> q, c |-> c, tape |-> i, at |-> at, p |-> p]
Entry(m, q) == At(q, 0, 0, IF m.states[q].accept THEN "halt" ELSE "enter", 0)
Stuck(q) == At(q, 0, 0, "stuck", 0)

Checked(m, rule) == {i \in 1..m.tapes : rule.read[i] # Wild}
Acting(m, rule) == {i \in 1..m.tapes : rule.write[i] # Wild \/ rule.moves[i] # "S"}

\* The action that follows the actions of the tapes up to i.
NextAction(m, q, c, i) ==
  LET rule  == Rules(m, q)[c]
      later == {j \in Acting(m, rule) : j > i}
  IN  IF later = {} THEN Entry(m, rule.next)
      ELSE At(q, c, Min(later), IF rule.write[Min(later)] = Wild THEN "mv" ELSE "wr", 0)
\* The check that follows the checks of the tapes up to i, or the actions.
NextCheck(m, q, c, i) ==
  LET later == {j \in Checked(m, Rules(m, q)[c]) : j > i}
  IN  IF later = {} THEN NextAction(m, q, c, 0) ELSE At(q, c, Min(later), "chk", 0)
\* Where a candidate that does not match hands over.
Candidate(m, q, c) == IF c > Len(Rules(m, q)) THEN Stuck(q) ELSE NextCheck(m, q, c, 0)

\* Rung p of a ladder that walks left and ends in dest.
Rung(s, at, p, dest) == IF p = 0 THEN dest ELSE [s EXCEPT !.at = at, !.p = p]

\* Mutant: one step too few on the way back to the block written.
OwedOneLess(move, k) == CASE move = "R" -> 0 [] move = "S" -> k - 1 [] move = "L" -> 2 * k - 1

\* How far a write's walk has to come back: it ends on the next block.
Owed(move, k) == CASE move = "R" -> 0 [] move = "S" -> k [] move = "L" -> 2 * k

WalkRules(m, code, s) ==
  LET rule == Rules(m, s.q)[s.c]
      i    == s.tape
      k    == Bits(code)
      ok   == NextCheck(m, s.q, s.c, i)
      bad  == Candidate(m, s.q, s.c + 1)
      dest == NextAction(m, s.q, s.c, i)
      next == [s EXCEPT !.p = @ + 1]
      last == s.p + 1 = k
      Left(target) == <<OnTape(m.tapes, i, Wild, "L", target)>>
  IN  CASE s.at = "chk" ->
             LET bit == Pattern(code, rule.read[i])[s.p + 1]
             IN  <<IF last THEN OnTape(m.tapes, i, bit, "S", Rung(s, "back", k - 1, ok))
                           ELSE OnTape(m.tapes, i, bit, "R", next),
                   OnTape(m.tapes, i, Wild, "S", Rung(s, "fail", s.p, bad))>>
        [] s.at = "back" -> Left(Rung(s, "back", s.p - 1, ok))
        [] s.at = "fail" -> Left(Rung(s, "fail", s.p - 1, bad))
        [] s.at = "ret"  -> Left(Rung(s, "ret", s.p - 1, dest))
        [] s.at = "mv"   -> <<OnTape(m.tapes, i, Wild, rule.moves[i], IF last THEN dest ELSE next)>>
        [] s.at = "wr"   ->
             LET target == IF last THEN Rung(s, "ret", Owed(rule.moves[i], k), dest) ELSE next
             IN  <<[OnTape(m.tapes, i, Wild, "R", target)
                      EXCEPT !.write[i] = Pattern(code, rule.write[i])[s.p + 1]]>>

StateOf(m, code, s) ==
  [accept |-> s.at = "halt",
   rules  |-> IF s.at \in {"halt", "stuck"} THEN <<>>
              ELSE IF s.at = "enter"
              THEN <<OnTape(m.tapes, 0, Wild, "S", Candidate(m, s.q, 1))>>
              ELSE WalkRules(m, code, s)]

\* The names the table holds.
CandidateNames(m, k, q, c) ==
  LET rule == Rules(m, q)[c]
      Walk(i, at, ps) == {At(q, c, i, at, p) : p \in ps}
      CheckNames(i) == Walk(i, "chk", 0..(k - 1)) \cup Walk(i, "back", 1..(k - 1))
                         \cup Walk(i, "fail", 1..(k - 1))
      ActNames(i) == IF rule.write[i] = Wild THEN Walk(i, "mv", 0..(k - 1))
                     ELSE Walk(i, "wr", 0..(k - 1)) \cup Walk(i, "ret", 1..Owed(rule.moves[i], k))
  IN  UNION ({CheckNames(i) : i \in Checked(m, rule)} \cup {ActNames(i) : i \in Acting(m, rule)})
Named(m, code) ==
  {Entry(m, q) : q \in DOMAIN m.states}
    \cup {Stuck(q) : q \in {s \in DOMAIN m.states : ~m.states[s].accept}}
    \cup UNION {UNION {CandidateNames(m, Bits(code), q, c) : c \in DOMAIN Rules(m, q)}
                  : q \in DOMAIN m.states}

ToTwoSymbol(m, code, ceiling) ==
  IF IsRefusal(m) THEN m
  ELSE IF ~(Alphabet(m) \subseteq ToSet(code)) THEN Refused("code-does-not-cover-alphabet")
  ELSE Built([s \in Named(m, code) |-> StateOf(m, code, s)], ceiling, Entry(m, m.start), m.tapes)
=============================================================================
