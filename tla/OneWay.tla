------------------------------- MODULE OneWay -------------------------------
(***************************************************************************)
(* tm/one_way.rs: a machine folded onto tapes that are infinite to the     *)
(* right only.  Physical cell 0 holds the marker, the original's cell j    *)
(* lies at physical 2j + 1 and its cell -j at physical 2j.                 *)
(*                                                                         *)
(* A generated state is [at, q, sides, c, tape, cur]: a "pair" stands for  *)
(* the original state q with its heads on sides; the others finish the     *)
(* moves of rule c of that pair, on tape, with the heads so far on cur.    *)
(* The original is a valid machine.                                        *)
(***************************************************************************)
EXTENDS Reduction

LeftEnd == "|"

Flipped(side) == IF side = "r" THEN "l" ELSE "r"
WithFlip(sides, i) == [sides EXCEPT ![i] = Flipped(@)]
Outward(side) == IF side = "r" THEN "R" ELSE "L"

\* Mutant: the side the head is on is not looked at.
FirstStepUnfolded(side, mv) == mv

\* The physical step a move begins with: away from the marker when it leads
\* away from the original's cell 0.
FirstStep(side, mv) ==
  IF mv = "S" THEN "S" ELSE IF mv = Outward(side) THEN "R" ELSE "L"

Pair(q, sides) ==
  [at |-> "pair", q |-> q, sides |-> sides, c |-> 0, tape |-> 0, cur |-> sides]
AllRight(m) == [i \in 1..m.tapes |-> "r"]
Pre(m) == [Pair(m.start, AllRight(m)) EXCEPT !.at = "pre"]

\* Where rule c of the pair in s goes on once the moves of the tapes up to i
\* are finished and the heads are on cur.
FinishMoves(m, s, i, cur) ==
  LET rule   == Rules(m, s.q)[s.c]
      moving == {j \in 1..m.tapes : j > i /\ rule.moves[j] # "S"}
      next   == Min(moving)
      move   == rule.moves[next]
      first  == IF move = Outward(cur[next]) THEN "fin"
                ELSE IF cur[next] = "r" THEN "chk" ELSE "in"
  IN  IF moving = {} THEN Pair(rule.next, cur)
      ELSE [s EXCEPT !.at = first, !.tape = next, !.cur = cur]

\* A rule of the original with the first physical step of every move.
CopiedRule(m, s, c) ==
  LET rule == Rules(m, s.q)[c]
  IN  [read  |-> rule.read,
       write |-> rule.write,
       moves |-> [i \in 1..m.tapes |-> FirstStep(s.sides[i], rule.moves[i])],
       next  |-> FinishMoves(m, [s EXCEPT !.c = c], 0, s.sides)]

PairState(m, s) ==
  [accept |-> m.states[s.q].accept,
   rules  |-> IF m.states[s.q].accept THEN <<>>
              ELSE Tabulated([c \in DOMAIN Rules(m, s.q) |-> CopiedRule(m, s, c)])]

\* The rest of one tape's move.  A head that was on the original's cell 0
\* finds the marker and ends on the other side.
MoveRules(m, s) ==
  LET stay  == FinishMoves(m, s, s.tape, s.cur)
      cross == FinishMoves(m, s, s.tape, WithFlip(s.cur, s.tape))
      Step(read, move, next) == OnTape(m.tapes, s.tape, read, move, next)
  IN  CASE s.at = "fin"  -> <<Step(Wild, "R", stay)>>
        [] s.at = "over" -> <<Step(Wild, "R", cross)>>
        [] s.at = "in"   -> <<Step(Wild, "L", [s EXCEPT !.at = "chk"])>>
        [] s.at = "chk" /\ s.cur[s.tape] = "r" ->
             <<Step(LeftEnd, "R", [s EXCEPT !.at = "over"]), Step(Wild, "L", stay)>>
        [] s.at = "chk" /\ s.cur[s.tape] = "l" ->
             <<Step(LeftEnd, "R", cross), Step(Wild, "S", stay)>>

Preamble(m) ==
  [read  |-> [i \in 1..m.tapes |-> Wild],
   write |-> [i \in 1..m.tapes |-> Wild],
   moves |-> [i \in 1..m.tapes |-> "R"],
   next  |-> Pair(m.start, AllRight(m))]

StateOf(m, s) ==
  CASE s.at = "pre"  -> [accept |-> FALSE, rules |-> <<Preamble(m)>>]
    [] s.at = "pair" -> PairState(m, s)
    [] s.at \notin {"pre", "pair"} -> [accept |-> FALSE, rules |-> MoveRules(m, s)]

\* The states the worklist names, from the preamble on.
StateSpace(m) ==
  [at : {"pre", "pair", "fin", "over", "in", "chk"}, q : DOMAIN m.states,
   sides : [1..m.tapes -> {"r", "l"}], c : Nat, tape : 0..m.tapes,
   cur : [1..m.tapes -> {"r", "l"}]]
Named(m) ==
  LET Targets(s) == {rule.next : rule \in ToSet(StateOf(m, s).rules)}
      grow[S \in SUBSET StateSpace(m)] ==
        LET more == S \cup UNION {Targets(s) : s \in S}
        IN  IF more = S THEN S ELSE grow[more]
  IN  grow[{Pre(m)}]

ToOneWay(m, ceiling) ==
  IF IsRefusal(m) THEN m
  ELSE IF LeftEnd \in Alphabet(m) THEN Refused("left-end-collision")
  ELSE Built([s \in Named(m) |-> StateOf(m, s)], ceiling, Pre(m), m.tapes)

\* The folded layout of an input, with a marker on every tape the machine has.
ZigzagOk(inits, tapes) ==
  Len(inits) <= tapes /\ \A i \in DOMAIN inits : LeftEnd \notin ToSet(inits[i])
Zigzag(inits, tapes) ==
  [i \in 1..tapes |->
     LET init == IF i \in DOMAIN inits THEN inits[i] ELSE <<>>
     IN  <<LeftEnd>> \o [p \in 1..(IF init = <<>> THEN 0 ELSE 2 * Len(init) - 1) |->
                           IF p % 2 = 1 THEN init[(p + 1) \div 2] ELSE Blank]]

\* A head that ever went left of physical cell 0 leaves a blank there.
UnzigzagOk(t) ==
  LET phys == Snapshot(t)
  IN  Head(phys) = LeftEnd /\ LeftEnd \notin ToSet(Tail(phys)) /\ HeadIndex(t) # 0
Unzigzag(t) ==
  LET rest      == Tail(Snapshot(t))
      negatives == Len(rest) \div 2
      positives == Len(rest) - negatives
      head      == HeadIndex(t)
  IN  OriginSnapshot(
        [n \in 1..negatives |-> rest[2 * (negatives + 1 - n)]]
          \o [j \in 1..positives |-> rest[2 * j - 1]],
        IF head % 2 = 1 THEN negatives + (head - 1) \div 2 ELSE negatives - head \div 2,
        negatives)
=============================================================================
