----------------------------- MODULE SingleTape -----------------------------
(***************************************************************************)
(* tm/single_tape.rs: a machine over k tapes as a machine over one, whose  *)
(* cells are blocks of one (marker, content) couple per tape between the   *)
(* sentinels Left and Right.  Each original step is a sweep that verifies  *)
(* a candidate rule, and one pass over the tape for every tape it acts on. *)
(*                                                                         *)
(* A generated state is [q, c, at, tape]: candidate rule c of state q.     *)
(***************************************************************************)
EXTENDS Reduction

Left == "<"
Right == ">"

\* The markers that say whether tape i's head is in a block.
Here(i) == <<"A", "B", "C">>[i]
Away(i) == <<"a", "b", "c">>[i]
MaxEncodableTapes == 3      \* 26 in the code: one marker letter per tape

Reserved(m) == {Left, Right} \cup UNION {{Here(i), Away(i)} : i \in 1..m.tapes}
LayoutCollision(m, inits) ==
  \/ Alphabet(m) \cap Reserved(m) # {}
  \/ \E i \in DOMAIN inits : ToSet(inits[i]) \cap Reserved(m) # {}

(***************************************************************************)
(* The layout.                                                             *)
(***************************************************************************)
InterleaveTapes(inits, k, leftPad, rightPad) ==
  LET longest == Max({1} \cup {Len(inits[i]) : i \in DOMAIN inits})
      Block(j) ==
        [n \in 1..(2 * k) |->
           LET i == (n + 1) \div 2
           IN  IF n % 2 = 1 THEN (IF j = leftPad THEN Here(i) ELSE Away(i))
               ELSE IF i \in DOMAIN inits THEN CellAt(inits[i], j - leftPad) ELSE Blank]
      blocks == leftPad + longest + rightPad
  IN  <<Left>> \o FlattenSeq([j \in 1..blocks |-> Block(j - 1)]) \o <<Right>>

\* The cells between the sentinels, and the blocks whose marker says that
\* tape i's head is there.
Region(cells) ==
  SubSeq(cells, SelectInSeq(cells, LAMBDA x : x = Left) + 1,
                SelectLastInSeq(cells, LAMBDA x : x = Right) - 1)
HeadBlocks(region, k, i) ==
  {j \in 0..(Len(region) \div (2 * k) - 1) : region[2 * k * j + 2 * i - 1] = Here(i)}

DeinterleaveOk(t, k) ==
  LET cells  == Snapshot(t)
      region == Region(cells)
  IN  /\ {Left, Right} \subseteq ToSet(cells)
      /\ k # 0
      /\ Len(region) % (2 * k) = 0
      /\ \A i \in 1..k : HeadBlocks(region, k, i) # {}
Deinterleave(t, k) ==
  LET region == Region(Snapshot(t))
  IN  [i \in 1..k |->
         [cells |-> [j \in 1..(Len(region) \div (2 * k)) |-> region[2 * k * (j - 1) + 2 * i]],
          head  |-> Max(HeadBlocks(region, k, i))]]

(***************************************************************************)
(* The states and their rules.                                             *)
(***************************************************************************)
At(q, c, at, i) == [q |-> q, c |-> c, at |-> at, tape |-> i]

\* A rule always names an accepting target by its halt state.
Entry(m, q) == IF m.states[q].accept THEN At(q, 0, "halt", 0) ELSE At(q, 1, "scan", 0)
Overflow(m) == At(m.start, 0, "overflow", 0)

Checked(m, rule) == {i \in 1..m.tapes : rule.read[i] # Wild}
Acting(m, rule) == {i \in 1..m.tapes : rule.write[i] # Wild \/ rule.moves[i] # "S"}

\* The pass that follows the passes of the tapes up to i.
NextPass(m, s, rule, i) ==
  LET later == {j \in Acting(m, rule) : j > i}
  IN  IF later = {} THEN Entry(m, rule.next) ELSE [s EXCEPT !.at = "ap", !.tape = Min(later)]

\* Mutant: the last candidate is never tried.
AfterFailEarly(m, s) ==
  IF s.c < Len(Rules(m, s.q)) - 1 THEN At(s.q, s.c + 1, "scan", 0) ELSE At(s.q, 0, "stuck", 0)

AfterFail(m, s) ==
  IF s.c < Len(Rules(m, s.q)) THEN At(s.q, s.c + 1, "scan", 0) ELSE At(s.q, 0, "stuck", 0)

\* Look for the heads of the tapes the rule reads; reaching Right verifies it.
ScanRules(m, s, rule) ==
  LET checked == Ascending(Checked(m, rule))
  IN  <<R1(Right, Wild, "S", [s EXCEPT !.at = "rew"])>>
        \o [n \in DOMAIN checked |->
              R1(Here(checked[n]), Wild, "R", [s EXCEPT !.at = "chk", !.tape = checked[n]])]
        \o <<R1(Wild, Wild, "R", s)>>

\* Mutant: the rule for every symbol comes before the one for Left.
RewindShadowed(s, next) == <<R1(Wild, Wild, "L", s), R1(Left, Wild, "R", next)>>

\* Rewind to Left and go on.
Rewind(s, next) == <<R1(Left, Wild, "R", next), R1(Wild, Wild, "L", s)>>

CandidateRules(m, s) ==
  LET rule == Rules(m, s.q)[s.c]
      i    == s.tape
      To(at) == [s EXCEPT !.at = at]
  IN  CASE s.at = "scan" -> ScanRules(m, s, rule)
        [] s.at = "chk"  -> <<R1(rule.read[i], Wild, "R", At(s.q, s.c, "scan", 0)),
                              R1(Wild, Wild, "S", At(s.q, s.c, "fail", 0))>>
        [] s.at = "fail" -> Rewind(s, AfterFail(m, s))
        [] s.at = "rew"  -> Rewind(s, NextPass(m, s, rule, 0))
        [] s.at = "ap"   -> IF rule.write[i] # Wild
                            THEN <<R1(Here(i), Wild, "R", To("wr")), R1(Wild, Wild, "R", s)>>
                            ELSE <<R1(Here(i), Wild, "S", To("mv")), R1(Wild, Wild, "R", s)>>
        [] s.at = "wr"   -> <<R1(Wild, rule.write[i], "L", To("mv"))>>
        [] s.at = "mv"   -> IF rule.moves[i] = "S" THEN <<R1(Wild, Wild, "S", To("rap"))>>
                            ELSE <<R1(Wild, Away(i), rule.moves[i], To("sk"))>>
        [] s.at = "sk"   -> <<R1(Left, Wild, "S", Overflow(m)), R1(Right, Wild, "S", Overflow(m)),
                              R1(Away(i), Here(i), "S", To("rap")),
                              R1(Wild, Wild, rule.moves[i], s)>>
        [] s.at = "rap"  -> Rewind(s, NextPass(m, s, rule, i))

Idle == {"halt", "stuck", "overflow"}

StateOf(m, s) ==
  [accept |-> s.at = "halt",
   rules  |-> IF s.at \in Idle \/ Rules(m, s.q) = <<>> THEN <<>> ELSE CandidateRules(m, s)]

\* The names the table holds, the unreachable ones of wildcard candidates too.
CandidateNames(m, q, c) ==
  LET rule == Rules(m, q)[c]
      In(at, tapes) == {At(q, c, at, i) : i \in tapes}
      acting == Acting(m, rule)
  IN  In("scan", {0}) \cup In("rew", {0}) \cup In("fail", {0}) \cup In("chk", Checked(m, rule))
        \cup In("ap", acting) \cup In("mv", acting) \cup In("rap", acting)
        \cup In("wr", {i \in acting : rule.write[i] # Wild})
        \cup In("sk", {i \in acting : rule.moves[i] # "S"})
StateNames(m, q) ==
  {Entry(m, q)} \cup (IF Rules(m, q) = <<>> THEN {} ELSE {At(q, 0, "stuck", 0)})
    \cup UNION {CandidateNames(m, q, c) : c \in DOMAIN Rules(m, q)}
Named(m) == {Overflow(m)} \cup UNION {StateNames(m, q) : q \in DOMAIN m.states}

\* Mutant: a refusal is reduced like any machine.
ToSingleTapeAnyway(m, ceiling) ==
  IF m.tapes > MaxEncodableTapes THEN Refused("too-many-tapes")
  ELSE IF LayoutCollision(m, <<>>) THEN Refused("alphabet-collision")
  ELSE Built([s \in Named(m) |-> StateOf(m, s)], ceiling, Entry(m, m.start), 1)

ToSingleTape(m, ceiling) ==
  IF IsRefusal(m) THEN m
  ELSE IF m.tapes > MaxEncodableTapes THEN Refused("too-many-tapes")
  ELSE IF LayoutCollision(m, <<>>) THEN Refused("alphabet-collision")
  ELSE Built([s \in Named(m) |-> StateOf(m, s)], ceiling, Entry(m, m.start), 1)
=============================================================================
