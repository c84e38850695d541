--------------------------- MODULE CounterCompile ---------------------------
(***************************************************************************)
(* Compiling a Turing machine to a counter program (counter/compile.rs),   *)
(* and reading its tapes back (counter/readback.rs).                       *)
(*                                                                         *)
(* A macro is known by a name, what the emitter looks it up by: a Move by  *)
(* the rule, the tape and the digits under the heads, a Stop or a Spin by  *)
(* the state and digits dispatched from.  The order they are emitted in is *)
(* left open.                                                              *)
(***************************************************************************)
EXTENDS Machine

CONSTANTS
  WordBits,     \* of a counter's words
  MaxBase,      \* the largest base of a program
  MaxMacros     \* the most macros compile emits

LOCAL L == INSTANCE Limbs
LOCAL P == INSTANCE CounterProgram
LOCAL TS == INSTANCE TwoSymbol

LeftOf(i) == 2 * i - 1
RightOf(i) == 2 * i
ScratchOf(k) == 2 * k + 1

Configs(m, code) == [q : DOMAIN m.states, h : [1..m.tapes -> 0..(Len(code) - 1)]]
NameSpace(m, code) ==
  [kind : {"Move"}, state : DOMAIN m.states, rule : Nat, tape : 1..m.tapes,
   digits : [1..m.tapes -> 0..(Len(code) - 1)]]
    \cup [kind : {"Stop"}, from : Configs(m, code), at : Configs(m, code)]
    \cup [kind : {"Spin"}, from : Configs(m, code)]
MoveName(q, rule, tape, digits) ==
  [kind |-> "Move", state |-> q, rule |-> rule, tape |-> tape, digits |-> digits]

DigitOf(code, s) == TS!IndexOf(code, s)

\* The rules that match digits under the heads.
Matched(m, code, q, h) ==
  {j \in DOMAIN Rules(m, q) :
     \A i \in 1..m.tapes : Rules(m, q)[j].read[i] \in {Wild, code[h[i] + 1]}}
Written(m, code, q, j, h) ==
  [i \in 1..m.tapes |-> LET w == Rules(m, q)[j].write[i] IN IF w = Wild THEN h[i] ELSE DigitOf(code, w)]
MovingTapes(m, q, j, from) == {i \in from..m.tapes : Rules(m, q)[j].moves[i] # "S"}

Stops(m, code, q, h) == m.states[q].accept \/ Matched(m, code, q, h) = {}
Firing(m, code, q, h) == Min(Matched(m, code, q, h))

\* The name for state q0 with digits h0: through rules that move no head to
\* the first that does, to a halt, or round a cycle for ever.
Dispatch(m, code, q0, h0) ==
  LET from     == [q |-> q0, h |-> h0]
      rule(c)  == Firing(m, code, c.q, c.h)
      Rests(c) == Stops(m, code, c.q, c.h) \/ MovingTapes(m, c.q, rule(c), 1) # {}
      rest[c \in Configs(m, code), n \in Nat] ==
        IF n = 0 \/ Rests(c) THEN c
        ELSE rest[[q |-> Rules(m, c.q)[rule(c)].next, h |-> Written(m, code, c.q, rule(c), c.h)], n - 1]
      last == rest[from, Cardinality(DOMAIN m.states) * Len(code) ^ m.tapes]
  IN  IF ~Rests(last) THEN [kind |-> "Spin", from |-> from]
      ELSE IF Stops(m, code, last.q, last.h) THEN [kind |-> "Stop", from |-> from, at |-> last]
      ELSE MoveName(last.q, rule(last), Min(MovingTapes(m, last.q, rule(last), 1)),
                    Written(m, code, last.q, rule(last), last.h))

\* What finishes a rule from a tape on: its next move, or its next state.
Step(m, code, q, j, tape, digits) ==
  LET moving == MovingTapes(m, q, j, tape)
  IN  IF moving = {} THEN Dispatch(m, code, Rules(m, q)[j].next, digits)
      ELSE MoveName(q, j, Min(moving), digits)

\* Where a name's exits lead, by the digit that comes under the head.
ExitNames(m, code, name) ==
  IF name.kind # "Move" THEN <<>>
  ELSE [d \in 1..Len(code) |->
          Step(m, code, name.state, name.rule, name.tape + 1, [name.digits EXCEPT ![name.tape] = d - 1])]

\* The names the emitter's worklist reaches.
Emitted(m, code, start) ==
  LET names == SUBSET NameSpace(m, code)
      reach[known \in names, new \in names] ==
        LET exits == UNION {ToSet(ExitNames(m, code, name)) : name \in new}
        IN  IF new = {} THEN known ELSE reach[known \cup exits, exits \ known]
  IN  reach[{start}, {start}]

\* Mutant: a move to the right pushes and pops as one to the left does.
MacroLeftOnly(m, code, names, name) ==
  CASE name.kind = "Stop" -> P!Stop(name.at.q, name.at.h)
    [] name.kind = "Spin" -> P!Spin
    [] name.kind = "Move" ->
         P!Move(RightOf(name.tape), LeftOf(name.tape), name.digits[name.tape],
                [d \in 1..Len(code) |->
                   CHOOSE n \in DOMAIN names : names[n] = ExitNames(m, code, name)[d]])

MacroFor(m, code, names, name) ==
  LET right == Rules(m, name.state)[name.rule].moves[name.tape] = "R"
      exits == ExitNames(m, code, name)
  IN  CASE name.kind = "Stop" -> P!Stop(name.at.q, name.at.h)
        [] name.kind = "Spin" -> P!Spin
        [] name.kind = "Move" ->
             P!Move(IF right THEN LeftOf(name.tape) ELSE RightOf(name.tape),
                    IF right THEN RightOf(name.tape) ELSE LeftOf(name.tape),
                    name.digits[name.tape],
                    [d \in 1..Len(code) |-> CHOOSE n \in DOMAIN names : names[n] = exits[d]])

\* A tape's first cell is under its head, the rest its right number.
InitialCounters(m, code, inits) ==
  [c \in 1..(2 * m.tapes + 1) |->
     IF c % 2 = 0 /\ c \div 2 \in DOMAIN inits /\ inits[c \div 2] # <<>>
     THEN FoldRight(LAMBDA s, n : L!MulAdd(n, Len(code), DigitOf(code, s)), Tail(inits[c \div 2]), <<>>)
     ELSE <<>>]
InitialDigits(m, code, inits) ==
  [i \in 1..m.tapes |-> IF i \in DOMAIN inits /\ inits[i] # <<>> THEN DigitOf(code, inits[i][1]) ELSE 0]

\* why is "" or the reason there is no program.
Refusal(why) == [why |-> why]
CompileValid(m, inits) ==
  LET code  == TS!Code(m, inits)
      first == Dispatch(m, code, m.start, InitialDigits(m, code, inits))
      names == Listing(Emitted(m, code, first))
  IN  IF Len(names) > MaxMacros THEN Refusal("TooLarge")
      ELSE [why |-> "", symbols |-> code, names |-> names,
            counters |-> InitialCounters(m, code, inits),
            program |-> [counters |-> 2 * m.tapes + 1, scratch |-> ScratchOf(m.tapes),
                         base |-> Len(code),
                         macros |-> FoldLeft(LAMBDA out, name : Append(out, MacroFor(m, code, names, name)),
                                             <<>>, names),
                         start |-> CHOOSE n \in DOMAIN names : names[n] = first]]
Compile(m, inits) ==
  IF ~Valid(m) \/ Len(inits) > m.tapes THEN Refusal("InvalidMachine") ELSE CompileValid(m, inits)

(***************************************************************************)
(* Reading the tapes back: the cells of tape i and where its head is, from *)
(* the counters and the digit under the head.                              *)
(***************************************************************************)
DigitsOf(n, code) ==
  LET divisor == L!Divisor(Len(code))
      digits[v \in Seq(Nat)] ==
        IF v = <<>> THEN <<>>
        ELSE LET d == L!DivRem(v, divisor) IN <<code[d.remainder + 1]>> \o digits[d.quotient]
  IN  digits[n]

ReadBack(counters, under, code, i) ==
  LET left == DigitsOf(counters[LeftOf(i)], code)
  IN  [cells |-> Reverse(left) \o <<code[under + 1]>> \o DigitsOf(counters[RightOf(i)], code),
       head  |-> Len(left)]
=============================================================================
