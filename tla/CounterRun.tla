----------------------------- MODULE CounterRun -----------------------------
(***************************************************************************)
(* The two runs of a counter program (counter/accel.rs) side by side: the  *)
(* accelerated one executes a move as arithmetic on buffered counters and  *)
(* computes its steps, the literal one takes them, and catches up with the *)
(* other after every move.  conf is the configuration of the Turing        *)
(* machine the program was compiled from, moved on by its own rules.       *)
(***************************************************************************)
EXTENDS CounterCompile

CONSTANTS
  Table,        \* what is compiled, or given, and run, in a sequence
  LiteralBits   \* of a literal counter, 64 in the code

ASSUME WidthAssumption ==
  /\ WordBits \in Nat \ {0} /\ MaxBase + 3 < 2 ^ WordBits
  /\ LiteralBits \in Nat /\ MaxMacros \in Nat

MaxLiteral == 2 ^ LiteralBits - 1

VARIABLES
  number,   \* which job, fixed
  acc,      \* the accelerated run
  lit,      \* the literal run
  behind,   \* the literal run is still inside the move the other has made
  conf,     \* the compiled machine's configuration before its next moving rule
  peak      \* the most bits a counter had between two macros

vars == <<number, acc, lit, behind, conf, peak>>

CP == INSTANCE CounterProgram
NN == INSTANCE Limbs

(***************************************************************************)
(* The jobs: a machine to compile, or a program as it is.                  *)
(***************************************************************************)
Prepared(j) ==
  IF j.kind = "program"
  THEN [why |-> "", symbols |-> <<>>, names |-> <<>>, program |-> j.program,
        counters |-> [c \in DOMAIN j.counters |-> NN!FromNumber(j.counters[c])]]
  ELSE Compile(j.machine, j.input)

Runnable(made) ==
  /\ made.why = ""
  /\ CP!Checks(made.program)
  /\ Len(made.counters) = made.program.counters
  /\ made.counters[made.program.scratch] = <<>>

Row(j) ==
  LET made == Prepared(j)
      ok   == Runnable(made)
  IN  [job |-> j, made |-> made, ok |-> ok, e |-> IF ok THEN CP!Expand(made.program) ELSE <<>>]
ASSUME RowsAssumption == \A n \in DOMAIN Table : Table[n] = Row(Table[n].job)

job == Table[number].job
Made == Table[number].made
Program == Made.program
Expansion == Table[number].e

(***************************************************************************)
(* The machine the program was compiled from.                              *)
(***************************************************************************)
TB == INSTANCE TextbookTM
        WITH machine <- job.machine, input <- job.input, conf <- conf

MovesAHead(m, c) ==
  \E i \in 1..m.tapes : Rules(m, c.state)[Min(TB!Matching(m, c))].moves[i] # "S"
\* Through the rules that move no head; a cycle of them stays where it is.
Settled(m, c0) ==
  LET c[n \in Nat] ==
        IF n = 0 THEN c0
        ELSE LET was == c[n - 1]
             IN  IF TB!Halts(m, was) \/ MovesAHead(m, was) THEN was ELSE TB!After(m, was)
  IN  c[MaxMacros]

(***************************************************************************)
(* Buffered counters: hi * base^digits + lo, and the tally's share of hi   *)
(* that is still to be added up.                                           *)
(***************************************************************************)
MaxWord == NN!Word - 1
\* base^0 up to the largest power a word holds, 64 at most.
Block(base) == Max({n \in 0..WordBits : base ^ n <= MaxWord})

Buffers(base, values) ==
  [cs |-> [c \in DOMAIN values |-> [hi |-> values[c], lo |-> 0, digits |-> 0, weight |-> 0]],
   folded |-> <<>>, lows |-> 0, loose |-> 0,
   largest |-> Max({NN!NatBits(values[c]) : c \in DOMAIN values})]

\* hi's share goes into the tally.
Folded(b, c) ==
  [b EXCEPT !.folded = NN!AddNat(@, NN!MulAdd(b.cs[c].hi, b.cs[c].weight, 0)),
            !.cs[c].weight = 0]

\* The value is counted: lo at once, hi by the weight of its digits.
Counted(base, b, c) ==
  LET power == base ^ b.cs[c].digits
      room  == IF b.cs[c].weight + power > MaxWord THEN Folded(b, c) ELSE b
      sum   == b.lows + b.cs[c].lo
  IN  [room EXCEPT !.cs[c].weight = @ + power,
                   !.lows = IF sum < NN!Word ^ 2 THEN sum ELSE b.cs[c].lo,
                   !.folded = IF sum < NN!Word ^ 2 THEN @ ELSE NN!AddNat(@, NN!FromNumber(b.lows))]

Refilled(base, b, c) ==
  IF b.cs[c].digits # 0 THEN b
  ELSE LET d == NN!DivRem(b.cs[c].hi, NN!Divisor(base ^ Block(base)))
       IN  [Folded(b, c) EXCEPT !.cs[c].hi = d.quotient, !.cs[c].lo = d.remainder,
                                !.cs[c].digits = Block(base)]
LowestDigit(base, b, c) == b.cs[c].lo % base
WithoutDigit(base, b, c) == [b EXCEPT !.cs[c].lo = @ \div base, !.cs[c].digits = @ - 1]

\* Mutant: hi changes under a weight that was meant for the old one.
FlushedUnfolded(base, b, c) ==
  IF b.cs[c].digits # Block(base) THEN b
  ELSE LET hi == NN!MulAdd(b.cs[c].hi, base ^ Block(base), b.cs[c].lo)
       IN  [b EXCEPT !.cs[c].hi = hi, !.cs[c].lo = 0, !.cs[c].digits = 0,
                     !.largest = Max({@, NN!NatBits(hi)})]

\* A full lo goes into hi.
Flushed(base, b, c) ==
  IF b.cs[c].digits # Block(base) THEN b
  ELSE LET hi == NN!MulAdd(b.cs[c].hi, base ^ Block(base), b.cs[c].lo)
       IN  [Folded(b, c) EXCEPT !.cs[c].hi = hi, !.cs[c].lo = 0, !.cs[c].digits = 0,
                                !.largest = Max({@, NN!NatBits(hi)})]
WithDigit(base, b, c, s) == [b EXCEPT !.cs[c].lo = @ * base + s, !.cs[c].digits = @ + 1]

Values(base, b) ==
  [c \in DOMAIN b.cs |-> NN!MulAdd(b.cs[c].hi, base ^ b.cs[c].digits, b.cs[c].lo)]

\* The literal steps counted so far.
Total(base, b) ==
  LET his == FoldLeft(LAMBDA sum, k : NN!AddNat(sum, NN!MulAdd(k.hi, k.weight, 0)), b.folded, b.cs)
      sum == NN!AddNat(his, NN!FromNumber(b.lows))
  IN  NN!AddNat(NN!MulAdd(sum, base + 3, 0), NN!FromNumber(b.loose))

LargestOf(values) == Max({NN!NatBits(values[c]) : c \in DOMAIN values})

(***************************************************************************)
(* The runs.                                                               *)
(***************************************************************************)
Init ==
  \E n \in DOMAIN Table :
    LET row    == Table[n]
        values == row.made.counters
        start  == row.made.program.start
    IN  /\ number = n
        /\ behind = FALSE
        /\ IF row.ok
           THEN /\ acc = [end |-> "", pc |-> start, macros |-> 0, b |-> Buffers(row.made.program.base, values)]
                /\ lit = [end |-> "", pc |-> row.e.first[start], steps |-> 0,
                          counters |-> [c \in DOMAIN values |-> NN!Value(values[c])]]
                /\ conf = IF row.job.kind = "program" THEN <<>>
                          ELSE Settled(row.job.machine, TB!Initially(row.job.machine, row.job.input))
                /\ peak = LargestOf(values)
           ELSE acc = [end |-> "Refused"] /\ lit = [end |-> "Refused"] /\ conf = <<>> /\ peak = 0

\* A rule's moves begin here: the machine has applied the one before.
StartsARule(n) ==
  LET name == Made.names[n]
  IN  name.kind = "Move" =>
        name.tape = Min(MovingTapes(job.machine, name.state, name.rule, 1))

\* What a move makes of the buffers, the one it pops refilled: the digit goes,
\* what is left is counted, and a digit is pushed.
Moved(base, b, m, digit) ==
  LET popped  == WithoutDigit(base, b, m.pop)
      counted == Counted(base, Counted(base, popped, m.push), m.pop)
      pushed  == WithDigit(base, Flushed(base, counted, m.push), m.push, m.s)
  IN  [pushed EXCEPT !.loose = @ + digit + m.s + 4]

\* The turn after a move: its exit, unless a counter has grown too large.
GoOn(b, next) ==
  LET values == Values(Program.base, b)
      capped == b.largest > job.caps.bits
  IN  /\ acc' = [end |-> IF capped THEN "BitCap" ELSE "", pc |-> next,
                 macros |-> acc.macros + 1,
                 b |-> IF capped THEN [b EXCEPT !.largest = Max({@, LargestOf(values)})] ELSE b]
      /\ behind' = TRUE
      /\ conf' = IF job.kind = "program" \/ ~StartsARule(next) THEN conf
                 ELSE Settled(job.machine, TB!After(job.machine, conf))
      /\ peak' = Max({peak, LargestOf(values)})

\* One turn of the accelerated loop.
Accelerate ==
  /\ acc.end = ""
  /\ ~behind \/ lit.end # ""
  /\ LET p    == Program
         m    == p.macros[acc.pc]
         Ended(why) == [acc EXCEPT !.end = why,
                                   !.b.largest = Max({@, LargestOf(Values(p.base, acc.b))})]
     IN  IF m.kind # "Move" \/ acc.macros >= job.caps.macros
         THEN /\ acc' = Ended(CASE m.kind = "Stop" -> "Stopped"
                                [] m.kind = "Spin" -> "Spun"
                                [] m.kind = "Move" -> "MacroCap")
              /\ UNCHANGED <<behind, conf, peak>>
         ELSE LET full  == Refilled(p.base, acc.b, m.pop)
                  digit == LowestDigit(p.base, full, m.pop)
              IN  GoOn(Moved(p.base, full, m, digit), m.exits[digit + 1])
  /\ UNCHANGED <<number, lit>>

\* One instruction of the literal run.
TakeLiteralStep ==
  /\ lit.end = ""
  /\ behind \/ acc.end \in {"Stopped", "Spun"}
  /\ LET i == Expansion.instrs[lit.pc]
         Ended(why) == lit' = [lit EXCEPT !.end = why] /\ UNCHANGED behind
         Went(pc, by) == lit' = [lit EXCEPT !.pc = pc, !.counters[i.c] = @ + by, !.steps = @ + 1]
     IN  \/ i.op = "Stop" /\ Ended("Stopped")
         \/ i.op # "Stop" /\ lit.steps >= job.caps.steps /\ Ended("StepCap")
         \/ /\ i.op = "Inc" /\ lit.steps < job.caps.steps
            /\ IF lit.counters[i.c] = MaxLiteral THEN Ended("CounterOverflow")
               ELSE Went(i.next, 1) /\ UNCHANGED behind
         \/ /\ i.op = "Dec" /\ lit.steps < job.caps.steps
            /\ IF lit.counters[i.c] = 0
               THEN Went(i.zero, 0) /\ behind' = (behind /\ lit.pc \notin Expansion.leaves)
               ELSE Went(i.nonzero, -1) /\ UNCHANGED behind
  /\ UNCHANGED <<number, acc, conf, peak>>

Next == Accelerate \/ TakeLiteralStep

Spec == Init /\ [][Next]_vars

-----------------------------------------------------------------------------
(***************************************************************************)
(* Properties.                                                             *)
(***************************************************************************)
\* Wherever a macro is entered both runs have the same counters, in the one
\* form a number has, at the same macro, and the steps the accelerated run
\* computed through its deferred tally are those the literal one took; a
\* literal counter overflows only where a value no longer fits, and the bits a
\* run reports are below its peak by a buffer's at most (accel.rs:149, 199).
RunsAgree ==
  acc.end # "Refused" =>
    LET values == Values(Program.base, acc.b)
    IN  /\ ~behind =>
             /\ values = [c \in DOMAIN values |-> NN!FromNumber(lit.counters[c])]
             /\ lit.pc = Expansion.first[acc.pc]
             /\ acc.end # "Spun" => Total(Program.base, acc.b) = NN!FromNumber(lit.steps)
        /\ lit.end = "CounterOverflow" => peak > LiteralBits
        /\ acc.b.largest <= peak /\ peak <= acc.b.largest + WordBits + 1

\* The digits a readback is given: a Stop's own, or the machine's own.
UnderHeads(name) ==
  IF name.kind = "Stop" THEN name.at.h
  ELSE [i \in 1..job.machine.tapes |-> DigitOf(Made.symbols, TB!SymbolAt(conf, i))]

ReadsAs(tape, i) ==
  TB!Marks(tape.cells, tape.head) = {<<mark[1] - conf.heads[i], mark[2]>> : mark \in conf.marks[i]}

\* Between two rules the counters read back as the machine's tapes round its
\* heads; a program stops in the machine's state exactly when the machine
\* halts, and spins exactly when the machine goes round rules that move no head
\* (compile.rs:98, readback.rs:21).
CountersAreTapes ==
  job.kind = "machine" /\ acc.end # "Refused" /\ StartsARule(acc.pc) =>
    LET name   == Made.names[acc.pc]
        values == Values(Program.base, acc.b)
        m      == job.machine
    IN  /\ TB!Halts(m, conf) <=> name.kind = "Stop"
        /\ name.kind = "Stop" => name.at.q = conf.state
        /\ name.kind = "Move" =>
             /\ name.state = conf.state
             /\ name.rule = Min(TB!Matching(m, conf))
             /\ name.digits = Written(m, Made.symbols, name.state, name.rule, UnderHeads(name))
        /\ name.kind = "Spin" => ~MovesAHead(m, conf)
        /\ \A i \in 1..m.tapes :
             ReadsAs(ReadBack(values, UnderHeads(name)[i], Made.symbols, i), i)
=============================================================================
