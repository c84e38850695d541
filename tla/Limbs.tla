-------------------------------- MODULE Limbs --------------------------------
(***************************************************************************)
(* The unbounded naturals of crates/redextape-core/src/counter/nat.rs: a    *)
(* sequence of words, least significant first, with no zero word at the    *)
(* top, divided through a precomputed reciprocal.                          *)
(***************************************************************************)
EXTENDS Integers, Sequences, SequencesExt, Functions, FiniteSetsExt

CONSTANT WordBits       \* 64 in the code

Word == 2 ^ WordBits

\* The number a sequence of words stands for.
Value(n) == FoldRight(LAMBDA limb, v : v * Word + limb, n, 0)

FromLimbs(limbs) == SubSeq(limbs, 1, Max({0} \cup {i \in DOMAIN limbs : limbs[i] # 0}))

\* Enough words for every number this is asked for.
FromNumber(v) == FromLimbs([i \in 1..5 |-> (v \div Word ^ (i - 1)) % Word])

BitLength(x) == CHOOSE b \in 0..WordBits : x < 2 ^ b /\ (b = 0 \/ x >= 2 ^ (b - 1))
NatBits(n) == IF n = <<>> THEN 0 ELSE WordBits * (Len(n) - 1) + BitLength(Last(n))

\* One pass over two-word numbers from the least significant: the low half
\* stays, the high half is carried to the next.
Carried(numbers, carry) ==
  LET done == FoldLeft(LAMBDA acc, number :
                         LET x == number + acc.carry
                         IN  [limbs |-> Append(acc.limbs, x % Word), carry |-> x \div Word],
                       [limbs |-> <<>>, carry |-> carry], numbers)
  IN  IF done.carry # 0 THEN Append(done.limbs, done.carry) ELSE done.limbs

\* n * multiplier + addend
MulAdd(n, multiplier, addend) ==
  LET product == Carried([i \in DOMAIN n |-> n[i] * multiplier], addend)
  IN  IF multiplier = 0 THEN FromLimbs(product) ELSE product

Limb(n, i) == IF i \in DOMAIN n THEN n[i] ELSE 0
AddNat(n, other) ==
  Carried([i \in 1..Max({Len(n), Len(other)}) |-> Limb(n, i) + Limb(other, i)], 0)

(***************************************************************************)
(* Division: the divisor shifted until its top bit is set, and the         *)
(* reciprocal of that.                                                     *)
(***************************************************************************)
Divisor(base) ==
  LET shift      == WordBits - BitLength(base)
      normalized == base * 2 ^ shift
  IN  [shift |-> shift, normalized |-> normalized,
       reciprocal |-> ((Word - 1 - normalized) * Word + Word - 1) \div normalized]

\* Mutant: the estimate is corrected once at most.
DivideTwoLimbsOnce(d, high, low) ==
  LET estimate == (d.reciprocal * high + high * Word + low) % Word ^ 2
      q        == (estimate \div Word + 1) % Word
      r        == (low - q * d.normalized) % Word
      over     == r > estimate % Word
  IN  [quotient  |-> IF over THEN (q - 1) % Word ELSE q,
       remainder |-> IF over THEN (r + d.normalized) % Word ELSE r]

\* The quotient of high * Word + low for a high below the divisor, estimated
\* by the reciprocal and corrected twice; everything wraps as words do.
DivideTwoLimbs(d, high, low) ==
  LET estimate == (d.reciprocal * high + high * Word + low) % Word ^ 2
      q        == (estimate \div Word + 1) % Word
      r        == (low - q * d.normalized) % Word
      over     == r > estimate % Word
      quotient == IF over THEN (q - 1) % Word ELSE q
      remainder == IF over THEN (r + d.normalized) % Word ELSE r
  IN  IF remainder >= d.normalized
      THEN [quotient |-> (quotient + 1) % Word, remainder |-> remainder - d.normalized]
      ELSE [quotient |-> quotient, remainder |-> remainder]

\* The number times 2^shift is divided, from its top word down.
DivRem(n, d) ==
  LET shifted == Carried([i \in DOMAIN n |-> n[i] * 2 ^ d.shift], 0)
      done == FoldRight(LAMBDA limb, acc :
                          LET step == DivideTwoLimbs(d, acc.remainder, limb)
                          IN  [limbs |-> <<step.quotient>> \o acc.limbs, remainder |-> step.remainder],
                        shifted, [limbs |-> <<>>, remainder |-> 0])
  IN  [quotient |-> FromLimbs(done.limbs), remainder |-> done.remainder \div 2 ^ d.shift]
=============================================================================
