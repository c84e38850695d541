--------------------------- MODULE ReductionProofs ---------------------------
(***************************************************************************)
(* The runs of the cursor, for every job, stage list and raise: their      *)
(* caps, and what a view reads off their tapes.  Without stages, that they *)
(* do what the table says, and end together with a run that no cap stops.  *)
(***************************************************************************)
EXTENDS Reductions, DataLemmas

\* The cursor has its fields, its numbers fit their type, and what StopsAtItsCaps
\* says of them.
CursorInv ==
  /\ number \in DOMAIN Table
  /\ img = [cur |-> img.cur, tapes |-> img.tapes, steps |-> img.steps, caps |-> img.caps,
            status |-> img.status]
  /\ img.caps = [steps |-> img.caps.steps, cells |-> img.caps.cells]
  /\ img.steps \in Nat
  /\ img.caps.steps \in 0..MaxU64 /\ img.caps.cells \in 0..MaxU64

CapsInv == CursorInv /\ StopsAtItsCaps

-----------------------------------------------------------------------------
\* A cap only grows under a raise, and stays within its type.
LEMMA SaturatingFacts ==
  ASSUME NEW a \in 0..MaxU64, NEW b \in 0..MaxU64
  PROVE  SaturatingAdd(a, b) \in 0..MaxU64 /\ SaturatingAdd(a, b) >= a
BY MaxU64Assumption DEF SaturatingAdd

LEMMA InitCaps == Init => CapsInv
<1> SUFFICES ASSUME Init PROVE CapsInv
  OBVIOUS
<1> PICK n \in DOMAIN Table :
      /\ number = n
      /\ img = NewCursor(Table[n].image.machine, Table[n].image.input, Table[n].job.caps)
  BY DEF Init
<1> DEFINE caps == Table[n].job.caps
<1>1. caps \in [steps : 0..MaxU64, cells : 0..MaxU64]
  BY JobsAssumption
<1>2. caps = [steps |-> caps.steps, cells |-> caps.cells]
      /\ caps.steps \in 0..MaxU64 /\ caps.cells \in 0..MaxU64
  BY <1>1
<1> HIDE DEF caps
<1>3. /\ img.steps = 0 /\ img.caps = caps
      /\ img.status = "HitCap" => img.tapes = <<>>
      /\ img = [cur |-> img.cur, tapes |-> img.tapes, steps |-> 0, caps |-> caps,
                status |-> img.status]
  BY DEF NewCursor, caps
<1>4. CursorInv
  BY <1>2, <1>3 DEF CursorInv
<1>5. StopsAtItsCaps
  BY <1>2, <1>3, MaxU64Assumption DEF StopsAtItsCaps
<1> QED
  BY <1>4, <1>5 DEF CapsInv

LEMMA StepCaps == ASSUME CapsInv, StepImage PROVE CapsInv'
<1> DEFINE m == Image.machine
           end == EndOf(m, img)
<1>1. number' = number /\ img.status = "Running" /\ Image' = Image
      /\ img' = IF end # "Running" THEN [img EXCEPT !.status = end]
                ELSE Fire(img, FiringRule(m, img))
  BY DEF StepImage, CursorNext, Image
<1>2. CASE end # "Running"
  <2>1. /\ img'.steps = img.steps /\ img'.caps = img.caps /\ img'.tapes = img.tapes
        /\ img'.cur = img.cur /\ img'.status = end /\ CursorInv'
    BY <1>1, <1>2 DEF CapsInv, CursorInv
  <2>2. end = "HitCap" =>
          /\ ~m.states[img.cur].accept
          /\ img.steps >= img.caps.steps \/ TotalCells(img.tapes) > img.caps.cells
    BY DEF EndOf
  <2>3. StopsAtItsCaps'
    BY <1>1, <2>1, <2>2 DEF CapsInv, StopsAtItsCaps
  <2> QED
    BY <2>1, <2>3 DEF CapsInv
<1>3. CASE end = "Running"
  <2>1. ~(img.steps >= img.caps.steps)
    BY <1>3 DEF EndOf
  <2>2. img' = Fire(img, FiringRule(m, img))
    BY <1>1, <1>3
  <2>3. /\ img'.steps = img.steps + 1 /\ img'.caps = img.caps
        /\ img'.status = "Running" /\ CursorInv'
    <3> DEFINE rule == FiringRule(m, img)
               next == rule.next
               after == Apply(rule, img.tapes)
               more == img.steps + 1
    <3>1. img' = [img EXCEPT !.tapes = after, !.cur = next, !.steps = more]
      BY <2>2 DEF Fire
    <3> HIDE DEF rule, next, after, more
    <3> DEFINE cur == img.cur
               tapes == img.tapes
               steps == img.steps
               caps == img.caps
               status == img.status
    <3>2. img = [cur |-> cur, tapes |-> tapes, steps |-> steps, caps |-> caps, status |-> status]
      BY DEF CapsInv, CursorInv
    <3> HIDE DEF cur, tapes, steps, caps, status
    <3>3. img' = [cur |-> next, tapes |-> after, steps |-> more, caps |-> caps, status |-> status]
      BY <3>1, <3>2
    <3> USE DEF caps, status
    <3> USE DEF more
    <3> HIDE DEF m, end
    <3> QED
      BY <1>1, <3>3 DEF CapsInv, CursorInv
  <2>4. StopsAtItsCaps'
    BY <2>1, <2>3 DEF CapsInv, CursorInv, StopsAtItsCaps
  <2> QED
    BY <2>3, <2>4 DEF CapsInv
<1> QED
  BY <1>2, <1>3

LEMMA RaisedCaps == ASSUME CapsInv, RaiseCaps PROVE CapsInv'
<1>1. PICK steps \in job.amounts, cells \in job.amounts :
        img' = RaiseCap(Image.machine, img, steps, cells)
  BY DEF RaiseCaps
<1>2. number' = number /\ Image' = Image
  BY DEF RaiseCaps, Image
<1>3. steps \in 0..MaxU64 /\ cells \in 0..MaxU64
  BY JobsAssumption DEF CapsInv, CursorInv, job
<1>4. CASE img' = img
  BY <1>2, <1>4 DEF CapsInv, CursorInv, StopsAtItsCaps
<1>5. CASE img' # img
  <2> DEFINE s == SaturatingAdd(img.caps.steps, steps)
             c == SaturatingAdd(img.caps.cells, cells)
  <2>1. s \in 0..MaxU64 /\ c \in 0..MaxU64 /\ s >= img.caps.steps
    BY <1>3, SaturatingFacts DEF CapsInv, CursorInv
  <2>2. img' = [img EXCEPT !.caps.steps = s, !.caps.cells = c,
                           !.status = IF @ = "HitCap" THEN "Running" ELSE @]
    BY <1>1, <1>5 DEF RaiseCap
  <2> HIDE DEF s, c
  <2>3. /\ img'.steps = img.steps /\ img'.caps.steps = s /\ img'.caps.cells = c
        /\ img'.status # "HitCap" /\ CursorInv'
    <3> DEFINE now == IF img.status = "HitCap" THEN "Running" ELSE img.status
               caps == img.caps
               raised == [steps |-> s, cells |-> c]
               steps0 == img.caps.steps
               cells0 == img.caps.cells
    <3>0. caps = [steps |-> steps0, cells |-> cells0]
      BY DEF CapsInv, CursorInv
    <3> HIDE DEF now, caps, steps0, cells0
    <3>3. [[caps EXCEPT !.steps = s] EXCEPT !.cells = c] = raised
      <4> DEFINE mid == [caps EXCEPT !.steps = s]
      <4>1. mid = [steps |-> s, cells |-> cells0]
        BY <3>0
      <4> HIDE DEF mid
      <4> DEFINE last == [mid EXCEPT !.cells = c]
      <4>2. last = raised
        BY <4>1
      <4> QED
        BY <4>2 DEF mid
    <3>4. img' = [img EXCEPT !.caps = raised, !.status = now]
      BY <2>2, <3>3 DEF now, caps, CapsInv, CursorInv
    <3> HIDE DEF raised
    <3>1. img' = [cur |-> img.cur, tapes |-> img.tapes, steps |-> img.steps, caps |-> raised,
                  status |-> now]
      BY <3>4 DEF CapsInv, CursorInv
    <3> USE DEF raised
    <3>2. now # "HitCap"
      BY DEF now
    <3> QED
      BY <1>2, <2>1, <3>1, <3>2 DEF CapsInv, CursorInv
  <2>4. StopsAtItsCaps'
    BY <2>1, <2>3, MaxU64Assumption DEF CapsInv, CursorInv, StopsAtItsCaps
  <2> QED
    BY <2>3, <2>4 DEF CapsInv
<1> QED
  BY <1>4, <1>5

-----------------------------------------------------------------------------
(* Tapes: the symbols a tape holds are of some set, which no step needs to  *)
(* know.                                                                    *)
TapeOver(S) == [left : Seq(S), head : S, right : Seq(S)]
SymbolsOn(t) == Range(t.left) \cup {t.head} \cup Range(t.right)
IsTape(t) == t \in TapeOver(SymbolsOn(t))

LEMMA TapeIsTape == ASSUME NEW S, NEW t \in TapeOver(S) PROVE IsTape(t)
<1>1. t.left \in Seq(S) /\ t.right \in Seq(S) /\ t = [left |-> t.left, head |-> t.head, right |-> t.right]
  BY DEF TapeOver
<1>2. t.left \in Seq(Range(t.left)) /\ t.right \in Seq(Range(t.right))
  BY <1>1, SeqIsSeq DEF IsSeq
<1>3. t.left \in Seq(SymbolsOn(t)) /\ t.right \in Seq(SymbolsOn(t)) /\ t.head \in SymbolsOn(t)
  BY <1>2, SeqMonotonic DEF SymbolsOn
<1> QED BY <1>1, <1>3 DEF IsTape, TapeOver

(* A vector is a sequence.                                                  *)
LEMMA VectorIsSeq == ASSUME NEW v, IsVector(v) PROVE IsSeq(v) /\ DOMAIN v = 1..Len(v)
<1>1. Len(v) \in Nat /\ v = [i \in 1..Len(v) |-> v[i]]
  BY DEF IsVector
<1>2. DOMAIN v = 1..Len(v)
  BY <1>1
<1>3. \A i \in 1..Len(v) : v[i] \in Range(v)
  BY <1>2 DEF Range
<1>4. v \in [1..Len(v) -> Range(v)]
  BY <1>1, <1>3
<1>5. v \in Seq(Range(v))
  BY <1>1, <1>4
<1> QED BY <1>2, <1>5 DEF IsSeq

(* The first of the cells, and all but the last.                            *)
LEMMA Stacks ==
  ASSUME NEW S, NEW s \in Seq(S), Blank \in S
  PROVE  /\ Popped(s) \in Seq(S) /\ Top(s) \in S
         /\ Len(Popped(s)) = IF s = <<>> THEN 0 ELSE Len(s) - 1
         /\ \A i \in 1..Len(Popped(s)) : Popped(s)[i] = s[i]
         /\ s # <<>> => Top(s) = s[Len(s)] /\ Len(s) > 0
<1>1. CASE s = <<>>
  BY <1>1, EmptySeq DEF Popped, Top
<1>2. CASE s # <<>>
  <2>1. Len(s) \in Nat \ {0} /\ Len(s) \in 1..Len(s)
    BY <1>2, EmptySeq
  <2>2. \A i \in 1..(Len(s) - 1) : s[i] \in S
    BY <2>1, ElementOfSeq
  <2>3. /\ SubSeq(s, 1, Len(s) - 1) \in Seq(S)
        /\ Len(SubSeq(s, 1, Len(s) - 1)) = Len(s) - 1
        /\ \A i \in 1..(Len(s) - 1) : SubSeq(s, 1, Len(s) - 1)[i] = s[i]
    <3>1. CASE Len(s) = 1
      <4>1. SubSeq(s, 1, 0) = <<>>
        BY SubSeqEmpty
      <4> QED BY <3>1, <4>1, EmptySeq
    <3>2. CASE Len(s) # 1
      <4> DEFINE n == Len(s) - 1
      <4>0. n \in Nat /\ 0 < n /\ n <= Len(s)
        <5>1. \A x \in Nat : x # 0 /\ x # 1 => x - 1 \in Nat /\ 0 < x - 1 /\ x - 1 <= x
          OBVIOUS
        <5> QED BY <2>1, <3>2, <5>1
      <4> HIDE DEF n
      <4>1. /\ n \in Nat /\ 0 < n /\ n <= Len(s) /\ n - 0 = n /\ 0 + 1 = 1
            /\ \A i \in 1..n : 0 + i = i
        BY <4>0
      <4>2. /\ SubSeq(s, 0 + 1, n) \in Seq(S) /\ Len(SubSeq(s, 0 + 1, n)) = n - 0
            /\ \A k \in 1..(n - 0) : SubSeq(s, 0 + 1, n)[k] = s[0 + k]
        BY <4>1, Parted
      <4>3. /\ SubSeq(s, 1, n) \in Seq(S) /\ Len(SubSeq(s, 1, n)) = n
            /\ \A i \in 1..n : SubSeq(s, 1, n)[i] = s[i]
        BY <4>1, <4>2
      <4> QED BY <4>3 DEF n
    <3> QED BY <3>1, <3>2
  <2> QED BY <1>2, <2>1, <2>3, ElementOfSeq DEF Popped, Top, Front, Last
<1> QED BY <1>1, <1>2

(* A new tape, and one after a step of a rule.                              *)
LEMMA NewTapes == ASSUME NEW init, IsSeq(init) PROVE IsTape(NewTape(init))
<1> DEFINE S == Range(init) \cup {Blank}
<1>1. init \in Seq(S)
  BY SeqMonotonic DEF IsSeq
<1>2. CASE init = <<>>
  <2>1. NewTape(init) = [left |-> <<>>, head |-> Blank, right |-> <<>>]
    BY <1>2 DEF NewTape
  <2>2. NewTape(init) \in TapeOver(S)
    BY <2>1 DEF TapeOver
  <2> QED BY <2>2, TapeIsTape
<1>3. CASE init # <<>>
  <2>1. Head(init) \in S /\ Tail(init) \in Seq(S)
    BY <1>1, <1>3
  <2>2. Reverse(Tail(init)) \in Seq(S)
    BY <2>1, Reversed
  <2>3. NewTape(init) = [left |-> <<>>, head |-> Head(init), right |-> Reverse(Tail(init))]
    BY <1>3 DEF NewTape
  <2> HIDE DEF S
  <2>4. NewTape(init) \in TapeOver(S)
    BY <2>1, <2>2, <2>3 DEF TapeOver
  <2> QED BY <2>4, TapeIsTape
<1> QED BY <1>2, <1>3

Marked(t, w) == IF w = Wild THEN t ELSE [t EXCEPT !.head = w]

LEMMA SteppedTapes ==
  ASSUME NEW t, IsTape(t), NEW w, NEW mv \in Moves
  PROVE  /\ IsTape(Marked(t, w))
         /\ IsTape(Stepped(Marked(t, w), mv))
         /\ CellCount(Stepped(Marked(t, w), mv)) <= CellCount(t) + 1
<1> DEFINE S == SymbolsOn(t) \cup {w, Blank}
           u == Marked(t, w)
<1>1. t = [left |-> t.left, head |-> t.head, right |-> t.right]
      /\ t.left \in Seq(S) /\ t.right \in Seq(S) /\ t.head \in S
  <2>1. t \in TapeOver(SymbolsOn(t))
    BY DEF IsTape
  <2>2. /\ t.left \in Seq(SymbolsOn(t)) /\ t.right \in Seq(SymbolsOn(t)) /\ t.head \in SymbolsOn(t)
        /\ t = [left |-> t.left, head |-> t.head, right |-> t.right]
    BY <2>1 DEF TapeOver
  <2> QED BY <2>2, SeqMonotonic
<1>2. u = [left |-> t.left, head |-> IF w = Wild THEN t.head ELSE w, right |-> t.right]
  BY <1>1 DEF Marked
<1>3. Blank \in S /\ w \in S
  OBVIOUS
<1> HIDE DEF S, u
<1>4. u \in TapeOver(S)
  BY <1>1, <1>2, <1>3 DEF TapeOver
<1>5. u.left \in Seq(S) /\ u.right \in Seq(S) /\ u.head \in S
  BY <1>4 DEF TapeOver
<1>6. /\ Popped(u.left) \in Seq(S) /\ Popped(u.right) \in Seq(S)
      /\ Top(u.left) \in S /\ Top(u.right) \in S
      /\ Append(u.left, u.head) \in Seq(S) /\ Append(u.right, u.head) \in Seq(S)
  BY <1>3, <1>5, Stacks, AppendProperties
<1>7. Stepped(u, mv) \in TapeOver(S)
  BY <1>4, <1>6 DEF Stepped, TapeOver, Moves
<1>8. CellCount(Stepped(u, mv)) <= CellCount(t) + 1
  <2> DEFINE x == Len(u.left)
             y == Len(u.right)
  <2>1. x \in Nat /\ y \in Nat /\ CellCount(t) = x + 1 + y /\ CellCount(u) = x + 1 + y
    BY <1>2, <1>5 DEF CellCount
  <2>2. /\ Len(Append(u.left, u.head)) = x + 1 /\ Len(Append(u.right, u.head)) = y + 1
        /\ Len(Popped(u.left)) = IF u.left = <<>> THEN 0 ELSE x - 1
        /\ Len(Popped(u.right)) = IF u.right = <<>> THEN 0 ELSE y - 1
    BY <1>3, <1>5, Stacks, AppendProperties
  <2>3. Len(Popped(u.left)) \in Int /\ Len(Popped(u.left)) <= x
    BY <2>1, <2>2
  <2>4. Len(Popped(u.right)) \in Int /\ Len(Popped(u.right)) <= y
    BY <2>1, <2>2
  <2> HIDE DEF x, y
  <2>5. CASE mv = "S"
    BY <2>1, <2>5 DEF Stepped
  <2>6. CASE mv = "L"
    <3>1. CellCount(Stepped(u, mv)) = Len(Popped(u.left)) + 1 + (y + 1)
      BY <2>2, <2>6 DEF Stepped, CellCount
    <3> QED BY <2>1, <2>3, <3>1
  <2>7. CASE mv = "R"
    <3>1. CellCount(Stepped(u, mv)) = (x + 1) + 1 + Len(Popped(u.right))
      BY <2>2, <2>7 DEF Stepped, CellCount
    <3> QED BY <2>1, <2>4, <3>1
  <2> QED BY <2>5, <2>6, <2>7 DEF Moves
<1> QED BY <1>4, <1>7, <1>8, TapeIsTape DEF u

-----------------------------------------------------------------------------
(* The whole tape, its parts read off the two stacks, and a view of it.     *)
LEMMA Snapshots ==
  ASSUME NEW S, NEW t \in TapeOver(S)
  PROVE  /\ Snapshot(t) \in Seq(S)
         /\ Len(t.left) \in Nat /\ Len(t.right) \in Nat
         /\ Len(Snapshot(t)) = Len(t.left) + 1 + Len(t.right)
         /\ \A i \in 1..Len(t.left) : Snapshot(t)[i] = t.left[i]
         /\ Snapshot(t)[Len(t.left) + 1] = t.head
         /\ \A i \in 1..Len(t.right) :
               Snapshot(t)[Len(t.left) + 1 + i] = t.right[(Len(t.right) - i) + 1]
<1> DEFINE L == Len(t.left)
           R == Len(t.right)
           a == t.left \o <<t.head>>
           b == Reverse(t.right)
           z == Snapshot(t)
<1>1. t.left \in Seq(S) /\ t.right \in Seq(S) /\ t.head \in S
  BY DEF TapeOver
<1>2. L \in Nat /\ R \in Nat /\ <<t.head>> \in Seq(S) /\ Len(<<t.head>>) = 1 /\ <<t.head>>[1] = t.head
  BY <1>1
<1>3. /\ a \in Seq(S) /\ Len(a) = L + 1
      /\ \A i \in 1..(L + 1) : a[i] = IF i <= L THEN t.left[i] ELSE <<t.head>>[i - L]
  BY <1>1, <1>2, ConcatProperties
<1>4. /\ b \in Seq(S) /\ Len(b) = R
      /\ \A i \in 1..R : b[i] = t.right[(R - i) + 1]
  BY <1>1, Reversed
<1>5. z = a \o b
  BY DEF Snapshot
<1> HIDE DEF a, b, z
<1>6. /\ z \in Seq(S) /\ Len(z) = L + 1 + R
      /\ \A i \in 1..(L + 1 + R) : z[i] = IF i <= L + 1 THEN a[i] ELSE b[i - (L + 1)]
  <2> HIDE DEF L, R
  <2>1. Len(a) + Len(b) = L + 1 + R
    BY <1>3, <1>4
  <2>2. /\ a \o b \in Seq(S) /\ Len(a \o b) = Len(a) + Len(b)
        /\ \A i \in 1..(Len(a) + Len(b)) :
              (a \o b)[i] = IF i <= Len(a) THEN a[i] ELSE b[i - Len(a)]
    BY <1>3, <1>4, ConcatProperties
  <2> QED BY <1>3, <1>5, <2>1, <2>2
<1> HIDE DEF L, R
<1>7. ASSUME NEW i \in 1..L PROVE z[i] = t.left[i]
  <2>1. i \in 1..(L + 1 + R) /\ i <= L + 1 /\ i <= L /\ i \in 1..(L + 1)
    BY <1>2
  <2> QED BY <1>3, <1>6, <2>1
<1>8. z[L + 1] = t.head
  <2>1. L + 1 \in 1..(L + 1 + R) /\ L + 1 \in 1..(L + 1) /\ ~(L + 1 <= L) /\ (L + 1) - L = 1
    BY <1>2
  <2> QED BY <1>2, <1>3, <1>6, <2>1
<1>9. ASSUME NEW i \in 1..R PROVE z[L + 1 + i] = t.right[(R - i) + 1]
  <2>1. L + 1 + i \in 1..(L + 1 + R) /\ ~(L + 1 + i <= L + 1) /\ (L + 1 + i) - (L + 1) = i
    BY <1>2
  <2> QED BY <1>4, <1>6, <2>1
<1> QED BY <1>2, <1>6, <1>7, <1>8, <1>9 DEF z, L, R

LEMMA TapeSizes ==
  ASSUME NEW t, IsTape(t)
  PROVE  /\ HeadIndex(t) \in Nat /\ CellCount(t) \in Nat
         /\ Len(Snapshot(t)) = CellCount(t) /\ CellCount(t) > 0
<1> DEFINE x == Len(t.left)
           y == Len(t.right)
<1>1. /\ x \in Nat /\ y \in Nat /\ Len(Snapshot(t)) = x + 1 + y
      /\ HeadIndex(t) = x /\ CellCount(t) = x + 1 + y
  BY Snapshots DEF IsTape, HeadIndex, CellCount
<1> HIDE DEF x, y
<1>2. x + 1 + y \in Nat /\ x + 1 + y > 0
  BY <1>1
<1> QED BY <1>1, <1>2

(* How many of the cells from + 1..to lie left of the head, under it and    *)
(* right of it.                                                             *)
InThree(L, from, to, start, la, lb, lc) ==
    /\ start = IF from > L + 1 THEN from ELSE L + 1
    /\ la = IF from < L THEN (IF to < L THEN to ELSE L) - from ELSE 0
    /\ lb = IF from <= L /\ L < to THEN 1 ELSE 0
    /\ lc = IF to > L + 1 THEN to - start ELSE 0
LEMMA ThreeParts ==
  ASSUME NEW L \in Nat, NEW from \in Nat, NEW to \in Nat, from < to,
         NEW start, NEW la, NEW lb, NEW lc, InThree(L, from, to, start, la, lb, lc)
  PROVE  /\ la \in Nat /\ lb \in Nat /\ lc \in Nat /\ la + lb + lc = to - from
         /\ la > 0 => from + la <= L
         /\ lb > 0 => from + la = L
         /\ lc > 0 => from + la + lb = start
<1> USE DEF InThree
<1>1. CASE to <= L
  BY <1>1
<1>2. CASE L < to /\ from < L
  BY <1>2
<1>3. CASE from = L
  BY <1>3
<1>4. CASE L < from
  BY <1>4
<1> QED BY <1>1, <1>2, <1>3, <1>4

(* The cells start + 1..to of a tape whose stacks have L and R, on its       *)
(* right stack.                                                             *)
RightSpan(L, R, start, to, i, j) == i = R - (to - 1 - L) /\ j = R - (start - L) + 1
LEMMA RightNumbers ==
  ASSUME NEW L \in Nat, NEW R \in Nat, NEW start \in Nat, NEW to \in Nat,
         L + 1 <= start, start < to, to <= L + 1 + R,
         NEW i, NEW j, RightSpan(L, R, start, to, i, j)
  PROVE  /\ i \in Nat /\ j \in Nat /\ i < j /\ j <= R /\ j - i = to - start
         /\ \A k \in 1..(j - i) :
               /\ ((j - i) - k) + 1 \in 1..(j - i) /\ start + k - (L + 1) \in 1..R
               /\ i + (((j - i) - k) + 1) = (R - (start + k - (L + 1))) + 1
               /\ L + 1 + (start + k - (L + 1)) = start + k
<1> USE DEF RightSpan
<1>1. i \in Nat /\ j \in Nat /\ i < j /\ j <= R /\ j - i = to - start
  OBVIOUS
<1>2. ASSUME NEW k \in 1..(j - i)
      PROVE  /\ ((j - i) - k) + 1 \in 1..(j - i) /\ start + k - (L + 1) \in 1..R
             /\ i + (((j - i) - k) + 1) = (R - (start + k - (L + 1))) + 1
             /\ L + 1 + (start + k - (L + 1)) = start + k
  <2>1. k \in Nat /\ 1 <= k /\ k <= to - start
    BY <1>1
  <2> QED BY <1>1, <2>1
<1> QED BY <1>1, <1>2

(* What a scrolling view asks for is what the whole tape has there.         *)
LEMMA Slices ==
  ASSUME NEW S, NEW t \in TapeOver(S), NEW from0 \in Nat, NEW to0 \in Nat,
         NEW to, to = IF to0 < Len(Snapshot(t)) THEN to0 ELSE Len(Snapshot(t))
  PROVE  Slice(t, from0, to0) = SubSeq(Snapshot(t), from0 + 1, to)
<1> DEFINE L == Len(t.left)
           R == Len(t.right)
           z == Snapshot(t)
           n == L + 1 + R
           from == IF from0 < n THEN from0 ELSE n
           start == IF from > L + 1 THEN from ELSE L + 1
           upTo == IF to < L THEN to ELSE L
           a == IF from < L THEN SubSeq(t.left, from + 1, upTo) ELSE <<>>
           b == IF from <= L /\ L < to THEN <<t.head>> ELSE <<>>
           c == IF to > L + 1
                THEN Reverse(SubSeq(t.right, R - (to - 1 - L) + 1, R - (start - L) + 1))
                ELSE <<>>
           r == a \o b \o c
           x == SubSeq(z, from0 + 1, to)
<1>1. /\ t.left \in Seq(S) /\ t.right \in Seq(S) /\ t.head \in S
      /\ L \in Nat /\ R \in Nat /\ n \in Nat
  BY DEF TapeOver
<1>2. /\ z \in Seq(S) /\ Len(z) = n
      /\ \A i \in 1..L : z[i] = t.left[i]
      /\ z[L + 1] = t.head
      /\ \A i \in 1..R : z[L + 1 + i] = t.right[(R - i) + 1]
  BY Snapshots
<1>3. Slice(t, from0, to0) = IF from >= to THEN <<>> ELSE r
  BY <1>2 DEF Slice, CellCount
<1> HIDE DEF L, R, z, n, a, b, c, r, x
<1>4. /\ to \in Nat /\ to <= n /\ from \in Nat /\ from <= n
      /\ from < to => from = from0
      /\ from >= to => to <= from0
  BY <1>1, <1>2 DEF z
<1> HIDE DEF from
<1>5. CASE from >= to
  <2>1. from0 + 1 \in Int /\ to \in Int /\ to < from0 + 1
    BY <1>4, <1>5
  <2>2. x = <<>>
    BY <2>1, SubSeqEmpty DEF x
  <2> QED BY <1>3, <1>5, <2>2 DEF x, z
<1>6. CASE from < to
  <2>1. /\ x \in Seq(S) /\ Len(x) = to - from
        /\ \A k \in 1..(to - from) : x[k] = z[from + k]
    BY <1>2, <1>4, <1>6, Parted DEF x
  <2> DEFINE la == IF from < L THEN upTo - from ELSE 0
             lb == IF from <= L /\ L < to THEN 1 ELSE 0
             lc == IF to > L + 1 THEN to - start ELSE 0
  <2>2. /\ la \in Nat /\ lb \in Nat /\ lc \in Nat /\ la + lb + lc = to - from
        /\ la > 0 => from + la <= L
        /\ lb > 0 => from + la = L
        /\ lc > 0 => from + la + lb = start
    <3>1. InThree(L, from, to, start, la, lb, lc)
      BY DEF InThree
    <3> HIDE DEF la, lb, lc, start, upTo
    <3> QED BY <1>1, <1>4, <1>6, <3>1, ThreeParts
  <2>3. a \in Seq(S) /\ Len(a) = la /\ \A k \in 1..la : a[k] = z[from + k]
    <3>1. CASE from < L
      <4>1. upTo \in Nat /\ from < upTo /\ upTo <= L /\ la = upTo - from
        BY <1>1, <1>4, <1>6, <3>1
      <4> HIDE DEF upTo, la
      <4>2. /\ a \in Seq(S) /\ Len(a) = upTo - from
            /\ \A k \in 1..(upTo - from) : a[k] = t.left[from + k]
        <5> DEFINE s == t.left
        <5>1. /\ s \in Seq(S) /\ from \in Nat /\ upTo \in Nat /\ from < upTo
              /\ upTo <= Len(s)
          BY <1>1, <1>4, <4>1 DEF L
        <5>2. a = SubSeq(s, from + 1, upTo)
          BY <3>1 DEF a, upTo
        <5> HIDE DEF s, a
        <5>3. /\ SubSeq(s, from + 1, upTo) \in Seq(S)
              /\ Len(SubSeq(s, from + 1, upTo)) = upTo - from
              /\ \A k \in 1..(upTo - from) : SubSeq(s, from + 1, upTo)[k] = s[from + k]
          BY <5>1, Parted
        <5> QED BY <5>2, <5>3 DEF s
      <4>3. \A k \in 1..(upTo - from) : from + k \in 1..L
        BY <1>1, <1>4, <4>1
      <4> QED BY <1>2, <4>1, <4>2, <4>3
    <3>2. CASE ~(from < L)
      BY <3>2, EmptySeq DEF a
    <3> QED BY <3>1, <3>2
  <2>4. b \in Seq(S) /\ Len(b) = lb /\ \A k \in 1..lb : b[k] = t.head
    BY <1>1 DEF b
  <2>5. c \in Seq(S) /\ Len(c) = lc /\ \A k \in 1..lc : c[k] = z[start + k]
    <3>1. CASE to > L + 1
      <4> DEFINE i == R - (to - 1 - L)
                 j == R - (start - L) + 1
                 d == SubSeq(t.right, i + 1, j)
      <4>0. start \in Nat /\ start >= L + 1 /\ start < to /\ lc = to - start
        BY <1>1, <1>4, <1>6, <3>1
      <4> HIDE DEF start, la, lb, lc, upTo
      <4>a. /\ L \in Nat /\ R \in Nat /\ start \in Nat /\ to \in Nat
            /\ L + 1 <= start /\ start < to /\ to <= L + 1 + R
        BY <1>1, <1>4, <4>0 DEF n
      <4> HIDE DEF d
      <4>c. RightSpan(L, R, start, to, i, j)
        BY DEF RightSpan
      <4> HIDE DEF i, j
      <4>b. /\ i \in Nat /\ j \in Nat /\ i < j /\ j <= R /\ j - i = to - start
            /\ \A k \in 1..(j - i) :
                  /\ ((j - i) - k) + 1 \in 1..(j - i) /\ start + k - (L + 1) \in 1..R
                  /\ i + (((j - i) - k) + 1) = (R - (start + k - (L + 1))) + 1
                  /\ L + 1 + (start + k - (L + 1)) = start + k
        BY <4>a, <4>c, RightNumbers
      <4> USE DEF d
      <4>1. /\ i \in Nat /\ j \in Nat /\ i < j /\ j <= R /\ lc = j - i
        BY <4>0, <4>b
      <4>2. /\ d \in Seq(S) /\ Len(d) = j - i
            /\ \A k \in 1..(j - i) : d[k] = t.right[i + k]
        <5> DEFINE s == t.right
        <5>1. s \in Seq(S) /\ j <= Len(s)
          BY <1>1, <4>1 DEF R
        <5> HIDE DEF s
        <5>2. /\ SubSeq(s, i + 1, j) \in Seq(S) /\ Len(SubSeq(s, i + 1, j)) = j - i
              /\ \A k \in 1..(j - i) : SubSeq(s, i + 1, j)[k] = s[i + k]
          BY <4>1, <5>1, Parted
        <5> QED BY <5>2 DEF s
      <4>3. c = Reverse(d)
        BY <3>1 DEF c, i, j, start
      <4>4. /\ c \in Seq(S) /\ Len(c) = j - i
            /\ \A k \in 1..(j - i) : c[k] = d[((j - i) - k) + 1]
        <5> HIDE DEF d
        <5> QED BY <4>2, <4>3, Reversed
      <4>5. ASSUME NEW k \in 1..(j - i) PROVE c[k] = z[start + k]
        <5> DEFINE e == ((j - i) - k) + 1
                   f == start + k - (L + 1)
        <5>1. /\ e \in 1..(j - i) /\ f \in 1..R /\ i + e = (R - f) + 1
              /\ L + 1 + f = start + k
          BY <4>b
        <5> HIDE DEF e, f, d
        <5>2. c[k] = t.right[(R - f) + 1]
          BY <4>2, <4>4, <5>1 DEF e
        <5> QED BY <1>2, <5>1, <5>2
      <4> QED BY <4>1, <4>4, <4>5
    <3>2. CASE ~(to > L + 1)
      BY <3>2, EmptySeq DEF c
    <3> QED BY <3>1, <3>2
  <2> HIDE DEF la, start
  <2>6. \A k \in 1..lb : b[k] = z[from + la + k]
    <3>1. \A k \in 1..lb : k = 1 /\ from + la + k = L + 1
      BY <1>1, <1>4, <2>2
    <3> QED BY <1>2, <2>4, <3>1
  <2> HIDE DEF lb, lc
  <2>7. \A k \in 1..lc : c[k] = z[from + la + lb + k]
    <3>1. ASSUME NEW k \in 1..lc PROVE c[k] = z[from + la + lb + k]
      <4>1. from + la + lb = start
        BY <2>2
      <4> QED BY <2>5, <4>1
    <3> QED BY <3>1
  <2>8. Len(a) + Len(b) + Len(c) = to - from
    BY <2>2, <2>3, <2>4, <2>5
  <2>9. /\ \A k \in 1..Len(a) : a[k] = z[from + k]
        /\ \A k \in 1..Len(b) : b[k] = z[from + Len(a) + k]
        /\ \A k \in 1..Len(c) : c[k] = z[from + Len(a) + Len(b) + k]
    BY <2>3, <2>4, <2>5, <2>6, <2>7
  <2>10. a \o b \o c = SubSeq(z, from + 1, to)
    <3>1. AreParts(S, z, from, to, a, b, c)
      BY <1>2, <1>4, <1>6, <2>3, <2>4, <2>5, <2>8, <2>9 DEF AreParts
    <3>2. Three(a, b, c) = PartOf(z, from, to)
      BY <3>1, Glued
    <3> QED BY <3>2 DEF Three, PartOf
  <2>11. from = from0
    BY <1>4, <1>6
  <2> QED BY <1>3, <1>4, <1>6, <2>10, <2>11 DEF r, z
<1> QED BY <1>4, <1>5, <1>6

(* What a window around the head shows is a slice.                          *)
LEMMA Windows ==
  ASSUME NEW S, NEW t \in TapeOver(S), NEW radius \in Nat,
         NEW w, w = Window(t, radius)
  PROVE  /\ w.start \in Nat /\ Len(t.left) - w.start \in 0..radius
         /\ w.cells = Slice(t, w.start, Len(t.left) + radius + 1)
<1> DEFINE L == Len(t.left)
           R == Len(t.right)
           z == Snapshot(t)
           start == IF L > radius THEN L - radius ELSE 0
           after == IF R > radius THEN R - radius ELSE 0
           to0 == L + radius + 1
           to == IF to0 < Len(z) THEN to0 ELSE Len(z)
           a == SubSeq(t.left, start + 1, L)
           b == <<t.head>>
           d == SubSeq(t.right, after + 1, R)
           c == Reverse(d)
<1>1. /\ t.left \in Seq(S) /\ t.right \in Seq(S) /\ t.head \in S
      /\ L \in Nat /\ R \in Nat
  BY DEF TapeOver
<1>2. /\ z \in Seq(S) /\ Len(z) = L + 1 + R
      /\ \A i \in 1..L : z[i] = t.left[i]
      /\ z[L + 1] = t.head
      /\ \A i \in 1..R : z[L + 1 + i] = t.right[(R - i) + 1]
  BY Snapshots
<1>3. w.start = start /\ w.cells = a \o b \o c
  BY DEF Window
<1>4. Slice(t, start, to0) = SubSeq(z, start + 1, to)
  <2>1. start \in Nat /\ to0 \in Nat
    BY <1>1
  <2> HIDE DEF start, to0
  <2> QED BY <2>1, Slices
<1> HIDE DEF L, R, z, a, b, c, d
<1>5. /\ start \in Nat /\ after \in Nat /\ start <= L /\ after <= R
      /\ L - start \in 0..radius
      /\ to \in Nat /\ start < to /\ to <= Len(z)
      /\ to - start = (L - start) + 1 + (R - after)
  <2>1. start \in Nat /\ start <= L /\ L - start \in 0..radius
    BY <1>1
  <2>2. /\ after \in Nat /\ after <= R
        /\ to = L + 1 + (R - after)
    <3>1. to0 < Len(z) <=> radius < R
      BY <1>1, <1>2
    <3> HIDE DEF start
    <3>2. CASE radius < R
      BY <1>1, <1>2, <3>1, <3>2
    <3>3. CASE ~(radius < R)
      BY <1>1, <1>2, <3>1, <3>3
    <3> QED BY <3>2, <3>3
  <2> HIDE DEF start, after, to
  <2>3. to \in Nat /\ start < to /\ to <= Len(z)
    BY <1>1, <1>2, <2>1, <2>2
  <2>4. to - start = (L - start) + 1 + (R - after)
    BY <1>1, <2>1, <2>2
  <2> QED BY <2>1, <2>2, <2>3, <2>4
<1> HIDE DEF start, after, to, to0
<1>6. /\ a \in Seq(S) /\ Len(a) = L - start
      /\ \A k \in 1..(L - start) : a[k] = z[start + k]
  <2>1. CASE start < L
    <3>1. /\ a \in Seq(S) /\ Len(a) = L - start
          /\ \A k \in 1..(L - start) : a[k] = t.left[start + k]
      <4> DEFINE s == t.left
      <4>1. a = SubSeq(s, start + 1, L)
        BY DEF a
      <4>2. s \in Seq(S) /\ start \in Nat /\ L \in Nat /\ start < L /\ L <= Len(s)
        BY <1>1, <1>5, <2>1 DEF L
      <4> HIDE DEF s
      <4>3. /\ SubSeq(s, start + 1, L) \in Seq(S) /\ Len(SubSeq(s, start + 1, L)) = L - start
            /\ \A k \in 1..(L - start) : SubSeq(s, start + 1, L)[k] = s[start + k]
        BY <4>2, Parted
      <4> QED BY <4>1, <4>3 DEF s
    <3>2. \A k \in 1..(L - start) : start + k \in 1..L
      BY <1>1, <1>5
    <3> QED BY <1>2, <3>1, <3>2
  <2>2. CASE start = L
    <3>1. start + 1 \in Int /\ L \in Int /\ L < start + 1 /\ L - start = 0
      BY <1>1, <1>5, <2>2
    <3>2. a = <<>>
      BY <3>1, SubSeqEmpty DEF a
    <3> QED BY <3>1, <3>2, EmptySeq
  <2> QED BY <1>1, <1>5, <2>1, <2>2
<1>7. /\ d \in Seq(S) /\ Len(d) = R - after
      /\ \A k \in 1..(R - after) : d[k] = t.right[after + k]
  <2>1. CASE after < R
    <3> DEFINE s == t.right
    <3>1. d = SubSeq(s, after + 1, R)
      BY DEF d
    <3>2. s \in Seq(S) /\ after \in Nat /\ R \in Nat /\ after < R /\ R <= Len(s)
      BY <1>1, <1>5, <2>1 DEF R
    <3> HIDE DEF s
    <3>3. /\ SubSeq(s, after + 1, R) \in Seq(S) /\ Len(SubSeq(s, after + 1, R)) = R - after
          /\ \A k \in 1..(R - after) : SubSeq(s, after + 1, R)[k] = s[after + k]
      BY <3>2, Parted
    <3> QED BY <3>1, <3>3 DEF s
  <2>2. CASE after = R
    <3>1. after + 1 \in Int /\ R \in Int /\ R < after + 1 /\ R - after = 0
      BY <1>1, <1>5, <2>2
    <3>2. d = <<>>
      BY <3>1, SubSeqEmpty DEF d
    <3> QED BY <3>1, <3>2, EmptySeq
  <2> QED BY <1>1, <1>5, <2>1, <2>2
<1>8. /\ c \in Seq(S) /\ Len(c) = R - after
      /\ \A k \in 1..(R - after) : c[k] = z[L + 1 + k]
  <2>1. /\ c \in Seq(S) /\ Len(c) = Len(d)
        /\ \A k \in 1..Len(d) : c[k] = d[(Len(d) - k) + 1]
    BY <1>7, Reversed DEF c
  <2>2. ASSUME NEW k \in 1..(R - after) PROVE c[k] = z[L + 1 + k]
    <3> DEFINE e == ((R - after) - k) + 1
    <3>1. /\ e \in 1..(R - after) /\ after + e = (R - k) + 1 /\ k \in 1..R
      BY <1>1, <1>5
    <3> HIDE DEF e
    <3>2. c[k] = d[e]
      BY <1>7, <2>1 DEF e
    <3> QED BY <1>2, <1>7, <3>1, <3>2
  <2> QED BY <1>7, <2>1, <2>2
<1>9. /\ b \in Seq(S) /\ Len(b) = 1
      /\ \A k \in 1..1 : b[k] = z[start + (L - start) + k]
  <2>1. b \in Seq(S) /\ Len(b) = 1 /\ b[1] = t.head
    BY <1>1 DEF b
  <2>2. \A k \in 1..1 : start + (L - start) + k = L + 1 /\ k = 1
    BY <1>1, <1>5
  <2> QED BY <1>2, <2>1, <2>2
<1>10. \A k \in 1..(R - after) : c[k] = z[start + (L - start) + 1 + k]
  <2>1. start + (L - start) + 1 = L + 1
    BY <1>1, <1>5
  <2> QED BY <1>8, <2>1
<1>11. a \o b \o c = SubSeq(z, start + 1, to)
  <2>1. Len(a) + Len(b) + Len(c) = to - start
    BY <1>5, <1>6, <1>8, <1>9
  <2>2. /\ \A k \in 1..Len(a) : a[k] = z[start + k]
        /\ \A k \in 1..Len(b) : b[k] = z[start + Len(a) + k]
        /\ \A k \in 1..Len(c) : c[k] = z[start + Len(a) + Len(b) + k]
    BY <1>6, <1>8, <1>9, <1>10
  <2>3. AreParts(S, z, start, to, a, b, c)
    BY <1>2, <1>5, <1>6, <1>8, <1>9, <2>1, <2>2 DEF AreParts
  <2>4. Three(a, b, c) = PartOf(z, start, to)
    BY <2>3, Glued
  <2> QED BY <2>4 DEF Three, PartOf
<1> QED BY <1>3, <1>4, <1>5, <1>11 DEF L, to0

\* The least of two numbers, and of numbers of which there is one.
LEMMA LeastOfTwo ==
  ASSUME NEW a \in Nat, NEW b \in Nat
  PROVE  Min({a, b}) = IF a <= b THEN a ELSE b
<1> DEFINE x == IF a <= b THEN a ELSE b
<1>1. x \in {a, b} /\ \A y \in {a, b} : x =< y
  OBVIOUS
<1>2. \A z \in {a, b} : (\A y \in {a, b} : z =< y) => z = x
  OBVIOUS
<1> HIDE DEF x
<1>3. Min({a, b}) \in {a, b} /\ \A y \in {a, b} : Min({a, b}) =< y
  BY <1>1 DEF Min
<1> QED BY <1>2, <1>3 DEF x

LEMMA LeastIsOne == ASSUME NEW T, T \subseteq Nat, T # {} PROVE Min(T) \in T
<1>1. \E n \in T : \A m \in T : n =< m
  BY LeastNatural
<1> QED BY <1>1 DEF Min

-----------------------------------------------------------------------------
(* What one call of next, and one raise, make of a run.                     *)
IsCursor(c) ==
  c = [cur |-> c.cur, tapes |-> c.tapes, steps |-> c.steps, caps |-> c.caps, status |-> c.status]

LEMMA Fired ==
  ASSUME NEW cur, NEW tapes, NEW steps, NEW caps, NEW status, NEW rule,
         NEW c, c = [cur |-> cur, tapes |-> tapes, steps |-> steps, caps |-> caps, status |-> status]
  PROVE  Fire(c, rule) = [cur |-> rule.next, tapes |-> Apply(rule, tapes), steps |-> steps + 1,
                          caps |-> caps, status |-> status]
<1> DEFINE after == Apply(rule, tapes)
           next == rule.next
           more == steps + 1
<1>1. c.tapes = tapes /\ c.steps = steps
  OBVIOUS
<1>2. Fire(c, rule) = [c EXCEPT !.tapes = after, !.cur = next, !.steps = more]
  BY <1>1 DEF Fire
<1> HIDE DEF after, next, more
<1>3. Fire(c, rule) = [cur |-> next, tapes |-> after, steps |-> more, caps |-> caps, status |-> status]
  BY <1>2
<1> QED BY <1>3 DEF after, next, more

LEMMA StepKeeps ==
  ASSUME CapsInv, NEW m, img.status = "Running", img' = CursorNext(m, img)
  PROVE  IF EndOf(m, img) = "Running"
         THEN img' = [cur |-> FiringRule(m, img).next, tapes |-> Apply(FiringRule(m, img), img.tapes),
                      steps |-> img.steps + 1, caps |-> img.caps, status |-> "Running"]
         ELSE /\ img'.cur = img.cur /\ img'.tapes = img.tapes /\ img'.steps = img.steps
              /\ img'.caps = img.caps /\ img'.status = EndOf(m, img)
<1> DEFINE rule == FiringRule(m, img)
           e == EndOf(m, img)
<1>1. IsCursor(img)
  BY DEF CapsInv, CursorInv, IsCursor
<1>2. img' = IF e # "Running" THEN [img EXCEPT !.status = e] ELSE Fire(img, rule)
  BY DEF CursorNext
<1> HIDE DEF rule, e
<1>3. CASE e = "Running"
  <2>1. img' = Fire(img, rule)
    BY <1>2, <1>3
  <2>2. Fire(img, rule) = [cur |-> rule.next, tapes |-> Apply(rule, img.tapes),
                           steps |-> img.steps + 1, caps |-> img.caps, status |-> img.status]
    BY <1>1, Fired DEF IsCursor
  <2> QED BY <1>3, <2>1, <2>2 DEF rule, e
<1>4. CASE e # "Running"
  <2>1. img' = [img EXCEPT !.status = e]
    BY <1>2, <1>4
  <2>2. /\ img'.cur = img.cur /\ img'.tapes = img.tapes /\ img'.steps = img.steps
        /\ img'.caps = img.caps /\ img'.status = e
    BY <1>1, <2>1 DEF IsCursor
  <2> QED BY <1>4, <2>2 DEF e
<1> QED BY <1>3, <1>4

LEMMA RaiseKeeps ==
  ASSUME CapsInv, NEW m, NEW steps, NEW cells, img' = RaiseCap(m, img, steps, cells)
  PROVE  /\ img'.cur = img.cur /\ img'.tapes = img.tapes /\ img'.steps = img.steps
         /\ \/ img'.status = img.status
            \/ img.status = "HitCap" /\ img'.status = "Running"
         /\ img.tapes = <<>> /\ m.tapes > 0 => img' = img
         /\ img' = img \/ img'.caps.cells = SaturatingAdd(img.caps.cells, cells)
<1>1. CASE img.tapes = <<>> /\ m.tapes > 0
  BY <1>1 DEF RaiseCap
<1>2. CASE ~(img.tapes = <<>> /\ m.tapes > 0)
  <2> DEFINE s == SaturatingAdd(img.caps.steps, steps)
             c == SaturatingAdd(img.caps.cells, cells)
             now == IF img.status = "HitCap" THEN "Running" ELSE img.status
             caps == img.caps
             steps0 == img.caps.steps
             cells0 == img.caps.cells
             raised == [steps |-> s, cells |-> c]
  <2>1. caps = [steps |-> steps0, cells |-> cells0]
    BY DEF CapsInv, CursorInv
  <2>2. img' = [img EXCEPT !.caps.steps = s, !.caps.cells = c,
                           !.status = IF @ = "HitCap" THEN "Running" ELSE @]
    BY <1>2 DEF RaiseCap
  <2>3. \/ now = img.status
        \/ img.status = "HitCap" /\ now = "Running"
    OBVIOUS
  <2> HIDE DEF s, c, now, caps, steps0, cells0
  <2>4. [[caps EXCEPT !.steps = s] EXCEPT !.cells = c] = raised
    <3> DEFINE mid == [caps EXCEPT !.steps = s]
    <3>1. mid = [steps |-> s, cells |-> cells0]
      BY <2>1
    <3> HIDE DEF mid
    <3> DEFINE last == [mid EXCEPT !.cells = c]
    <3>2. last = raised
      BY <3>1
    <3> QED BY <3>2 DEF mid
  <2>5. img' = [img EXCEPT !.caps = raised, !.status = now]
    BY <2>2, <2>4 DEF now, caps, CapsInv, CursorInv
  <2> HIDE DEF raised
  <2>6. /\ img'.cur = img.cur /\ img'.tapes = img.tapes /\ img'.steps = img.steps
        /\ img'.caps = raised /\ img'.status = now
    BY <2>5 DEF CapsInv, CursorInv
  <2>7. img'.caps.cells = c
    BY <2>6 DEF raised
  <2> QED BY <1>2, <2>3, <2>6, <2>7 DEF c
<1> QED BY <1>1, <1>2

-----------------------------------------------------------------------------
(* What the tapes of a run are: at most as many as the machine has, each    *)
(* two stacks and a cell.                                                   *)
TapesFit ==
  /\ IsSeq(img.tapes) /\ Len(img.tapes) \in {0, Image.machine.tapes}
  /\ \A i \in DOMAIN img.tapes : IsTape(img.tapes[i])

ViewInv == CapsInv /\ TapesFit

LEMMA ImageTyped ==
  ASSUME number \in DOMAIN Table
  PROVE  Typed(Image.machine) /\ \A i \in DOMAIN Image.input : IsVector(Image.input[i])
BY ImagesAssumption DEF Image

(* A rule that fires is one of its state's, with moves of a machine's type. *)
LEMMA FiringMoves ==
  ASSUME NEW m, Typed(m), NEW c, EndOf(m, c) = "Running"
  PROVE  /\ MatchingRules(m, c) # {}
         /\ FiringRule(m, c).moves \in Seq(Moves)
         /\ Len(FiringRule(m, c).moves) = m.tapes
<1>1. /\ c.cur \in DOMAIN m.states /\ MatchingRules(m, c) # {}
      /\ ~Malformed(m, FiringRule(m, c))
  BY DEF EndOf
<1>2. Len(Rules(m, c.cur)) \in Nat /\ DOMAIN Rules(m, c.cur) = 1..Len(Rules(m, c.cur))
  BY <1>1, VectorIsSeq DEF Typed, IsVector
<1>3. MatchingRules(m, c) \subseteq DOMAIN Rules(m, c.cur)
  BY DEF MatchingRules
<1>4. Min(MatchingRules(m, c)) \in MatchingRules(m, c)
  <2>1. MatchingRules(m, c) \subseteq Nat
    BY <1>2, <1>3
  <2> QED BY <1>1, <2>1, LeastIsOne
<1>5. FiringRule(m, c).moves \in Seq(Moves)
  BY <1>1, <1>3, <1>4 DEF FiringRule, Typed
<1> QED BY <1>1, <1>5 DEF Malformed

LEMMA AppliedTapes ==
  ASSUME NEW n \in Nat, NEW tapes, IsSeq(tapes), Len(tapes) \in {0, n},
         \A i \in DOMAIN tapes : IsTape(tapes[i]),
         NEW rule, rule.moves \in Seq(Moves), Len(rule.moves) = n
  PROVE  /\ IsSeq(Apply(rule, tapes)) /\ Len(Apply(rule, tapes)) = Len(tapes)
         /\ DOMAIN Apply(rule, tapes) = DOMAIN tapes
         /\ \A i \in DOMAIN tapes :
              /\ IsTape(Apply(rule, tapes)[i])
              /\ CellCount(Apply(rule, tapes)[i]) <= CellCount(tapes[i]) + 1
<1>0. Len(tapes) \in Nat /\ DOMAIN tapes = 1..Len(tapes) /\ DOMAIN tapes \subseteq 1..n
  <2>1. tapes \in Seq(Range(tapes))
    BY DEF IsSeq
  <2>2. Len(tapes) \in Nat /\ DOMAIN tapes = 1..Len(tapes)
    BY <2>1
  <2>3. \A k \in {0, n} : 1..k \subseteq 1..n
    OBVIOUS
  <2> QED BY <2>2, <2>3
<1>1. /\ DOMAIN Apply(rule, tapes) = DOMAIN tapes
      /\ IsSeq(Apply(rule, tapes)) /\ Len(Apply(rule, tapes)) = Len(tapes)
  <2> DEFINE f == Apply(rule, tapes)
  <2>1. f = [i \in 1..Len(tapes) |-> f[i]]
    BY <1>0 DEF Apply
  <2> HIDE DEF f
  <2>2. IsSeq(f) /\ Len(f) = Len(tapes) /\ DOMAIN f = 1..Len(tapes)
    BY <1>0, <2>1, VectorOf
  <2> QED BY <1>0, <2>2 DEF f
<1>2. ASSUME NEW i \in DOMAIN tapes
      PROVE  /\ IsTape(Apply(rule, tapes)[i])
             /\ CellCount(Apply(rule, tapes)[i]) <= CellCount(tapes[i]) + 1
  <2> DEFINE t == tapes[i]
             w == rule.write[i]
             mv == rule.moves[i]
  <2>1. IsTape(t)
    OBVIOUS
  <2>2. mv \in Moves
    <3>1. i \in 1..Len(rule.moves)
      BY <1>0
    <3> QED BY <3>1, ElementOfSeq
  <2>3. Apply(rule, tapes)[i] = Stepped(Marked(t, w), mv)
    BY DEF Apply, Marked
  <2> HIDE DEF t, w, mv
  <2>4. IsTape(Stepped(Marked(t, w), mv)) /\ CellCount(Stepped(Marked(t, w), mv)) <= CellCount(t) + 1
    BY <2>1, <2>2, SteppedTapes
  <2> QED BY <2>3, <2>4 DEF t
<1> QED BY <1>1, <1>2

LEMMA InitViews == Init => ViewInv
<1> SUFFICES ASSUME Init PROVE TapesFit
  BY InitCaps DEF ViewInv
<1>1. number \in DOMAIN Table
  BY DEF Init
<1>2. PICK caps : img = NewCursor(Image.machine, Image.input, caps)
  BY DEF Init, Image
<1> DEFINE m == Image.machine
           init == Image.input
           tapes == [i \in 1..m.tapes |-> NewTape(IF i \in DOMAIN init THEN init[i] ELSE <<>>)]
<1>3. img.tapes = IF m.tapes > caps.cells THEN <<>> ELSE tapes
  BY <1>2 DEF NewCursor
<1>4. m.tapes \in Nat /\ \A i \in DOMAIN init : IsVector(init[i])
  BY <1>1, ImageTyped DEF Typed
<1> HIDE DEF m, init
<1>5. ASSUME NEW i \in 1..m.tapes PROVE IsTape(tapes[i])
  <2> DEFINE s == IF i \in DOMAIN init THEN init[i] ELSE <<>>
  <2>1. IsSeq(s)
    <3>1. CASE i \in DOMAIN init
      BY <1>4, <3>1, VectorIsSeq
    <3>2. CASE i \notin DOMAIN init
      <4>1. s = <<>> /\ <<>> \in Seq({})
        BY <3>2, EmptySeq
      <4> HIDE DEF s
      <4> QED BY <4>1, SeqIsSeq
    <3> QED BY <3>1, <3>2
  <2>2. tapes[i] = NewTape(s)
    OBVIOUS
  <2> HIDE DEF s, tapes
  <2> QED BY <2>1, <2>2, NewTapes
<1>6. DOMAIN <<>> = {} /\ IsSeq(<<>>) /\ Len(<<>>) = 0
  <2>1. <<>> \in Seq({}) /\ Len(<<>>) = 0 /\ DOMAIN <<>> = {}
    BY EmptySeq
  <2> QED BY <2>1, SeqIsSeq
<1>7. IsSeq(tapes) /\ Len(tapes) = m.tapes /\ DOMAIN tapes = 1..m.tapes
  <2>1. tapes = [i \in 1..m.tapes |-> tapes[i]]
    OBVIOUS
  <2> HIDE DEF tapes
  <2> QED BY <1>4, <2>1, VectorOf
<1> HIDE DEF tapes
<1> QED BY <1>3, <1>5, <1>6, <1>7 DEF TapesFit, m

LEMMA StepViews == ASSUME ViewInv, StepImage PROVE ViewInv'
<1> DEFINE m == Image.machine
           rule == FiringRule(m, img)
<1>1. CapsInv'
  BY StepCaps DEF ViewInv
<1>2. number' = number /\ number \in DOMAIN Table /\ Image' = Image
  BY DEF StepImage, ViewInv, CapsInv, CursorInv, Image
<1>3. \/ img'.tapes = img.tapes
      \/ EndOf(m, img) = "Running" /\ img'.tapes = Apply(rule, img.tapes)
  <2>1. img.status = "Running" /\ img' = CursorNext(m, img) /\ CapsInv
    BY DEF StepImage, ViewInv
  <2> HIDE DEF m
  <2>2. CASE EndOf(m, img) = "Running"
    <3> DEFINE next == rule.next
               after == Apply(rule, img.tapes)
    <3>1. img' = [cur |-> next, tapes |-> after, steps |-> img.steps + 1,
                  caps |-> img.caps, status |-> "Running"]
      BY <2>1, <2>2, StepKeeps
    <3> HIDE DEF next, after
    <3>2. img'.tapes = after
      BY <3>1
    <3> QED BY <2>2, <3>2 DEF after
  <2>3. CASE EndOf(m, img) # "Running"
    BY <2>1, <2>3, StepKeeps
  <2> QED BY <2>2, <2>3
<1>4. Typed(m) /\ m.tapes \in Nat
  BY <1>2, ImageTyped DEF Typed
<1>5. IsSeq(img.tapes) /\ Len(img.tapes) \in {0, m.tapes} /\ \A i \in DOMAIN img.tapes : IsTape(img.tapes[i])
  BY DEF ViewInv, TapesFit
<1>6. /\ IsSeq(img'.tapes) /\ Len(img'.tapes) = Len(img.tapes)
      /\ DOMAIN img'.tapes = DOMAIN img.tapes
      /\ \A i \in DOMAIN img.tapes : IsTape(img'.tapes[i])
  <2>1. CASE img'.tapes = img.tapes
    BY <1>5, <2>1
  <2>2. CASE EndOf(m, img) = "Running" /\ img'.tapes = Apply(rule, img.tapes)
    <3>1. rule.moves \in Seq(Moves) /\ Len(rule.moves) = m.tapes
      BY <1>4, <2>2, FiringMoves
    <3> HIDE DEF rule, m
    <3> QED BY <1>4, <1>5, <2>2, <3>1, AppliedTapes
  <2> QED BY <1>3, <2>1, <2>2
<1>7. TapesFit'
  BY <1>2, <1>5, <1>6 DEF TapesFit
<1> QED BY <1>1, <1>7 DEF ViewInv

LEMMA RaisedViews == ASSUME ViewInv, RaiseCaps PROVE ViewInv'
<1>1. CapsInv'
  BY RaisedCaps DEF ViewInv
<1>2. PICK steps, cells : img' = RaiseCap(Image.machine, img, steps, cells)
  BY DEF RaiseCaps
<1>3. img'.tapes = img.tapes
  BY <1>2, RaiseKeeps DEF ViewInv
<1>4. Image' = Image
  BY DEF RaiseCaps, Image
<1>5. TapesFit'
  BY <1>3, <1>4 DEF ViewInv, TapesFit
<1> QED BY <1>1, <1>5 DEF ViewInv

(* What ViewsAgree says of the positions around the ends of the stacks and  *)
(* of small radii, of all.                                                  *)
EveryViewAgrees ==
  \A i \in DOMAIN img.tapes :
    LET t     == img.tapes[i]
        whole == Snapshot(t)
    IN  /\ \A from \in Nat, to \in Nat :
             Slice(t, from, to) = SubSeq(whole, from + 1, Min({to, Len(whole)}))
        /\ \A radius \in Nat :
             LET w == Window(t, radius)
             IN  /\ w.cells = Slice(t, w.start, HeadIndex(t) + radius + 1)
                 /\ HeadIndex(t) - w.start \in 0..radius

LEMMA FitViews == ASSUME TapesFit PROVE EveryViewAgrees
<1> SUFFICES ASSUME NEW i \in DOMAIN img.tapes,
                    NEW t, t = img.tapes[i],
                    NEW whole, whole = Snapshot(t),
                    NEW head, head = HeadIndex(t)
             PROVE  /\ \A from \in Nat, to \in Nat :
                         Slice(t, from, to) = SubSeq(whole, from + 1, Min({to, Len(whole)}))
                    /\ \A radius \in Nat :
                         LET w == Window(t, radius)
                         IN  /\ w.cells = Slice(t, w.start, head + radius + 1)
                             /\ head - w.start \in 0..radius
  BY DEF EveryViewAgrees
<1>0. IsTape(t)
  BY DEF TapesFit
<1>1. t \in TapeOver(SymbolsOn(t))
  BY <1>0 DEF IsTape
<1> DEFINE S == SymbolsOn(t)
<1> HIDE DEF S
<1>2. head = Len(t.left) /\ head \in Nat /\ Len(whole) \in Nat /\ Len(whole) > 0
  BY <1>0, TapeSizes DEF HeadIndex
<1>3. ASSUME NEW from \in Nat, NEW to \in Nat
      PROVE  Slice(t, from, to) = SubSeq(whole, from + 1, Min({to, Len(whole)}))
  <2> DEFINE last == Min({to, Len(whole)})
  <2>1. last = IF to < Len(Snapshot(t)) THEN to ELSE Len(Snapshot(t))
    <3>1. last = IF to <= Len(whole) THEN to ELSE Len(whole)
      BY <1>2, LeastOfTwo
    <3> HIDE DEF last
    <3> QED BY <1>2, <3>1
  <2> HIDE DEF last
  <2>2. Slice(t, from, to) = SubSeq(Snapshot(t), from + 1, last)
    BY <1>1, <2>1, Slices
  <2> QED BY <2>2 DEF last
<1>4. ASSUME NEW radius \in Nat
      PROVE  LET w == Window(t, radius)
             IN  /\ w.cells = Slice(t, w.start, head + radius + 1)
                 /\ head - w.start \in 0..radius
  <2> DEFINE w == Window(t, radius)
  <2>1. w = Window(t, radius)
    OBVIOUS
  <2> HIDE DEF w
  <2>2. /\ Len(t.left) - w.start \in 0..radius
        /\ w.cells = Slice(t, w.start, Len(t.left) + radius + 1)
    BY <1>1, <2>1, Windows
  <2> QED BY <1>2, <2>2 DEF w
<1> QED BY <1>3, <1>4

(* The positions the property samples are positions.                        *)
LEMMA SampledViews == ASSUME TapesFit, EveryViewAgrees PROVE ViewsAgree
<1> SUFFICES ASSUME NEW i \in DOMAIN img.tapes,
                    NEW t, t = img.tapes[i],
                    NEW whole, whole = Snapshot(t),
                    NEW head, head = HeadIndex(t),
                    NEW edges, edges = {0, 1, head, head + 1, head + 2, Len(whole) - 1,
                                        Len(whole), Len(whole) + 1}
             PROVE  /\ \A from \in edges, to \in edges :
                         Slice(t, from, to) = SubSeq(whole, from + 1, Min({to, Len(whole)}))
                    /\ \A radius \in 0..2 :
                         LET w == Window(t, radius)
                         IN  /\ w.cells = Slice(t, w.start, head + radius + 1)
                             /\ head - w.start \in 0..radius
  BY DEF ViewsAgree
<1>1. IsTape(t)
  BY DEF TapesFit
<1>2. edges \subseteq Nat /\ 0..2 \subseteq Nat
  BY <1>1, TapeSizes DEF HeadIndex
<1>3. /\ \A from \in Nat, to \in Nat :
           Slice(t, from, to) = SubSeq(whole, from + 1, Min({to, Len(whole)}))
      /\ \A radius \in Nat :
           LET w == Window(t, radius)
           IN  /\ w.cells = Slice(t, w.start, head + radius + 1)
               /\ head - w.start \in 0..radius
  BY DEF EveryViewAgrees
<1>4. ASSUME NEW from \in edges, NEW to \in edges
      PROVE  Slice(t, from, to) = SubSeq(whole, from + 1, Min({to, Len(whole)}))
  <2>1. from \in Nat /\ to \in Nat
    BY <1>2
  <2> QED BY <1>3, <2>1
<1>5. ASSUME NEW radius \in 0..2
      PROVE  LET w == Window(t, radius)
             IN  /\ w.cells = Slice(t, w.start, head + radius + 1)
                 /\ head - w.start \in 0..radius
  <2>1. radius \in Nat
    OBVIOUS
  <2> QED BY <1>3, <2>1
<1> QED BY <1>4, <1>5

\* Whatever machine, stages, caps and raises: every part of a tape that a
\* scrolling view reads off the two stacks around the head is that part of the
\* whole tape, and a window has the head in it (tm/sim.rs, trace.rs).
THEOREM ViewsStayExact == Spec => [](EveryViewAgrees /\ ViewsAgree)
<1>1. ViewInv /\ [Next]_vars => ViewInv'
  <2>1. ASSUME ViewInv, UNCHANGED vars PROVE ViewInv'
    BY <2>1 DEF vars, ViewInv, TapesFit, CapsInv, CursorInv, StopsAtItsCaps, Image
  <2> QED BY <2>1, StepViews, RaisedViews DEF Next
<1>2. ViewInv => EveryViewAgrees /\ ViewsAgree
  BY FitViews, SampledViews DEF ViewInv
<1> QED BY <1>1, <1>2, InitViews, PTL DEF Spec

-----------------------------------------------------------------------------
(* Calls of next are made one after another from the first.                 *)
First(m, init, caps) == [c |-> NewCursor(m, init, caps), origins |-> [i \in 1..m.tapes |-> 0]]
Calls(m, f, x, n) == f = [k \in 0..n |-> IF k = 0 THEN x ELSE Advanced(m, f[k - 1])]

LEMMA CallsGo == ASSUME NEW m, NEW x, NEW n \in Nat PROVE \E f : Calls(m, f, x, n)
<1> DEFINE S == {k \in Nat : \E f : Calls(m, f, x, k)}
<1>1. 0 \in S
  <2> DEFINE a == [k \in 0..0 |-> x]
  <2>1. Calls(m, a, x, 0)
    BY DEF Calls
  <2> HIDE DEF a
  <2> QED BY <2>1
<1>2. ASSUME NEW k \in Nat, k \in S PROVE k + 1 \in S
  <2>1. PICK f : Calls(m, f, x, k)
    BY <1>2
  <2> DEFINE last == Advanced(m, f[k])
             g == [n0 \in 0..(k + 1) |-> IF n0 = k + 1 THEN last ELSE f[n0]]
  <2>2. /\ k + 1 # 0 /\ (k + 1) - 1 = k
        /\ \A j \in 0..(k + 1) :
             j # k + 1 =>
               j \in 0..k /\ (j # 0 => j - 1 \in 0..k /\ j - 1 \in 0..(k + 1) /\ j - 1 # k + 1)
        /\ k \in 0..(k + 1) /\ k # k + 1
    OBVIOUS
  <2>3. f = [j \in 0..k |-> IF j = 0 THEN x ELSE Advanced(m, f[j - 1])]
    BY <2>1 DEF Calls
  <2>4. ASSUME NEW j \in 0..(k + 1) PROVE g[j] = IF j = 0 THEN x ELSE Advanced(m, g[j - 1])
    <3>1. CASE j = k + 1
      <4>1. g[k] = f[k] /\ g[j] = last
        BY <2>2, <3>1
      <4> HIDE DEF g
      <4> QED BY <2>2, <3>1, <4>1
    <3>2. CASE j # k + 1
      <4>1. j \in 0..k /\ g[j] = f[j] /\ (j # 0 => g[j - 1] = f[j - 1])
        BY <2>2, <3>2
      <4> HIDE DEF g
      <4> QED BY <2>3, <4>1
    <3> QED BY <3>1, <3>2
  <2>5. g = [j \in 0..(k + 1) |-> g[j]]
    OBVIOUS
  <2> HIDE DEF g
  <2>6. Calls(m, g, x, k + 1)
    BY <2>4, <2>5 DEF Calls
  <2> QED BY <2>6
<1> HIDE DEF S
<1>3. n \in S
  BY <1>1, <1>2, AllNaturals
<1> QED BY <1>3 DEF S

LEMMA CallsAgree ==
  ASSUME NEW m, NEW x, NEW f, NEW g, NEW a \in Nat, NEW b \in Nat,
         Calls(m, f, x, a), Calls(m, g, x, b), NEW n \in Nat, n <= a, n <= b
  PROVE  f[n] = g[n]
<1> DEFINE S == {k \in Nat : k <= a /\ k <= b => f[k] = g[k]}
<1>0. /\ f = [j \in 0..a |-> IF j = 0 THEN x ELSE Advanced(m, f[j - 1])]
      /\ g = [j \in 0..b |-> IF j = 0 THEN x ELSE Advanced(m, g[j - 1])]
  BY DEF Calls
<1>1. 0 \in S
  <2>1. 0 \in 0..a /\ 0 \in 0..b
    OBVIOUS
  <2> QED BY <1>0, <2>1
<1>2. ASSUME NEW k \in Nat, k \in S PROVE k + 1 \in S
  <2> SUFFICES ASSUME k + 1 <= a, k + 1 <= b PROVE f[k + 1] = g[k + 1]
    OBVIOUS
  <2>1. /\ k + 1 \in 0..a /\ k + 1 \in 0..b /\ k + 1 # 0 /\ (k + 1) - 1 = k /\ k <= a /\ k <= b
    OBVIOUS
  <2>2. f[k] = g[k]
    BY <1>2, <2>1
  <2>3. f[k + 1] = Advanced(m, f[k]) /\ g[k + 1] = Advanced(m, g[k])
    BY <1>0, <2>1
  <2> QED BY <2>2, <2>3
<1>3. n \in S
  <2> HIDE DEF S
  <2> QED BY <1>1, <1>2, AllNaturals
<1> QED BY <1>3

(* The course of a run is what its definition says, call by call.           *)
LEMMA Courses ==
  ASSUME NEW m, NEW init, NEW caps
  PROVE  /\ Course(m, init, caps)[0] = First(m, init, caps)
         /\ \A n \in Nat : Course(m, init, caps)[n + 1] = Advanced(m, Course(m, init, caps)[n])
<1> DEFINE x == First(m, init, caps)
           some(n) == CHOOSE f : Calls(m, f, x, n)
           at0 == [n \in Nat |-> some(n)[n]]
           Follows(at) == at = [n \in Nat |-> IF n = 0 THEN x ELSE Advanced(m, at[n - 1])]
<1> HIDE DEF x
<1>1. \A n \in Nat : Calls(m, some(n), x, n)
  BY CallsGo
<1> HIDE DEF some
<1>2. ASSUME NEW n \in Nat PROVE at0[n] = IF n = 0 THEN x ELSE Advanced(m, at0[n - 1])
  <2>1. n \in 0..n /\ n <= n /\ (n # 0 => n - 1 \in Nat /\ n - 1 <= n - 1 /\ n - 1 <= n)
    OBVIOUS
  <2>2. some(n)[n] = IF n = 0 THEN x ELSE Advanced(m, some(n)[n - 1])
    <3>1. Calls(m, some(n), x, n)
      BY <1>1
    <3> DEFINE f == some(n)
    <3>2. f = [j \in 0..n |-> IF j = 0 THEN x ELSE Advanced(m, f[j - 1])]
      BY <3>1 DEF Calls
    <3> HIDE DEF f
    <3>3. f[n] = IF n = 0 THEN x ELSE Advanced(m, f[n - 1])
      BY <2>1, <3>2
    <3> QED BY <3>3 DEF f
  <2>3. n # 0 => some(n)[n - 1] = some(n - 1)[n - 1]
    <3> SUFFICES ASSUME n # 0 PROVE some(n)[n - 1] = some(n - 1)[n - 1]
      OBVIOUS
    <3> DEFINE k == n - 1
               f == some(n)
               g == some(k)
    <3>1. k \in Nat /\ k <= k /\ k <= n
      BY <2>1
    <3> HIDE DEF k
    <3>2. Calls(m, f, x, n) /\ Calls(m, g, x, k)
      BY <1>1, <3>1
    <3> HIDE DEF f, g
    <3>3. f[k] = g[k]
      BY <3>1, <3>2, CallsAgree
    <3> QED BY <3>3 DEF f, g, k
  <2>4. at0[n] = some(n)[n] /\ (n # 0 => at0[n - 1] = some(n - 1)[n - 1])
    BY <2>1
  <2> HIDE DEF at0
  <2> QED BY <2>2, <2>3, <2>4
<1>3. at0 = [n \in Nat |-> at0[n]]
  OBVIOUS
<1> HIDE DEF at0
<1>4. Follows(at0)
  BY <1>2, <1>3
<1>5. Course(m, init, caps) = CHOOSE at : Follows(at)
  BY DEF Course, x, First
<1> HIDE DEF Follows
<1>6. Follows(Course(m, init, caps))
  BY <1>4, <1>5
<1> DEFINE at == Course(m, init, caps)
<1>7. at = [n \in Nat |-> IF n = 0 THEN x ELSE Advanced(m, at[n - 1])]
  BY <1>6 DEF Follows
<1> HIDE DEF at
<1>8. at[0] = x
  BY <1>7
<1>9. ASSUME NEW n \in Nat PROVE at[n + 1] = Advanced(m, at[n])
  <2>1. n + 1 \in Nat /\ n + 1 # 0 /\ (n + 1) - 1 = n
    OBVIOUS
  <2> QED BY <1>7, <2>1
<1> QED BY <1>8, <1>9 DEF at, x

(* A run that ended stays as it is.                                         *)
LEMMA EndsStay ==
  ASSUME NEW m, NEW init, NEW caps, NEW j \in Nat, NEW n \in Nat, j <= n,
         Course(m, init, caps)[j].c.status # "Running"
  PROVE  Course(m, init, caps)[n] = Course(m, init, caps)[j]
<1> DEFINE at == Course(m, init, caps)
           S == {k \in Nat : at[j + k] = at[j]}
<1>1. \A k \in Nat : at[k + 1] = Advanced(m, at[k])
  BY Courses
<1>2. at[j].c.status # "Running"
  OBVIOUS
<1> HIDE DEF at
<1>3. 0 \in S
  <2>1. j + 0 = j
    OBVIOUS
  <2> QED BY <2>1
<1>4. ASSUME NEW k \in Nat, k \in S PROVE k + 1 \in S
  <2>1. j + k \in Nat /\ j + (k + 1) = (j + k) + 1 /\ k + 1 \in Nat
    OBVIOUS
  <2>2. at[(j + k) + 1] = Advanced(m, at[j + k])
    BY <1>1, <2>1
  <2>3. at[j + k] = at[j]
    BY <1>4
  <2>4. Advanced(m, at[j]) = at[j]
    BY <1>2 DEF Advanced
  <2> QED BY <2>1, <2>2, <2>3, <2>4
<1>5. n - j \in Nat /\ j + (n - j) = n
  OBVIOUS
<1>6. n - j \in S
  <2> HIDE DEF S
  <2> QED BY <1>3, <1>4, <1>5, AllNaturals
<1>7. at[n] = at[j]
  BY <1>5, <1>6
<1> QED BY <1>7 DEF at

(* What a run with a configuration it does not end before ends with.        *)
LEMMA Simulated ==
  ASSUME NEW m, NEW init, NEW caps, caps.steps \in Nat, NEW k \in Nat, k <= caps.steps,
         Course(m, init, caps)[k].c.status = "Running",
         Course(m, init, caps)[k + 1].c.status # "Running"
  PROVE  Simulate(m, init, caps) = Course(m, init, caps)[k + 1]
<1> DEFINE at == Course(m, init, caps)
           ends == {n \in 0..(caps.steps + 1) : at[n].c.status # "Running"}
           n0 == CHOOSE n \in 0..(caps.steps + 1) : at[n].c.status # "Running"
<1>1. Simulate(m, init, caps) = at[n0]
  BY DEF Simulate
<1>2. at[k].c.status = "Running" /\ at[k + 1].c.status # "Running"
  OBVIOUS
<1>3. k + 1 \in 0..(caps.steps + 1)
  OBVIOUS
<1>4. n0 \in 0..(caps.steps + 1) /\ at[n0].c.status # "Running"
  <2> HIDE DEF at
  <2> QED BY <1>2, <1>3
<1> HIDE DEF n0
<1>5. n0 \in Nat
  BY <1>4
<1>6. ~(n0 <= k)
  BY <1>2, <1>4, <1>5, EndsStay
<1>7. k + 1 <= n0 /\ k + 1 \in Nat
  BY <1>5, <1>6
<1>8. at[n0] = at[k + 1]
  BY <1>2, <1>5, <1>7, EndsStay
<1> QED BY <1>1, <1>8

(* How many cells the first tapes have, up to all.                          *)
CountsUp(tapes, total) ==
  /\ total[0] = 0 /\ total[Len(tapes)] = TotalCells(tapes)
  /\ \A k \in 0..Len(tapes) : total[k] \in Nat
  /\ \A k \in 1..Len(tapes) : total[k] = total[k - 1] + CellCount(tapes[k])
LEMMA CellSums ==
  ASSUME NEW tapes, IsSeq(tapes), \A i \in DOMAIN tapes : IsTape(tapes[i])
  PROVE  \E total : CountsUp(tapes, total)
<1> DEFINE N == Len(tapes)
           f == [k \in 1..N |-> [x \in Nat |-> x + CellCount(tapes[k])]]
           P == [k \in 0..N |-> Nat]
           Sums(sum) == sum = [k \in 0..N |-> IF k = 0 THEN 0 ELSE sum[k - 1] + CellCount(tapes[k])]
<1>1. N \in Nat /\ DOMAIN tapes = 1..N
  <2>1. tapes \in Seq(Range(tapes))
    BY DEF IsSeq
  <2> QED BY <2>1
<1> HIDE DEF N
<1>2. \A k \in 1..N : CellCount(tapes[k]) \in Nat
  BY <1>1, TapeSizes
<1>3. \E at : Walks(at, f, 0, N, P)
  <2>1. 0 \in P[0]
    BY <1>1
  <2>2. ASSUME NEW n \in 1..N, NEW q \in P[n - 1] PROVE f[n][q] \in P[n]
    <3>1. q \in Nat /\ n \in 0..N
      BY <1>1
    <3>2. f[n][q] = q + CellCount(tapes[n])
      BY <3>1
    <3> QED BY <1>2, <3>1, <3>2
  <2> HIDE DEF f, P
  <2> QED BY <1>1, <2>1, <2>2, Turns
<1>4. PICK at : Walks(at, f, 0, N, P)
  BY <1>3
<1>5. at = [n \in 0..N |-> at[n]] /\ at[0] = 0 /\ \A n \in 0..N : at[n] \in Nat
  BY <1>4 DEF Walks
<1>6. \A n \in 1..N : at[n] = at[n - 1] + CellCount(tapes[n])
  <2>1. ASSUME NEW n \in 1..N PROVE at[n] = at[n - 1] + CellCount(tapes[n])
    <3>1. n - 1 \in 0..N
      BY <1>1
    <3>2. at[n] = f[n][at[n - 1]] /\ at[n - 1] \in Nat
      BY <1>4, <1>5, <3>1 DEF Walks
    <3> QED BY <3>2
  <2> QED BY <2>1
<1>7. Sums(at)
  <2>1. ASSUME NEW k \in 0..N PROVE at[k] = IF k = 0 THEN 0 ELSE at[k - 1] + CellCount(tapes[k])
    <3>1. k # 0 => k \in 1..N
      BY <1>1
    <3> QED BY <1>5, <1>6, <3>1
  <2> QED BY <1>5, <2>1
<1> DEFINE total == CHOOSE sum : Sums(sum)
<1>8. TotalCells(tapes) = total[N]
  BY DEF TotalCells, N
<1> HIDE DEF Sums
<1>9. Sums(total)
  BY <1>7
<1> HIDE DEF total
<1>10. \A k \in 0..N : total[k] = IF k = 0 THEN 0 ELSE total[k - 1] + CellCount(tapes[k])
  <2>1. total = [k \in 0..N |-> IF k = 0 THEN 0 ELSE total[k - 1] + CellCount(tapes[k])]
    BY <1>9 DEF Sums
  <2> QED BY <2>1
<1>11. ASSUME NEW k \in 0..N PROVE total[k] \in Nat
  <2> DEFINE Q == [n \in 0..k |-> Nat]
  <2>1. k \in Nat /\ 0 \in 0..k /\ k \in 0..k /\ 0 \in 0..N
    BY <1>1
  <2>2. total[0] \in Q[0]
    BY <1>10, <2>1
  <2>3. ASSUME NEW n \in 1..k, total[n - 1] \in Q[n - 1] PROVE total[n] \in Q[n]
    <3>1. n \in 0..k /\ n - 1 \in 0..k /\ n \in 0..N /\ n \in 1..N /\ n # 0
      BY <1>1
    <3>2. total[n - 1] \in Nat /\ total[n] = total[n - 1] + CellCount(tapes[n])
      BY <1>10, <2>3, <3>1
    <3> QED BY <1>2, <3>1, <3>2
  <2> HIDE DEF Q
  <2>4. total[k] \in Q[k]
    BY <2>1, <2>2, <2>3, TurnsStay
  <2> QED BY <2>1, <2>4 DEF Q
<1>12. total[0] = 0 /\ \A k \in 1..N : total[k] = total[k - 1] + CellCount(tapes[k])
  <2>1. 0 \in 0..N /\ \A k \in 1..N : k \in 0..N /\ k # 0
    BY <1>1
  <2> QED BY <1>10, <2>1
<1>13. CountsUp(tapes, total)
  BY <1>8, <1>11, <1>12 DEF CountsUp, N
<1> QED BY <1>13

LEMMA CellsCounted ==
  ASSUME NEW tapes, IsSeq(tapes), \A i \in DOMAIN tapes : IsTape(tapes[i])
  PROVE  TotalCells(tapes) \in Nat
<1>1. PICK total : CountsUp(tapes, total)
  BY CellSums
<1>2. Len(tapes) \in 0..Len(tapes)
  BY DEF IsSeq
<1> QED BY <1>1, <1>2 DEF CountsUp

(* Tapes that grow by a cell each grow by as many cells as there are.       *)
LEMMA CellsGrow ==
  ASSUME NEW a, IsSeq(a), \A i \in DOMAIN a : IsTape(a[i]),
         NEW b, IsSeq(b), DOMAIN b = DOMAIN a, Len(b) = Len(a),
         \A i \in DOMAIN a : IsTape(b[i]) /\ CellCount(b[i]) <= CellCount(a[i]) + 1
  PROVE  TotalCells(b) <= TotalCells(a) + Len(a)
<1> DEFINE N == Len(a)
<1>1. N \in Nat /\ DOMAIN a = 1..N
  <2>1. a \in Seq(Range(a))
    BY DEF IsSeq
  <2> QED BY <2>1
<1>2. PICK x : CountsUp(a, x)
  BY CellSums
<1>3. PICK y : CountsUp(b, y)
  BY CellSums
<1>4. /\ x[0] = 0 /\ y[0] = 0 /\ x[N] = TotalCells(a) /\ y[N] = TotalCells(b)
      /\ \A k \in 0..N : x[k] \in Nat /\ y[k] \in Nat
      /\ \A k \in 1..N : /\ x[k] = x[k - 1] + CellCount(a[k])
                         /\ y[k] = y[k - 1] + CellCount(b[k])
  BY <1>2, <1>3 DEF CountsUp
<1>5. \A k \in 1..N : /\ CellCount(a[k]) \in Nat /\ CellCount(b[k]) \in Nat
                     /\ CellCount(b[k]) <= CellCount(a[k]) + 1
  BY <1>1, TapeSizes
<1> HIDE DEF N
<1> DEFINE P == [k \in 0..N |-> {n \in Nat : n <= x[k] + k}]
<1>6. y[0] \in P[0]
  BY <1>1, <1>4
<1>7. ASSUME NEW k \in 1..N, y[k - 1] \in P[k - 1] PROVE y[k] \in P[k]
  <2> DEFINE u == x[k - 1]
             v == y[k - 1]
             c == CellCount(a[k])
             d == CellCount(b[k])
  <2>1. k \in 0..N /\ k - 1 \in 0..N /\ k \in Nat
    BY <1>1
  <2>2. /\ u \in Nat /\ v \in Nat /\ c \in Nat /\ d \in Nat /\ d <= c + 1
        /\ x[k] = u + c /\ y[k] = v + d /\ y[k] \in Nat
    BY <1>4, <1>5, <2>1
  <2>3. v <= u + (k - 1)
    BY <1>7, <2>1
  <2> HIDE DEF u, v, c, d
  <2>4. y[k] <= x[k] + k
    BY <2>1, <2>2, <2>3
  <2> QED BY <2>1, <2>2, <2>4
<1>8. y[N] \in P[N]
  <2> HIDE DEF P
  <2> QED BY <1>1, <1>6, <1>7, TurnsStay
<1> QED BY <1>1, <1>4, <1>8 DEF N

-----------------------------------------------------------------------------
(* The cells a run has, which it counts before each step.                   *)
CellsInv == ViewInv /\ PassesCellsOnce

LEMMA InitCells == Init => CellsInv
<1> SUFFICES ASSUME Init PROVE PassesCellsOnce
  BY InitViews DEF CellsInv
<1>1. img.steps = 0
  BY DEF Init, NewCursor
<1> QED BY <1>1 DEF PassesCellsOnce

LEMMA StepCells == ASSUME CellsInv, StepImage PROVE CellsInv'
<1> DEFINE m == Image.machine
           rule == FiringRule(m, img)
<1>1. ViewInv /\ ViewInv'
  BY StepViews DEF CellsInv
<1>2. /\ number \in DOMAIN Table /\ Image' = Image
      /\ img.status = "Running" /\ img' = CursorNext(m, img)
  BY <1>1 DEF StepImage, ViewInv, CapsInv, CursorInv, Image
<1>3. Typed(m) /\ m.tapes \in Nat
  BY <1>2, ImageTyped DEF Typed
<1>4. /\ IsSeq(img.tapes) /\ Len(img.tapes) \in {0, m.tapes}
      /\ \A i \in DOMAIN img.tapes : IsTape(img.tapes[i])
  BY <1>1 DEF ViewInv, TapesFit
<1>5. CASE EndOf(m, img) # "Running"
  <2>1. img'.tapes = img.tapes /\ img'.steps = img.steps /\ img'.caps = img.caps
    <3> HIDE DEF m
    <3> QED BY <1>1, <1>2, <1>5, StepKeeps DEF ViewInv
  <2> QED BY <1>1, <1>2, <2>1 DEF CellsInv, PassesCellsOnce
<1>6. CASE EndOf(m, img) = "Running"
  <2>1. ~(TotalCells(img.tapes) > img.caps.cells)
    BY <1>6 DEF EndOf
  <2>2. rule.moves \in Seq(Moves) /\ Len(rule.moves) = m.tapes
    BY <1>3, <1>6, FiringMoves
  <2> DEFINE next == rule.next
             after == Apply(rule, img.tapes)
  <2>3. img' = [cur |-> next, tapes |-> after, steps |-> img.steps + 1,
                caps |-> img.caps, status |-> "Running"]
    <3> HIDE DEF m
    <3> QED BY <1>1, <1>2, <1>6, StepKeeps DEF ViewInv
  <2>4. /\ IsSeq(after) /\ Len(after) = Len(img.tapes) /\ DOMAIN after = DOMAIN img.tapes
        /\ \A i \in DOMAIN img.tapes :
             IsTape(after[i]) /\ CellCount(after[i]) <= CellCount(img.tapes[i]) + 1
    <3> HIDE DEF m, rule
    <3> QED BY <1>3, <1>4, <2>2, AppliedTapes
  <2> HIDE DEF next, after
  <2>5. img'.tapes = after /\ img'.caps = img.caps
    BY <2>3
  <2>6. TotalCells(after) <= TotalCells(img.tapes) + Len(img.tapes)
    BY <1>4, <2>4, CellsGrow
  <2>7. TotalCells(img.tapes) \in Nat /\ TotalCells(after) \in Nat
    BY <1>4, <2>4, CellsCounted
  <2>8. img.caps.cells \in Nat
    BY <1>1, MaxU64Assumption DEF ViewInv, CapsInv, CursorInv
  <2>9. TotalCells(after) <= img.caps.cells + m.tapes
    <3> DEFINE n == m.tapes
               x == TotalCells(img.tapes)
               y == TotalCells(after)
               c == img.caps.cells
               k == Len(img.tapes)
    <3>1. n \in Nat /\ k \in {0, n} /\ x \in Nat /\ y \in Nat /\ c \in Nat /\ ~(x > c) /\ y <= x + k
      BY <1>3, <1>4, <2>1, <2>6, <2>7, <2>8
    <3> HIDE DEF n, x, y, c, k
    <3>2. y <= c + n
      BY <3>1
    <3> QED BY <3>2 DEF n, y, c
  <2> QED BY <1>1, <1>2, <2>5, <2>9 DEF CellsInv, PassesCellsOnce
<1> QED BY <1>5, <1>6

LEMMA RaisedCells == ASSUME CellsInv, RaiseCaps PROVE CellsInv'
<1>1. ViewInv /\ ViewInv'
  BY RaisedViews DEF CellsInv
<1>2. PICK steps \in job.amounts, cells \in job.amounts :
        img' = RaiseCap(Image.machine, img, steps, cells)
  BY DEF RaiseCaps
<1>3. number \in DOMAIN Table /\ Image' = Image
  BY <1>1 DEF RaiseCaps, ViewInv, CapsInv, CursorInv, Image
<1>4. cells \in 0..MaxU64
  BY <1>3, JobsAssumption DEF job
<1>5. /\ img'.tapes = img.tapes /\ img'.steps = img.steps
      /\ img' = img \/ img'.caps.cells = SaturatingAdd(img.caps.cells, cells)
  BY <1>1, <1>2, RaiseKeeps DEF ViewInv
<1>6. img.caps.cells \in 0..MaxU64 /\ img'.caps.cells \in 0..MaxU64
  BY <1>1 DEF ViewInv, CapsInv, CursorInv
<1>7. img'.caps.cells >= img.caps.cells
  <2>1. CASE img' = img
    BY <1>6, <2>1, MaxU64Assumption
  <2>2. CASE img'.caps.cells = SaturatingAdd(img.caps.cells, cells)
    BY <1>4, <1>6, <2>2, SaturatingFacts
  <2> QED BY <1>5, <2>1, <2>2
<1>8. TotalCells(img.tapes) \in Nat /\ Image.machine.tapes \in Nat
  BY <1>1, <1>3, CellsCounted, ImageTyped DEF ViewInv, TapesFit, Typed
<1>9. PassesCellsOnce'
  <2> SUFFICES ASSUME img'.steps > 0
               PROVE  TotalCells(img'.tapes) <= img'.caps.cells + Image'.machine.tapes
    BY DEF PassesCellsOnce
  <2> DEFINE n == Image.machine.tapes
             x == TotalCells(img.tapes)
             c == img.caps.cells
             d == img'.caps.cells
  <2>1. x <= c + n
    BY <1>5 DEF CellsInv, PassesCellsOnce
  <2>2. n \in Nat /\ x \in Nat /\ c \in Nat /\ d \in Nat /\ d >= c
    BY <1>6, <1>7, <1>8, MaxU64Assumption
  <2> HIDE DEF n, x, c, d
  <2>3. x <= d + n
    BY <2>1, <2>2
  <2> QED BY <1>3, <1>5, <2>3 DEF n, x, d
<1> QED BY <1>1, <1>9 DEF CellsInv

(* A run that ended keeps its state, tapes and steps, and how it ended: but *)
(* a raise lets one that a cap stopped go on, not one refused for its tapes.*)
EndedRunsStand ==
  img.status # "Running" =>
    /\ <<img'.cur, img'.tapes, img'.steps>> = <<img.cur, img.tapes, img.steps>>
    /\ img'.status # img.status =>
         /\ img.status = "HitCap" /\ img'.status = "Running"
         /\ ~(img.tapes = <<>> /\ Image.machine.tapes > 0)

LEMMA EndsStand == ASSUME CapsInv, [Next]_vars PROVE EndedRunsStand
<1>1. CASE StepImage
  BY <1>1 DEF StepImage, EndedRunsStand
<1>2. CASE RaiseCaps
  <2>1. PICK steps, cells : img' = RaiseCap(Image.machine, img, steps, cells)
    BY <1>2 DEF RaiseCaps
  <2>2. /\ img'.cur = img.cur /\ img'.tapes = img.tapes /\ img'.steps = img.steps
        /\ \/ img'.status = img.status
           \/ img.status = "HitCap" /\ img'.status = "Running"
        /\ img.tapes = <<>> /\ Image.machine.tapes > 0 => img' = img
    BY <2>1, RaiseKeeps
  <2> QED BY <2>2 DEF EndedRunsStand
<1>3. CASE UNCHANGED vars
  BY <1>3 DEF vars, EndedRunsStand
<1> QED BY <1>1, <1>2, <1>3 DEF Next

\* Whatever machine, stages, caps and raises: a run is reported as capped only
\* at a cap it used up and never in an accepting state; it takes no step beyond
\* its cap of steps, and one at most beyond its cap of cells, of a cell on each
\* tape; and only a raise takes an ending back, that of a run a cap stopped
\* (trace.rs:352, 367, 386).
THEOREM CapsStayTight == Spec => []CapsAreTight /\ [][EndedRunsStand]_vars
<1>1. CellsInv /\ [Next]_vars => CellsInv'
  <2>1. ASSUME CellsInv, UNCHANGED vars PROVE CellsInv'
    BY <2>1 DEF vars, CellsInv, PassesCellsOnce, ViewInv, TapesFit, CapsInv, CursorInv,
                StopsAtItsCaps, Image
  <2> QED BY <2>1, StepCells, RaisedCells DEF Next
<1>2. CellsInv => CapsAreTight
  BY DEF CellsInv, ViewInv, CapsInv, CapsAreTight
<1>3. CellsInv /\ [Next]_vars => EndedRunsStand
  BY EndsStand DEF CellsInv, ViewInv
<1> QED BY <1>1, <1>2, <1>3, InitCells, PTL DEF Spec

-----------------------------------------------------------------------------
(* A pipeline of no stages leaves the machine and its input.                *)
LEMMA NoStages ==
  ASSUME number \in DOMAIN Table, job.plan = <<>>
  PROVE  /\ Image.why = "" /\ Image.stages = <<>>
         /\ Image.machine = job.machine /\ Image.input = job.input
<1> DEFINE j == job
           base == [why |-> "", machine |-> j.machine, input |-> j.input, stages |-> <<>>]
<1>1. Image = Reduce(j)
  BY RowsAssumption DEF Row, Image, job
<1>2. DOMAIN j.plan = {}
  <2>1. DOMAIN <<>> = {}
    BY EmptySeq
  <2> QED BY <2>1
<1> HIDE DEF j
<1>3. Reduce(j) = base
  BY <1>2 DEF Reduce, FoldLeft, MapThenFoldSet
<1>4. /\ base.why = "" /\ base.stages = <<>>
      /\ base.machine = j.machine /\ base.input = j.input
  OBVIOUS
<1> HIDE DEF base
<1> QED BY <1>1, <1>3, <1>4 DEF j

-----------------------------------------------------------------------------
(* A run that no cap stops, and what of a run's end no cap decides.         *)
Free == [steps |-> job.enough, cells |-> MaxU64]
FreeAt(n) == Course(job.machine, job.input, Free)[n].c
Stopped(m, c) ==
  \/ c.cur \notin DOMAIN m.states
  \/ m.states[c.cur].accept
  \/ MatchingRules(m, c) = {}
  \/ Malformed(m, FiringRule(m, c))

(* A run without stages is refused, or is where the free run is after as    *)
(* many steps.                                                              *)
OnCourse ==
  \/ img.tapes = <<>> /\ job.machine.tapes > 0 /\ img.status # "Halted" /\ img.status # "Running"
  \/ /\ job.machine.tapes <= MaxU64
     /\ img.steps <= job.enough =>
          FreeAt(img.steps) = [cur |-> img.cur, tapes |-> img.tapes, steps |-> img.steps,
                               caps |-> Free, status |-> "Running"]
     /\ img.status = "Halted" => Stopped(job.machine, img)

CourseInv == ViewInv /\ (job.plan = <<>> => OnCourse)

(* Two runs with the same state and tapes have the same rule to fire.       *)
LEMMA SameRules ==
  ASSUME NEW m, NEW c, NEW d, c.cur = d.cur, c.tapes = d.tapes
  PROVE  /\ MatchingRules(m, c) = MatchingRules(m, d)
         /\ FiringRule(m, c) = FiringRule(m, d)
<1>1. MatchingRules(m, c) = MatchingRules(m, d)
  BY DEF MatchingRules
<1> QED BY <1>1 DEF FiringRule

(* What was stopped by no cap is stopped under all; what goes on under some *)
(* caps does under larger ones.                                             *)
LEMMA StopsAlike ==
  ASSUME NEW m, NEW c, NEW d, c.cur = d.cur, c.tapes = d.tapes, Stopped(m, c)
  PROVE  EndOf(m, d) # "Running"
<1>1. MatchingRules(m, c) = MatchingRules(m, d) /\ FiringRule(m, c) = FiringRule(m, d)
  BY SameRules
<1> QED BY <1>1 DEF Stopped, EndOf

LEMMA GoesAlike ==
  ASSUME NEW m, NEW c, NEW d, c.cur = d.cur, c.tapes = d.tapes, EndOf(m, c) = "Running",
         ~(d.steps >= d.caps.steps), ~(TotalCells(d.tapes) > d.caps.cells)
  PROVE  EndOf(m, d) = "Running" /\ FiringRule(m, d) = FiringRule(m, c)
<1>1. MatchingRules(m, c) = MatchingRules(m, d) /\ FiringRule(m, c) = FiringRule(m, d)
  BY SameRules
<1> QED BY <1>1 DEF EndOf

LEMMA StepCourse == ASSUME CourseInv, StepImage PROVE CourseInv'
<1>1. ViewInv'
  BY StepViews DEF CourseInv
<1> SUFFICES ASSUME job'.plan = <<>> PROVE OnCourse'
  BY <1>1 DEF CourseInv
<1>2. number' = number /\ number \in DOMAIN Table /\ Image' = Image /\ job' = job
  BY DEF StepImage, CourseInv, ViewInv, CapsInv, CursorInv, Image, job
<1>3. OnCourse /\ img.status = "Running"
  BY <1>2 DEF CourseInv, StepImage
<1> DEFINE m == job.machine
           rule == FiringRule(m, img)
           k == img.steps
<1>4. img' = CursorNext(m, img) /\ Typed(m)
  <2>1. Image.machine = m
    BY <1>2, NoStages
  <2> QED BY <1>2, <2>1, ImageTyped DEF StepImage
<1>5. /\ k \in Nat /\ img.caps.steps \in Nat
      /\ img.caps.cells \in Nat /\ img.caps.cells <= MaxU64 /\ MaxU64 \in Nat
  BY MaxU64Assumption DEF CourseInv, ViewInv, CapsInv, CursorInv
<1>6. TotalCells(img.tapes) \in Nat
  BY CellsCounted DEF CourseInv, ViewInv, TapesFit
<1>7. job.enough \in Nat
  BY <1>2, JobsAssumption DEF job
<1>8. /\ m.tapes <= MaxU64
      /\ k <= job.enough =>
           FreeAt(k) = [cur |-> img.cur, tapes |-> img.tapes, steps |-> k,
                        caps |-> Free, status |-> "Running"]
  BY <1>3 DEF OnCourse
<1>9. CASE EndOf(m, img) # "Running"
  <2>2. /\ img'.cur = img.cur /\ img'.tapes = img.tapes /\ img'.steps = img.steps
        /\ img'.status = EndOf(m, img)
    <3> HIDE DEF m
    <3> QED BY <1>3, <1>4, <1>9, StepKeeps DEF CourseInv, ViewInv
  <2>3. EndOf(m, img) = "Halted" => Stopped(m, img)
    BY DEF EndOf, Stopped
  <2>4. Stopped(m, img) => Stopped(m, img')
    <3>1. MatchingRules(m, img) = MatchingRules(m, img') /\ FiringRule(m, img) = FiringRule(m, img')
      BY <2>2, SameRules
    <3> QED BY <2>2, <3>1 DEF Stopped
  <2>5. Free' = Free /\ \A n : FreeAt(n)' = FreeAt(n)
    BY <1>2 DEF Free, FreeAt
  <2> QED BY <1>2, <1>8, <2>2, <2>3, <2>4, <2>5 DEF OnCourse, Free, FreeAt
<1>10. CASE EndOf(m, img) = "Running"
  <2>1. ~(k >= img.caps.steps) /\ ~(TotalCells(img.tapes) > img.caps.cells)
    BY <1>10 DEF EndOf
  <2>2. img' = [cur |-> rule.next, tapes |-> Apply(rule, img.tapes), steps |-> k + 1,
                caps |-> img.caps, status |-> "Running"]
    <3> HIDE DEF m
    <3> QED BY <1>3, <1>4, <1>10, StepKeeps DEF CourseInv, ViewInv
  <2> DEFINE next == rule.next
             after == Apply(rule, img.tapes)
  <2>3. /\ img'.cur = next /\ img'.tapes = after
        /\ img'.steps = k + 1 /\ img'.status = "Running"
    <3> HIDE DEF next, after
    <3> QED BY <1>3, <2>2 DEF next, after
  <2>4. ASSUME k + 1 <= job.enough
        PROVE  FreeAt(k + 1) = [cur |-> next, tapes |-> after, steps |-> k + 1,
                                caps |-> Free, status |-> "Running"]
    <3> DEFINE a == FreeAt(k)
               w == Course(m, job.input, Free)[k]
    <3>1. k <= job.enough /\ ~(k >= job.enough)
      BY <1>5, <1>7, <2>4
    <3>2. a = [cur |-> img.cur, tapes |-> img.tapes, steps |-> k, caps |-> Free, status |-> "Running"]
      BY <1>8, <3>1
    <3>3. a = w.c /\ FreeAt(k + 1) = Advanced(m, w).c
      <4> DEFINE course == Course(m, job.input, Free)
      <4>1. \A n \in Nat : course[n + 1] = Advanced(m, course[n])
        BY Courses
      <4> HIDE DEF course
      <4>2. course[k + 1] = Advanced(m, course[k])
        BY <1>5, <4>1
      <4> QED BY <4>2 DEF FreeAt, course
    <3>4. Free.steps = job.enough /\ Free.cells = MaxU64
      BY DEF Free
    <3> HIDE DEF a, w
    <3>5. /\ a.cur = img.cur /\ a.tapes = img.tapes /\ a.steps = k
          /\ a.caps = Free /\ a.status = "Running"
      BY <3>2
    <3>6. ~(TotalCells(img.tapes) > MaxU64)
      BY <1>5, <1>6, <2>1
    <3>7. EndOf(m, a) = "Running" /\ FiringRule(m, a) = rule
      BY <1>10, <3>1, <3>4, <3>5, <3>6, GoesAlike
    <3>8. Advanced(m, w).c = CursorNext(m, a)
      BY <3>3, <3>5 DEF Advanced
    <3>9. CursorNext(m, a) = Fire(a, rule)
      BY <3>5, <3>7 DEF CursorNext
    <3> HIDE DEF rule
    <3>10. Fire(a, rule) = [cur |-> rule.next, tapes |-> Apply(rule, img.tapes), steps |-> k + 1,
                            caps |-> Free, status |-> "Running"]
      BY <3>2, Fired
    <3> QED BY <3>3, <3>8, <3>9, <3>10
  <2>5. Free' = Free /\ \A n : FreeAt(n)' = FreeAt(n)
    BY <1>2 DEF Free, FreeAt
  <2> HIDE DEF next, after, rule
  <2> QED BY <1>2, <1>8, <2>3, <2>4, <2>5 DEF OnCourse, Free, FreeAt
<1> QED BY <1>9, <1>10

LEMMA InitCourse == Init => CourseInv
<1> SUFFICES ASSUME Init, job.plan = <<>> PROVE OnCourse
  BY InitViews DEF CourseInv
<1>1. number \in DOMAIN Table
  BY DEF Init
<1> DEFINE m == job.machine
           init == job.input
           tapes == [i \in 1..m.tapes |-> NewTape(IF i \in DOMAIN init THEN init[i] ELSE <<>>)]
           caps == job.caps
<1>2. img = NewCursor(m, init, caps)
  <2>1. Image.machine = m /\ Image.input = init
    BY <1>1, NoStages
  <2> QED BY <2>1 DEF Init, Image, job
<1>3. caps.cells \in 0..MaxU64 /\ caps.steps \in 0..MaxU64 /\ job.enough \in Nat
  BY <1>1, JobsAssumption DEF job
<1>4. m.tapes \in Nat
  BY <1>1, NoStages, ImageTyped DEF Typed
<1> HIDE DEF m, init, caps
<1>5. CASE m.tapes > caps.cells
  <2>1. img.tapes = <<>> /\ img.status = "HitCap"
    BY <1>2, <1>5 DEF NewCursor
  <2>2. m.tapes > 0
    BY <1>3, <1>4, <1>5
  <2> QED BY <2>1, <2>2 DEF OnCourse, m
<1>6. CASE ~(m.tapes > caps.cells)
  <2> HIDE DEF tapes
  <2>1. img = [cur |-> m.start, tapes |-> tapes, steps |-> 0, caps |-> caps, status |-> "Running"]
    BY <1>2, <1>6 DEF NewCursor, tapes
  <2>2. m.tapes <= MaxU64 /\ ~(m.tapes > MaxU64)
    BY <1>3, <1>4, <1>6, MaxU64Assumption
  <2>3. FreeAt(0) = [cur |-> m.start, tapes |-> tapes, steps |-> 0, caps |-> Free,
                     status |-> "Running"]
    <3>1. FreeAt(0) = NewCursor(m, init, Free)
      <4>1. Course(m, init, Free)[0] = First(m, init, Free)
        BY Courses
      <4> QED BY <4>1 DEF FreeAt, First, m, init
    <3>2. Free.cells = MaxU64
      BY DEF Free
    <3> QED BY <2>2, <3>1, <3>2 DEF NewCursor, tapes
  <2>4. img.steps = 0 /\ img.cur = m.start /\ img.tapes = tapes /\ img.status = "Running"
    BY <2>1
  <2> QED BY <2>2, <2>3, <2>4 DEF OnCourse, m
<1> QED BY <1>5, <1>6

LEMMA RaisedCourse == ASSUME CourseInv, RaiseCaps PROVE CourseInv'
<1>1. ViewInv'
  BY RaisedViews DEF CourseInv
<1> SUFFICES ASSUME job'.plan = <<>> PROVE OnCourse'
  BY <1>1 DEF CourseInv
<1>2. number' = number /\ number \in DOMAIN Table /\ Image' = Image /\ job' = job
  BY DEF RaiseCaps, CourseInv, ViewInv, CapsInv, CursorInv, Image, job
<1>3. OnCourse
  BY <1>2 DEF CourseInv
<1> DEFINE m == job.machine
<1>4. PICK steps, cells : img' = RaiseCap(m, img, steps, cells)
  <2>1. Image.machine = m
    BY <1>2, NoStages
  <2> QED BY <2>1 DEF RaiseCaps
<1>5. Free' = Free /\ \A n : FreeAt(n)' = FreeAt(n)
  BY <1>2 DEF Free, FreeAt
<1>6. CASE img' = img
  BY <1>2, <1>3, <1>5, <1>6 DEF OnCourse, Free, FreeAt, Stopped
<1>7. CASE img' # img
  <2>1. /\ img'.cur = img.cur /\ img'.tapes = img.tapes /\ img'.steps = img.steps
        /\ img'.status = "Halted" => img.status = "Halted"
        /\ ~(img.tapes = <<>> /\ m.tapes > 0)
    <3> HIDE DEF m
    <3> QED BY <1>4, <1>7, RaiseKeeps DEF CourseInv, ViewInv
  <2>2. Stopped(m, img) => Stopped(m, img')
    <3>1. MatchingRules(m, img) = MatchingRules(m, img') /\ FiringRule(m, img) = FiringRule(m, img')
      BY <2>1, SameRules
    <3> QED BY <2>1, <3>1 DEF Stopped
  <2> QED BY <1>2, <1>3, <1>5, <2>1, <2>2 DEF OnCourse, Free, FreeAt
<1> QED BY <1>6, <1>7

(* A run that halted within the free run's steps ended where that one does. *)
LEMMA CourseAgrees == ASSUME CourseInv, img.steps <= job.enough PROVE RaisedRunsAgree
<1> DEFINE m == job.machine
           free == Simulate(m, job.input, [steps |-> job.enough, cells |-> MaxU64]).c
<1> SUFFICES ASSUME img.status = "Halted", job.plan = <<>>
             PROVE  <<img.cur, img.tapes, img.steps>> = <<free.cur, free.tapes, free.steps>>
  BY DEF RaisedRunsAgree
<1> DEFINE k == img.steps
           course == Course(m, job.input, Free)
           a == course[k].c
<1>1. /\ k \in Nat /\ number \in DOMAIN Table /\ Stopped(m, img)
      /\ a = [cur |-> img.cur, tapes |-> img.tapes, steps |-> k, caps |-> Free,
              status |-> "Running"]
  BY DEF CourseInv, ViewInv, CapsInv, CursorInv, OnCourse, FreeAt
<1>2. job.enough \in Nat /\ Free.steps = job.enough
  BY <1>1, JobsAssumption DEF job, Free
<1>3. free = Simulate(m, job.input, Free).c
  BY DEF Free
<1> HIDE DEF free
<1>4. course[k + 1] = Advanced(m, course[k])
  <2>1. \A n \in Nat : course[n + 1] = Advanced(m, course[n])
    BY Courses
  <2> HIDE DEF course
  <2> QED BY <1>1, <2>1
<1> HIDE DEF a
<1>5. a.cur = img.cur /\ a.tapes = img.tapes /\ a.steps = k /\ a.status = "Running"
  BY <1>1
<1>6. EndOf(m, a) # "Running"
  BY <1>1, <1>5, StopsAlike
<1>7. course[k + 1].c = [a EXCEPT !.status = EndOf(m, a)]
  BY <1>4, <1>5, <1>6 DEF Advanced, CursorNext, a
<1>8. /\ course[k + 1].c.cur = img.cur /\ course[k + 1].c.tapes = img.tapes
      /\ course[k + 1].c.steps = k /\ course[k + 1].c.status # "Running"
  <2> DEFINE e == EndOf(m, a)
  <2> HIDE DEF e, course
  <2>1. course[k + 1].c = [a EXCEPT !.status = e] /\ e # "Running"
    BY <1>6, <1>7 DEF e
  <2> QED BY <1>1, <2>1
<1>9. Simulate(m, job.input, Free) = course[k + 1]
  <2>1. course[k].c.status = "Running" /\ k <= Free.steps /\ Free.steps \in Nat
    BY <1>2, <1>5 DEF a
  <2> QED BY <1>1, <1>8, <2>1, Simulated
<1> QED BY <1>3, <1>8, <1>9

\* Whatever machine, caps and raises: a run stopped by its caps and raised, that
\* halts within the steps a free run is given, ends with the tapes, state and
\* step count of that run (trace.rs:352).
THEOREM RaisedRunsStayTogether == Spec => [](img.steps <= job.enough => RaisedRunsAgree)
<1>1. CourseInv /\ [Next]_vars => CourseInv'
  <2>1. ASSUME CourseInv, UNCHANGED vars PROVE CourseInv'
    <3>1. CapsInv' /\ TapesFit'
      BY <2>1 DEF vars, CourseInv, ViewInv, TapesFit, CapsInv, CursorInv, StopsAtItsCaps, Image
    <3>2. job' = job /\ img' = img /\ (OnCourse' <=> OnCourse)
      BY <2>1 DEF vars, OnCourse, FreeAt, Free, Stopped, job
    <3> QED BY <2>1, <3>1, <3>2 DEF CourseInv, ViewInv
  <2> QED BY <2>1, StepCourse, RaisedCourse DEF Next
<1>2. CourseInv => (img.steps <= job.enough => RaisedRunsAgree)
  BY CourseAgrees
<1> QED BY <1>1, <1>2, InitCourse, PTL DEF Spec

-----------------------------------------------------------------------------
(* The cells of a tape that are not blank, numbered from its origin.        *)
Cells(z, o) == {<<n - 1 - o, z[n]>> : n \in {k \in DOMAIN z : z[k] # Blank}}

LEMMA MarksAreCells == ASSUME NEW z, NEW o PROVE TB!Marks(z, o) = Cells(z, o)
BY DEF TB!Marks, Cells, TB!Blank, Blank

(* A tape moved along, with blanks around it, has the same cells.           *)
IsShift(S, z, y, d) ==
    /\ z \in Seq(S) /\ y \in Seq(S) /\ d \in Int
    /\ \A n \in 1..Len(z) : n + d \in 1..Len(y) /\ y[n + d] = z[n]
    /\ \A n \in 1..Len(y) : n - d \in 1..Len(z) \/ y[n] = Blank
LEMMA Shifted ==
  ASSUME NEW S, NEW z, NEW y, NEW d, IsShift(S, z, y, d), NEW o \in Int
  PROVE  Cells(y, o + d) = Cells(z, o)
<1> USE DEF IsShift
<1>0. DOMAIN z = 1..Len(z) /\ DOMAIN y = 1..Len(y) /\ Len(z) \in Nat /\ Len(y) \in Nat
  OBVIOUS
<1>1. ASSUME NEW n \in DOMAIN z, z[n] # Blank
      PROVE  <<n - 1 - o, z[n]>> \in Cells(y, o + d)
  <2> DEFINE k == n + d
  <2>1. k \in DOMAIN y /\ y[k] = z[n]
    BY <1>0
  <2>2. k - 1 - (o + d) = n - 1 - o
    BY <1>0
  <2> HIDE DEF k
  <2>3. <<k - 1 - (o + d), y[k]>> \in Cells(y, o + d)
    BY <1>1, <2>1 DEF Cells
  <2> QED BY <2>1, <2>2, <2>3
<1>2. ASSUME NEW n \in DOMAIN y, y[n] # Blank
      PROVE  <<n - 1 - (o + d), y[n]>> \in Cells(z, o)
  <2> DEFINE k == n - d
  <2>1. k \in DOMAIN z /\ k + d = n /\ k - 1 - o = n - 1 - (o + d)
    BY <1>0, <1>2
  <2> HIDE DEF k
  <2>2. y[n] = z[k]
    BY <1>0, <2>1
  <2>3. <<k - 1 - o, z[k]>> \in Cells(z, o)
    BY <1>2, <2>1, <2>2 DEF Cells
  <2> QED BY <2>1, <2>2, <2>3
<1> QED BY <1>1, <1>2 DEF Cells

(* The cell under the head, read and written.                               *)
LEMMA HeadCell ==
  ASSUME NEW S, NEW t \in TapeOver(S), NEW o \in Int, NEW p, p = Len(t.left) - o
  PROVE  (IF \E x \in Cells(Snapshot(t), o) : x[1] = p
          THEN (CHOOSE x \in Cells(Snapshot(t), o) : x[1] = p)[2] ELSE Blank) = t.head
<1> DEFINE z == Snapshot(t)
           L == Len(t.left)
           R == Len(t.right)
<1>1. /\ z \in Seq(S) /\ L \in Nat /\ R \in Nat /\ Len(z) = L + 1 + R /\ z[L + 1] = t.head
  BY Snapshots
<1> HIDE DEF z
<1>0. p = L - o
  OBVIOUS
<1> HIDE DEF L, R
<1>2. DOMAIN z = 1..Len(z) /\ L + 1 \in DOMAIN z
  BY <1>1
<1>3. ASSUME NEW x \in Cells(z, o), x[1] = p PROVE x[2] = t.head /\ t.head # Blank
  <2>1. PICK n \in DOMAIN z : z[n] # Blank /\ x = <<n - 1 - o, z[n]>>
    BY DEF Cells
  <2>2. n - 1 - o = L - o /\ n \in Int
    BY <1>0, <1>2, <1>3, <2>1
  <2>3. n = L + 1
    BY <1>1, <2>2
  <2> QED BY <1>1, <2>1, <2>3
<1>4. t.head # Blank => \E x \in Cells(z, o) : x[1] = p
  <2> SUFFICES ASSUME t.head # Blank PROVE \E x \in Cells(z, o) : x[1] = p
    OBVIOUS
  <2> DEFINE x == <<(L + 1) - 1 - o, z[L + 1]>>
  <2>1. x \in Cells(z, o)
    BY <1>1, <1>2 DEF Cells
  <2>2. (L + 1) - 1 - o = p
    BY <1>0, <1>1
  <2>3. x[1] = p
    BY <2>2
  <2> QED BY <2>1, <2>3
<1>5. CASE \E x \in Cells(z, o) : x[1] = p
  <2> DEFINE y == CHOOSE x \in Cells(z, o) : x[1] = p
  <2>1. y \in Cells(z, o) /\ y[1] = p
    BY <1>5
  <2> HIDE DEF y
  <2>2. y[2] = t.head
    BY <1>3, <2>1
  <2> QED BY <1>5, <2>2 DEF y, z
<1>6. CASE ~\E x \in Cells(z, o) : x[1] = p
  BY <1>4, <1>6 DEF z
<1> QED BY <1>5, <1>6

LEMMA HeadWritten ==
  ASSUME NEW S, NEW t \in TapeOver(S), NEW w \in S, NEW o \in Int, NEW p, p = Len(t.left) - o
  PROVE  Cells(Snapshot([t EXCEPT !.head = w]), o) =
           {x \in Cells(Snapshot(t), o) : x[1] # p} \cup (IF w = Blank THEN {} ELSE {<<p, w>>})
<1> DEFINE u == [t EXCEPT !.head = w]
           z == Snapshot(t)
           y == Snapshot(u)
           L == Len(t.left)
           R == Len(t.right)
<1>1. t = [left |-> t.left, head |-> t.head, right |-> t.right]
  BY DEF TapeOver
<1>2. u = [left |-> t.left, head |-> w, right |-> t.right]
  BY <1>1
<1>3. u \in TapeOver(S) /\ u.left = t.left /\ u.right = t.right /\ u.head = w
  BY <1>2 DEF TapeOver
<1> HIDE DEF u
<1>4. /\ z \in Seq(S) /\ L \in Nat /\ R \in Nat /\ Len(z) = L + 1 + R /\ z[L + 1] = t.head
      /\ \A i \in 1..L : z[i] = t.left[i]
      /\ \A i \in 1..R : z[L + 1 + i] = t.right[(R - i) + 1]
  BY Snapshots
<1>5. /\ y \in Seq(S) /\ Len(y) = L + 1 + R /\ y[L + 1] = w
      /\ \A i \in 1..L : y[i] = t.left[i]
      /\ \A i \in 1..R : y[L + 1 + i] = t.right[(R - i) + 1]
  <2> DEFINE L1 == Len(u.left)
             R1 == Len(u.right)
  <2>1. /\ y \in Seq(S) /\ Len(y) = L1 + 1 + R1 /\ y[L1 + 1] = u.head
        /\ \A i \in 1..L1 : y[i] = u.left[i]
        /\ \A i \in 1..R1 : y[L1 + 1 + i] = u.right[(R1 - i) + 1]
    BY <1>3, Snapshots
  <2>2. L1 = L /\ R1 = R
    BY <1>3
  <2> HIDE DEF y, L1, R1, L, R
  <2> QED BY <1>3, <2>1, <2>2
<1>6. p = L - o
  OBVIOUS
<1> HIDE DEF z, y, L, R
<1>7. DOMAIN z = 1..(L + 1 + R) /\ DOMAIN y = 1..(L + 1 + R) /\ L + 1 \in 1..(L + 1 + R)
  BY <1>4, <1>5
<1>8. ASSUME NEW n \in 1..(L + 1 + R), n # L + 1 PROVE y[n] = z[n]
  <2>1. CASE n <= L
    BY <1>4, <1>5, <2>1
  <2>2. CASE ~(n <= L)
    <3> DEFINE i == n - (L + 1)
    <3>1. i \in 1..R /\ L + 1 + i = n
      BY <1>4, <1>8, <2>2
    <3> HIDE DEF i
    <3> QED BY <1>4, <1>5, <3>1
  <2> QED BY <2>1, <2>2
<1>9. \A n \in 1..(L + 1 + R) : n - 1 - o = p <=> n = L + 1
  BY <1>4, <1>6
<1>10. ASSUME NEW n \in DOMAIN y, y[n] # Blank
       PROVE  \/ <<n - 1 - o, y[n]>> \in Cells(z, o) /\ n - 1 - o # p
              \/ w # Blank /\ <<n - 1 - o, y[n]>> = <<p, w>>
  <2>1. CASE n = L + 1
    BY <1>5, <1>7, <1>9, <1>10, <2>1
  <2>2. CASE n # L + 1
    <3>1. y[n] = z[n] /\ n \in DOMAIN z /\ n - 1 - o # p
      BY <1>7, <1>8, <1>9, <2>2
    <3> QED BY <1>10, <3>1 DEF Cells
  <2> QED BY <2>1, <2>2
<1>11. ASSUME NEW n \in DOMAIN z, z[n] # Blank, n - 1 - o # p
       PROVE  <<n - 1 - o, z[n]>> \in Cells(y, o)
  <2>1. y[n] = z[n] /\ n \in DOMAIN y
    BY <1>7, <1>8, <1>9, <1>11
  <2> QED BY <1>11, <2>1 DEF Cells
<1>12. w # Blank => <<p, w>> \in Cells(y, o)
  <2> SUFFICES ASSUME w # Blank PROVE <<p, w>> \in Cells(y, o)
    OBVIOUS
  <2>1. <<(L + 1) - 1 - o, y[L + 1]>> \in Cells(y, o)
    BY <1>5, <1>7 DEF Cells
  <2>2. (L + 1) - 1 - o = p
    BY <1>7, <1>9
  <2> QED BY <1>5, <2>1, <2>2
<1>13. Cells(y, o) = {x \in Cells(z, o) : x[1] # p} \cup (IF w = Blank THEN {} ELSE {<<p, w>>})
  <2>1. ASSUME NEW x \in Cells(y, o)
        PROVE  x \in {x0 \in Cells(z, o) : x0[1] # p} \cup (IF w = Blank THEN {} ELSE {<<p, w>>})
    <3>1. PICK n \in DOMAIN y : y[n] # Blank /\ x = <<n - 1 - o, y[n]>>
      BY DEF Cells
    <3>2. x[1] = n - 1 - o
      BY <3>1
    <3> QED BY <1>10, <3>1, <3>2
  <2>2. ASSUME NEW x \in Cells(z, o), x[1] # p PROVE x \in Cells(y, o)
    <3>1. PICK n \in DOMAIN z : z[n] # Blank /\ x = <<n - 1 - o, z[n]>>
      BY DEF Cells
    <3>2. x[1] = n - 1 - o
      BY <3>1
    <3> QED BY <1>11, <2>2, <3>1, <3>2
  <2> QED BY <1>12, <2>1, <2>2
<1> QED BY <1>13 DEF u, y, z

-----------------------------------------------------------------------------
(* A step along a tape: the head moves by one cell, and its origin is found  *)
(* again when the tape grew on its left.                                    *)
OriginAfter(u, v, o) ==
  IF CellCount(v) > CellCount(u) /\ HeadIndex(v) = 0 THEN o + 1 ELSE o
Along(u, v, o, d) ==
  /\ HeadIndex(v) - OriginAfter(u, v, o) = (HeadIndex(u) - o) + d
  /\ Cells(Snapshot(v), OriginAfter(u, v, o)) = Cells(Snapshot(u), o)

LEMMA WalkedLeft ==
  ASSUME NEW S, Blank \in S, NEW u \in TapeOver(S), NEW o \in Int
  PROVE  Along(u, Stepped(u, "L"), o, -1)
<1> DEFINE v == Stepped(u, "L")
           z == Snapshot(u)
           y == Snapshot(v)
           L == Len(u.left)
           R == Len(u.right)
           L1 == Len(v.left)
           R1 == Len(v.right)
<1>1. v = [left |-> Popped(u.left), head |-> Top(u.left), right |-> Append(u.right, u.head)]
  BY DEF Stepped
<1>2. u.left \in Seq(S) /\ u.right \in Seq(S) /\ u.head \in S
  BY DEF TapeOver
<1>3. /\ v \in TapeOver(S) /\ v.left = Popped(u.left) /\ v.head = Top(u.left)
      /\ v.right = Append(u.right, u.head)
  <2>1. Popped(u.left) \in Seq(S) /\ Top(u.left) \in S /\ Append(u.right, u.head) \in Seq(S)
    BY <1>2, Stacks, AppendProperties
  <2> HIDE DEF v
  <2> QED BY <1>1, <2>1 DEF TapeOver
<1> HIDE DEF v
<1>4. /\ z \in Seq(S) /\ L \in Nat /\ R \in Nat /\ Len(z) = L + 1 + R /\ z[L + 1] = u.head
      /\ \A i \in 1..L : z[i] = u.left[i]
      /\ \A i \in 1..R : z[L + 1 + i] = u.right[(R - i) + 1]
  BY Snapshots
<1>5. /\ y \in Seq(S) /\ L1 \in Nat /\ R1 \in Nat /\ Len(y) = L1 + 1 + R1 /\ y[L1 + 1] = v.head
      /\ \A i \in 1..L1 : y[i] = v.left[i]
      /\ \A i \in 1..R1 : y[L1 + 1 + i] = v.right[(R1 - i) + 1]
  BY <1>3, Snapshots
<1>6. /\ R1 = R + 1 /\ v.right[R + 1] = u.head
      /\ \A i \in 1..R : v.right[i] = u.right[i]
  BY <1>2, <1>3, AppendProperties
<1>7. HeadIndex(u) = L /\ HeadIndex(v) = L1 /\ CellCount(u) = L + 1 + R /\ CellCount(v) = L1 + 1 + R1
  BY DEF HeadIndex, CellCount
<1> HIDE DEF z, y, L, R, L1, R1
<1>8. CASE u.left = <<>>
  <2>1. L = 0 /\ L1 = 0 /\ v.head = Blank
    <3>1. Popped(u.left) = <<>> /\ Top(u.left) = Blank /\ Len(<<>>) = 0
      BY <1>8, EmptySeq DEF Popped, Top
    <3> QED BY <1>3, <1>8, <3>1 DEF L, L1
  <2>2. OriginAfter(u, v, o) = o + 1
    <3>1. L1 + 1 + R1 > L + 1 + R
      BY <1>4, <1>6, <2>1
    <3> QED BY <1>7, <2>1, <3>1 DEF OriginAfter
  <2>3. Len(z) = R + 1 /\ Len(y) = R + 2 /\ y[1] = Blank /\ z[1] = u.head
    BY <1>4, <1>5, <1>6, <2>1
  <2>4. ASSUME NEW n \in 1..Len(z) PROVE n + 1 \in 1..Len(y) /\ y[n + 1] = z[n]
    <3>1. n \in 1..R1 /\ L1 + 1 + n = n + 1 /\ (R1 - n) + 1 = (R - n) + 2
      BY <1>4, <1>6, <2>1, <2>3
    <3>2. y[n + 1] = v.right[(R1 - n) + 1]
      BY <1>5, <3>1
    <3>3. CASE n = 1
      BY <1>4, <1>6, <2>3, <3>1, <3>2, <3>3
    <3>4. CASE n # 1
      <4> DEFINE i == n - 1
      <4>1. i \in 1..R /\ L + 1 + i = n /\ (R - i) + 1 = (R - n) + 2 /\ (R - i) + 1 \in 1..R
        BY <1>4, <2>1, <2>3, <3>4
      <4> HIDE DEF i
      <4>2. z[n] = u.right[(R - i) + 1]
        BY <1>4, <4>1
      <4> QED BY <1>4, <1>6, <2>3, <3>1, <3>2, <4>1, <4>2
    <3> QED BY <3>3, <3>4
  <2>5. \A n \in 1..Len(y) : n - 1 \in 1..Len(z) \/ y[n] = Blank
    <3>1. \A n \in 1..Len(y) : n - 1 \in 1..Len(z) \/ n = 1
      BY <1>4, <2>3
    <3> QED BY <2>3, <3>1
  <2>6. Cells(y, o + 1) = Cells(z, o)
    <3>1. IsShift(S, z, y, 1)
      BY <1>4, <1>5, <2>4, <2>5 DEF IsShift
    <3> QED BY <3>1, Shifted
  <2>7. L1 - (o + 1) = (L - o) + (-1)
    BY <2>1
  <2> QED BY <1>7, <2>2, <2>6, <2>7 DEF Along, z, y, v
<1>9. CASE u.left # <<>>
  <2>1. /\ L > 0 /\ L1 = L - 1 /\ v.head = u.left[L]
        /\ \A i \in 1..L1 : v.left[i] = u.left[i]
    <3> DEFINE s == u.left
    <3>1. s \in Seq(S) /\ s # <<>> /\ v.left = Popped(s) /\ v.head = Top(s)
      BY <1>2, <1>3, <1>9
    <3>2. L = Len(s) /\ L1 = Len(v.left)
      BY DEF L, L1
    <3> HIDE DEF s
    <3>3. /\ Len(Popped(s)) = Len(s) - 1 /\ Top(s) = s[Len(s)] /\ Len(s) > 0
          /\ \A i \in 1..Len(Popped(s)) : Popped(s)[i] = s[i]
      BY <3>1, Stacks
    <3> QED BY <3>1, <3>2, <3>3 DEF s
  <2>2. OriginAfter(u, v, o) = o
    <3>1. ~(L1 + 1 + R1 > L + 1 + R)
      BY <1>4, <1>6, <2>1
    <3> QED BY <1>7, <3>1 DEF OriginAfter
  <2>3. Len(z) = L + 1 + R /\ Len(y) = L + 1 + R
    BY <1>4, <1>5, <1>6, <2>1
  <2>4. ASSUME NEW n \in 1..Len(z) PROVE n + 0 \in 1..Len(y) /\ y[n + 0] = z[n]
    <3>0. n + 0 = n /\ n \in 1..Len(y)
      BY <1>4, <2>3
    <3>1. CASE n <= L1
      <4>1. n \in 1..L1 /\ n \in 1..L
        BY <1>4, <2>1, <3>1
      <4> QED BY <1>4, <1>5, <2>1, <3>0, <4>1
    <3>2. CASE n = L
      <4>1. L \in 1..L /\ L1 + 1 = L
        BY <1>4, <2>1
      <4> QED BY <1>4, <1>5, <2>1, <3>0, <3>2, <4>1
    <3>3. CASE n = L + 1
      <4>1. 1 \in 1..R1 /\ L1 + 1 + 1 = n /\ (R1 - 1) + 1 = R + 1
        BY <1>4, <1>6, <2>1, <3>3
      <4>2. y[n] = v.right[R + 1]
        BY <1>5, <4>1
      <4> QED BY <1>4, <1>6, <3>0, <3>3, <4>2
    <3>4. CASE n > L + 1
      <4> DEFINE i == n - (L + 1)
                 k == n - (L1 + 1)
      <4>1. /\ i \in 1..R /\ k \in 1..R1 /\ L + 1 + i = n /\ L1 + 1 + k = n
            /\ (R - i) + 1 = (R1 - k) + 1 /\ (R - i) + 1 \in 1..R
        BY <1>4, <1>6, <2>1, <2>3, <3>4
      <4> HIDE DEF i, k
      <4>2. z[n] = u.right[(R - i) + 1] /\ y[n] = v.right[(R1 - k) + 1]
        BY <1>4, <1>5, <4>1
      <4> QED BY <1>6, <3>0, <4>1, <4>2
    <3>5. n <= L1 \/ n = L \/ n = L + 1 \/ n > L + 1
      BY <1>4, <2>1
    <3> QED BY <3>1, <3>2, <3>3, <3>4, <3>5
  <2>5. \A n \in 1..Len(y) : n - 0 \in 1..Len(z) \/ y[n] = Blank
    BY <1>4, <2>3
  <2>6. Cells(y, o + 0) = Cells(z, o)
    <3>1. IsShift(S, z, y, 0)
      BY <1>4, <1>5, <2>4, <2>5 DEF IsShift
    <3> QED BY <3>1, Shifted
  <2>7. L1 - o = (L - o) + (-1) /\ o + 0 = o
    BY <1>4, <2>1
  <2> QED BY <1>7, <2>2, <2>6, <2>7 DEF Along, z, y, v
<1> QED BY <1>8, <1>9

LEMMA WalkedRight ==
  ASSUME NEW S, Blank \in S, NEW u \in TapeOver(S), NEW o \in Int
  PROVE  Along(u, Stepped(u, "R"), o, 1)
<1> DEFINE v == Stepped(u, "R")
           z == Snapshot(u)
           y == Snapshot(v)
           L == Len(u.left)
           R == Len(u.right)
           L1 == Len(v.left)
           R1 == Len(v.right)
<1>1. v = [left |-> Append(u.left, u.head), head |-> Top(u.right), right |-> Popped(u.right)]
  BY DEF Stepped
<1>2. u.left \in Seq(S) /\ u.right \in Seq(S) /\ u.head \in S
  BY DEF TapeOver
<1>3. /\ v \in TapeOver(S) /\ v.left = Append(u.left, u.head) /\ v.head = Top(u.right)
      /\ v.right = Popped(u.right)
  <2>1. Popped(u.right) \in Seq(S) /\ Top(u.right) \in S /\ Append(u.left, u.head) \in Seq(S)
    BY <1>2, Stacks, AppendProperties
  <2> HIDE DEF v
  <2> QED BY <1>1, <2>1 DEF TapeOver
<1> HIDE DEF v
<1>4. /\ z \in Seq(S) /\ L \in Nat /\ R \in Nat /\ Len(z) = L + 1 + R /\ z[L + 1] = u.head
      /\ \A i \in 1..L : z[i] = u.left[i]
      /\ \A i \in 1..R : z[L + 1 + i] = u.right[(R - i) + 1]
  BY Snapshots
<1>5. /\ y \in Seq(S) /\ L1 \in Nat /\ R1 \in Nat /\ Len(y) = L1 + 1 + R1 /\ y[L1 + 1] = v.head
      /\ \A i \in 1..L1 : y[i] = v.left[i]
      /\ \A i \in 1..R1 : y[L1 + 1 + i] = v.right[(R1 - i) + 1]
  BY <1>3, Snapshots
<1>6. /\ L1 = L + 1 /\ v.left[L + 1] = u.head
      /\ \A i \in 1..L : v.left[i] = u.left[i]
  BY <1>2, <1>3, AppendProperties
<1>7. HeadIndex(u) = L /\ HeadIndex(v) = L1
  BY DEF HeadIndex
<1> HIDE DEF z, y, L, R, L1, R1
<1>8. OriginAfter(u, v, o) = o /\ L1 - o = (L - o) + 1 /\ o + 0 = o
  <2>1. L1 # 0
    BY <1>4, <1>6
  <2> QED BY <1>4, <1>6, <1>7, <2>1 DEF OriginAfter
<1>9. ASSUME NEW n \in 1..(L + 1) PROVE n \in 1..Len(y) /\ y[n] = z[n]
  <2>1. n \in 1..L1 /\ n \in 1..Len(y)
    BY <1>4, <1>5, <1>6
  <2>2. CASE n = L + 1
    BY <1>4, <1>5, <1>6, <2>1, <2>2
  <2>3. CASE n # L + 1
    <3>1. n \in 1..L
      BY <1>4, <2>3
    <3> QED BY <1>4, <1>5, <1>6, <2>1, <3>1
  <2> QED BY <2>2, <2>3
<1>10. Cells(y, o + 0) = Cells(z, o)
  <2>1. CASE u.right = <<>>
    <3>1. R = 0 /\ R1 = 0 /\ v.head = Blank
      <4>1. Popped(u.right) = <<>> /\ Top(u.right) = Blank /\ Len(<<>>) = 0
        BY <2>1, EmptySeq DEF Popped, Top
      <4> QED BY <1>3, <2>1, <4>1 DEF R, R1
    <3>2. Len(z) = L + 1 /\ Len(y) = L + 2 /\ y[L + 2] = Blank
      BY <1>4, <1>5, <1>6, <3>1
    <3>3. \A n \in 1..Len(z) : n + 0 \in 1..Len(y) /\ y[n + 0] = z[n]
      <4>1. \A n \in 1..Len(z) : n + 0 = n /\ n \in 1..(L + 1)
        BY <1>4, <3>2
      <4> QED BY <1>9, <4>1
    <3>4. \A n \in 1..Len(y) : n - 0 \in 1..Len(z) \/ y[n] = Blank
      <4>1. \A n \in 1..Len(y) : n - 0 \in 1..Len(z) \/ n = L + 2
        BY <1>4, <3>2
      <4> QED BY <3>2, <4>1
    <3>5. IsShift(S, z, y, 0)
      BY <1>4, <1>5, <3>3, <3>4 DEF IsShift
    <3> QED BY <3>5, Shifted
  <2>2. CASE u.right # <<>>
    <3>1. /\ R > 0 /\ R1 = R - 1 /\ v.head = u.right[R]
          /\ \A i \in 1..R1 : v.right[i] = u.right[i]
      <4> DEFINE s == u.right
      <4>1. s \in Seq(S) /\ s # <<>> /\ v.right = Popped(s) /\ v.head = Top(s)
        BY <1>2, <1>3, <2>2
      <4>2. R = Len(s) /\ R1 = Len(v.right)
        BY DEF R, R1
      <4> HIDE DEF s
      <4>3. /\ Len(Popped(s)) = Len(s) - 1 /\ Top(s) = s[Len(s)] /\ Len(s) > 0
            /\ \A i \in 1..Len(Popped(s)) : Popped(s)[i] = s[i]
        BY <4>1, Stacks
      <4> QED BY <4>1, <4>2, <4>3 DEF s
    <3>2. Len(z) = L + 1 + R /\ Len(y) = L + 1 + R
      BY <1>4, <1>5, <1>6, <3>1
    <3>3. ASSUME NEW n \in 1..Len(z) PROVE n + 0 \in 1..Len(y) /\ y[n + 0] = z[n]
      <4>0. n + 0 = n /\ n \in 1..Len(y)
        BY <1>4, <3>2
      <4>1. CASE n <= L + 1
        <5>1. n \in 1..(L + 1)
          BY <1>4, <4>1
        <5> QED BY <1>9, <4>0, <5>1
      <4>2. CASE n = L + 2
        <5>1. 1 \in 1..R /\ L + 1 + 1 = n /\ L1 + 1 = n /\ (R - 1) + 1 = R
          BY <1>4, <1>6, <3>1, <4>2
        <5>2. z[n] = u.right[R] /\ y[n] = v.head
          BY <1>4, <1>5, <5>1
        <5> QED BY <3>1, <4>0, <5>2
      <4>3. CASE n > L + 2
        <5> DEFINE i == n - (L + 1)
                   k == n - (L1 + 1)
        <5>1. /\ i \in 1..R /\ k \in 1..R1 /\ L + 1 + i = n /\ L1 + 1 + k = n
              /\ (R - i) + 1 = (R1 - k) + 1 /\ (R1 - k) + 1 \in 1..R1
          BY <1>4, <1>6, <3>1, <3>2, <4>3
        <5> HIDE DEF i, k
        <5>2. z[n] = u.right[(R - i) + 1] /\ y[n] = v.right[(R1 - k) + 1]
          BY <1>4, <1>5, <5>1
        <5> QED BY <3>1, <4>0, <5>1, <5>2
      <4>4. n <= L + 1 \/ n = L + 2 \/ n > L + 2
        BY <1>4
      <4> QED BY <4>1, <4>2, <4>3, <4>4
    <3>4. \A n \in 1..Len(y) : n - 0 \in 1..Len(z) \/ y[n] = Blank
      BY <1>4, <3>2
    <3>5. IsShift(S, z, y, 0)
      BY <1>4, <1>5, <3>3, <3>4 DEF IsShift
    <3> QED BY <3>5, Shifted
  <2> QED BY <2>1, <2>2
<1> QED BY <1>7, <1>8, <1>10 DEF Along, z, y, v

LEMMA Walked ==
  ASSUME NEW S, Blank \in S, NEW u \in TapeOver(S), NEW o \in Int, NEW mv \in Moves
  PROVE  Along(u, Stepped(u, mv), o, TB!Offset(mv))
<1>1. CASE mv = "L"
  BY <1>1, WalkedLeft DEF TB!Offset
<1>2. CASE mv = "R"
  BY <1>2, WalkedRight DEF TB!Offset
<1>3. CASE mv = "S"
  <2>1. Stepped(u, mv) = u /\ TB!Offset(mv) = 0
    BY <1>3 DEF Stepped, TB!Offset
  <2>2. HeadIndex(u) \in Nat /\ CellCount(u) \in Nat
    BY TapeIsTape, TapeSizes
  <2>3. OriginAfter(u, u, o) = o
    BY <2>2 DEF OriginAfter
  <2>4. HeadIndex(u) - o = (HeadIndex(u) - o) + 0
    BY <2>2
  <2> QED BY <2>1, <2>3, <2>4 DEF Along
<1> QED BY <1>1, <1>2, <1>3 DEF Moves

(* A tape begins with what it is given, its head on the first of it.        *)
LEMMA BegunTape ==
  ASSUME NEW s, IsSeq(s)
  PROVE  HeadIndex(NewTape(s)) = 0 /\ Cells(Snapshot(NewTape(s)), 0) = Cells(s, 0)
<1> DEFINE S == Range(s) \cup {Blank}
           t == NewTape(s)
           z == Snapshot(t)
           R == Len(t.right)
<1>1. s \in Seq(S)
  BY SeqMonotonic DEF IsSeq
<1>2. t.left = <<>> /\ t \in TapeOver(S)
      /\ IF s = <<>> THEN t.head = Blank /\ t.right = <<>>
         ELSE t.head = s[1] /\ t.right = Reverse(Tail(s))
  <2> HIDE DEF S
  <2>0. Blank \in S
    BY DEF S
  <2>1. CASE s = <<>>
    <3>1. t = [left |-> <<>>, head |-> Blank, right |-> <<>>]
      BY <2>1 DEF NewTape
    <3> HIDE DEF t
    <3> QED BY <2>0, <2>1, <3>1 DEF TapeOver
  <2>2. CASE s # <<>>
    <3>1. Head(s) \in S /\ Head(s) = s[1] /\ Tail(s) \in Seq(S)
      BY <1>1, <2>2
    <3>2. Reverse(Tail(s)) \in Seq(S)
      BY <3>1, Reversed
    <3>3. t = [left |-> <<>>, head |-> Head(s), right |-> Reverse(Tail(s))]
      BY <2>2 DEF NewTape
    <3> HIDE DEF t
    <3> QED BY <2>2, <3>1, <3>2, <3>3 DEF TapeOver
  <2> QED BY <2>1, <2>2
<1> HIDE DEF S, t
<1>3. Len(t.left) = 0
  BY <1>2, EmptySeq
<1>4. /\ z \in Seq(S) /\ R \in Nat /\ Len(z) = R + 1 /\ z[1] = t.head
      /\ \A i \in 1..R : z[1 + i] = t.right[(R - i) + 1]
  <2> DEFINE L == Len(t.left)
  <2>1. /\ z \in Seq(S) /\ R \in Nat /\ Len(z) = L + 1 + R /\ z[L + 1] = t.head
        /\ \A i \in 1..R : z[L + 1 + i] = t.right[(R - i) + 1]
    BY <1>2, Snapshots
  <2>2. L = 0
    BY <1>3
  <2> HIDE DEF z, R, L
  <2> QED BY <2>1, <2>2
<1> HIDE DEF z, R
<1>5. IsShift(S, s, z, 0)
  <2>1. CASE s = <<>>
    <3>1. R = 0 /\ z[1] = Blank /\ Len(s) = 0
      BY <1>2, <1>4, <2>1, EmptySeq DEF R
    <3>2. \A n \in 1..Len(z) : z[n] = Blank
      BY <1>4, <3>1
    <3>3. \A n \in 1..Len(s) : FALSE
      BY <3>1
    <3> QED BY <1>1, <1>4, <3>2, <3>3 DEF IsShift
  <2>2. CASE s # <<>>
    <3> DEFINE u == Tail(s)
    <3>1. /\ u \in Seq(S) /\ Len(s) \in Nat /\ Len(s) = Len(u) + 1 /\ Len(u) \in Nat
          /\ \A i \in 1..Len(u) : u[i] = s[i + 1]
      <4>1. u \in Seq(S) /\ Len(s) \in Nat /\ Len(s) = Len(u) + 1 /\ Len(u) \in Nat
        BY <1>1, <2>2
      <4>2. \A i \in 1..Len(u) : u[i] = s[i + 1]
        BY <1>1, <2>2
      <4> QED BY <4>1, <4>2
    <3> HIDE DEF u
    <3>2. /\ Len(Reverse(u)) = Len(u)
          /\ \A i \in 1..Len(u) : Reverse(u)[i] = u[(Len(u) - i) + 1]
      BY <3>1, Reversed
    <3>3. R = Len(u) /\ t.right = Reverse(u) /\ z[1] = s[1]
      BY <1>2, <1>4, <2>2, <3>2 DEF R, u
    <3>4. ASSUME NEW n \in 1..Len(s) PROVE n + 0 \in 1..Len(z) /\ z[n + 0] = s[n]
      <4>1. n + 0 = n /\ n \in 1..Len(z)
        BY <1>4, <3>1, <3>3
      <4>2. CASE n = 1
        BY <3>3, <4>1, <4>2
      <4>3. CASE n # 1
        <5> DEFINE i == n - 1
        <5>1. i \in 1..R /\ 1 + i = n /\ i + 1 = n /\ (R - i) + 1 \in 1..R
              /\ (R - ((R - i) + 1)) + 1 = i
          BY <1>4, <3>1, <3>3, <4>3
        <5> HIDE DEF i
        <5>2. z[n] = Reverse(u)[(R - i) + 1]
          BY <1>4, <3>3, <5>1
        <5>3. Reverse(u)[(R - i) + 1] = u[i]
          BY <3>2, <3>3, <5>1
        <5>4. u[i] = s[n]
          BY <3>1, <3>3, <5>1
        <5> QED BY <4>1, <5>2, <5>3, <5>4
      <4> QED BY <4>2, <4>3
    <3>5. \A n \in 1..Len(z) : n - 0 \in 1..Len(s) \/ z[n] = Blank
      BY <1>4, <3>1, <3>3
    <3> QED BY <1>1, <1>4, <3>4, <3>5 DEF IsShift
  <2> QED BY <2>1, <2>2
<1>6. Cells(z, 0 + 0) = Cells(s, 0)
  BY <1>5, Shifted
<1>7. Cells(z, 0) = Cells(s, 0)
  BY <1>6
<1> QED BY <1>3, <1>7 DEF HeadIndex, z, t

(* One tape under one rule.                                                 *)
LEMMA TapeStep ==
  ASSUME NEW t, IsTape(t), NEW w, NEW mv \in Moves, NEW o \in Int,
         NEW v, v = Stepped(Marked(t, w), mv), NEW p, p = HeadIndex(t) - o
  PROVE  /\ OriginAfter(t, v, o) \in Int
         /\ HeadIndex(v) - OriginAfter(t, v, o) = p + TB!Offset(mv)
         /\ Cells(Snapshot(v), OriginAfter(t, v, o)) =
              IF w = Wild THEN Cells(Snapshot(t), o)
              ELSE {x \in Cells(Snapshot(t), o) : x[1] # p}
                     \cup (IF w = Blank THEN {} ELSE {<<p, w>>})
<1> DEFINE S == SymbolsOn(t) \cup {w, Blank}
           u == Marked(t, w)
<1>1. /\ t = [left |-> t.left, head |-> t.head, right |-> t.right]
      /\ t.left \in Seq(S) /\ t.right \in Seq(S) /\ t.head \in S
  <2>1. t \in TapeOver(SymbolsOn(t))
    BY DEF IsTape
  <2>2. /\ t.left \in Seq(SymbolsOn(t)) /\ t.right \in Seq(SymbolsOn(t)) /\ t.head \in SymbolsOn(t)
        /\ t = [left |-> t.left, head |-> t.head, right |-> t.right]
    BY <2>1 DEF TapeOver
  <2> QED BY <2>2, SeqMonotonic
<1>2. Blank \in S /\ w \in S
  OBVIOUS
<1> HIDE DEF S
<1>3. t \in TapeOver(S)
  BY <1>1 DEF TapeOver
<1>4. u = [left |-> t.left, head |-> IF w = Wild THEN t.head ELSE w, right |-> t.right]
  BY <1>1 DEF Marked
<1> HIDE DEF u
<1>5. u \in TapeOver(S) /\ HeadIndex(u) = HeadIndex(t) /\ CellCount(u) = CellCount(t)
  BY <1>1, <1>2, <1>4 DEF TapeOver, HeadIndex, CellCount
<1>6. OriginAfter(u, v, o) = OriginAfter(t, v, o)
  BY <1>5 DEF OriginAfter
<1>7. Along(u, v, o, TB!Offset(mv))
  BY <1>2, <1>5, Walked DEF u
<1>8. Cells(Snapshot(u), o) =
        IF w = Wild THEN Cells(Snapshot(t), o)
        ELSE {x \in Cells(Snapshot(t), o) : x[1] # p} \cup (IF w = Blank THEN {} ELSE {<<p, w>>})
  <2>1. CASE w = Wild
    BY <2>1 DEF u, Marked
  <2>2. CASE w # Wild
    <3>1. u = [t EXCEPT !.head = w]
      BY <2>2 DEF u, Marked
    <3>2. p = Len(t.left) - o
      BY DEF HeadIndex
    <3> QED BY <1>2, <1>3, <2>2, <3>1, <3>2, HeadWritten
  <2> QED BY <2>1, <2>2
<1>9. OriginAfter(t, v, o) \in Int
  BY DEF OriginAfter
<1> QED BY <1>5, <1>6, <1>7, <1>8, <1>9 DEF Along

LEMMA HeadSeen ==
  ASSUME NEW t, IsTape(t), NEW o \in Int, NEW p, p = HeadIndex(t) - o
  PROVE  (IF \E x \in Cells(Snapshot(t), o) : x[1] = p
          THEN (CHOOSE x \in Cells(Snapshot(t), o) : x[1] = p)[2] ELSE Blank) = t.head
BY HeadCell DEF IsTape, HeadIndex

-----------------------------------------------------------------------------
(* What a run is seen to be: the state, and every tape from its origin.     *)
SeenAs(m, cur, tapes, org) ==
  [state |-> cur,
   heads |-> [i \in 1..m.tapes |-> HeadIndex(tapes[i]) - org[i]],
   marks |-> [i \in 1..m.tapes |-> Cells(Snapshot(tapes[i]), org[i])]]
Placed(m, tapes, org) ==
  /\ IsSeq(tapes) /\ Len(tapes) = m.tapes /\ DOMAIN tapes = 1..m.tapes
  /\ \A i \in 1..m.tapes : IsTape(tapes[i])
  /\ org \in [1..m.tapes -> Int]

LEMMA SameSymbols ==
  ASSUME NEW m, NEW cur, NEW tapes, NEW org, Placed(m, tapes, org), NEW i \in 1..m.tapes
  PROVE  TB!SymbolAt(SeenAs(m, cur, tapes, org), i) = tapes[i].head
<1> DEFINE c == SeenAs(m, cur, tapes, org)
           t == tapes[i]
           o == org[i]
           p == HeadIndex(t) - o
           M == Cells(Snapshot(t), o)
<1>1. c.heads[i] = p /\ c.marks[i] = M
  BY DEF SeenAs
<1>2. IsTape(t) /\ o \in Int
  BY DEF Placed
<1>3. p = HeadIndex(t) - o
  OBVIOUS
<1>4. TB!SymbolAt(c, i) =
        IF \E x \in M : x[1] = p THEN (CHOOSE x \in M : x[1] = p)[2] ELSE Blank
  <2> HIDE DEF c, p, M
  <2> QED BY <1>1 DEF TB!SymbolAt, TB!Blank, Blank
<1> HIDE DEF t, o, p, c
<1>5. (IF \E x \in M : x[1] = p THEN (CHOOSE x \in M : x[1] = p)[2] ELSE Blank) = t.head
  BY <1>2, <1>3, HeadSeen
<1> QED BY <1>4, <1>5 DEF t, c

(* The rules that match what is seen are those that match the tapes.        *)
LEMMA SameMatches ==
  ASSUME NEW m, Valid(m), Typed(m), NEW c, NEW org, Placed(m, c.tapes, org),
         c.cur \in DOMAIN m.states
  PROVE  TB!Matching(m, SeenAs(m, c.cur, c.tapes, org)) = MatchingRules(m, c)
<1> DEFINE conf == SeenAs(m, c.cur, c.tapes, org)
           rules == Rules(m, c.cur)
<1>1. conf.state = c.cur /\ TB!Rules(m, c.cur) = rules
  BY DEF SeenAs, TB!Rules, Rules
<1>2. \A i \in 1..m.tapes : TB!SymbolAt(conf, i) = c.tapes[i].head
  BY SameSymbols
<1>3. ASSUME NEW j \in DOMAIN rules
      PROVE  Len(rules[j].read) = Len(c.tapes) /\ DOMAIN rules[j].read = 1..m.tapes
  <2>1. IsVector(rules[j].read)
    BY DEF Typed
  <2>2. DOMAIN rules[j].read = 1..Len(rules[j].read)
    BY <2>1, VectorIsSeq
  <2>3. {Len(rules[j].read), Len(rules[j].write), Len(rules[j].moves)} = {m.tapes}
    BY DEF Valid
  <2>4. Len(rules[j].read) = m.tapes
    BY <2>3
  <2> QED BY <2>2, <2>4 DEF Placed
<1> HIDE DEF conf, rules
<1>4. TB!Matching(m, conf) =
        {j \in DOMAIN rules : \A i \in 1..m.tapes : rules[j].read[i] \in {Wild, c.tapes[i].head}}
  BY <1>1, <1>2 DEF TB!Matching, TB!Wild, Wild
<1>5. MatchingRules(m, c) = {j \in DOMAIN rules : RuleMatches(rules[j].read, c.tapes)}
  BY DEF MatchingRules, rules
<1>6. ASSUME NEW j \in DOMAIN rules
      PROVE  RuleMatches(rules[j].read, c.tapes)
               <=> \A i \in 1..m.tapes : rules[j].read[i] \in {Wild, c.tapes[i].head}
  BY <1>3 DEF RuleMatches
<1> QED BY <1>4, <1>5, <1>6 DEF conf

(* A rule of the machine has what is seen go as its table says.             *)
GoesTo(m, c, org, rule, after, moved) ==
  /\ EndOf(m, c) = "Running" /\ rule = FiringRule(m, c)
  /\ after = Apply(rule, c.tapes) /\ moved = MovedOrigins(org, c.tapes, after)
LEMMA SameSteps ==
  ASSUME NEW m, Valid(m), Typed(m), NEW c, NEW org, Placed(m, c.tapes, org),
         NEW rule, NEW after, NEW moved, GoesTo(m, c, org, rule, after, moved)
  PROVE  /\ Placed(m, after, moved) /\ rule.next \in DOMAIN m.states
         /\ ~TB!Halts(m, SeenAs(m, c.cur, c.tapes, org))
         /\ TB!After(m, SeenAs(m, c.cur, c.tapes, org)) = SeenAs(m, rule.next, after, moved)
<1> DEFINE conf == SeenAs(m, c.cur, c.tapes, org)
           n == m.tapes
           tapes == c.tapes
<1> USE DEF GoesTo
<1>1. /\ c.cur \in DOMAIN m.states /\ ~m.states[c.cur].accept
      /\ MatchingRules(m, c) # {} /\ ~Malformed(m, rule)
  BY DEF EndOf
<1>2. rule.moves \in Seq(Moves) /\ Len(rule.moves) = n /\ n \in Nat /\ rule.next \in DOMAIN m.states
  BY <1>1, FiringMoves DEF Typed, Malformed
<1>3. TB!Matching(m, conf) = MatchingRules(m, c)
  BY <1>1, SameMatches
<1>4. conf.state = c.cur /\ conf = SeenAs(m, c.cur, tapes, org)
  BY DEF SeenAs
<1>5. ~TB!Halts(m, conf)
  BY <1>1, <1>3, <1>4 DEF TB!Halts
<1>6. TB!Rules(m, conf.state)[TB!Min(TB!Matching(m, conf))] = rule
  <2>1. TB!Min(MatchingRules(m, c)) = Min(MatchingRules(m, c))
    BY DEF TB!Min, Min
  <2>2. TB!Rules(m, c.cur) = Rules(m, c.cur)
    BY DEF TB!Rules, Rules
  <2> HIDE DEF conf
  <2> QED BY <1>3, <1>4, <2>1, <2>2 DEF FiringRule
<1>7. /\ IsSeq(after) /\ Len(after) = n /\ DOMAIN after = 1..n
      /\ \A i \in 1..n : IsTape(after[i])
  BY <1>2, AppliedTapes DEF Placed
<1>8. ASSUME NEW i \in 1..n
      PROVE  /\ moved[i] \in Int
             /\ HeadIndex(after[i]) - moved[i] = conf.heads[i] + TB!Offset(rule.moves[i])
             /\ Cells(Snapshot(after[i]), moved[i]) =
                  IF rule.write[i] = Wild THEN conf.marks[i]
                  ELSE TB!Written(conf, i, rule.write[i])
  <2> DEFINE t == tapes[i]
             o == org[i]
             w == rule.write[i]
             mv == rule.moves[i]
             v == after[i]
             p == HeadIndex(t) - o
  <2>1. /\ IsTape(t) /\ o \in Int /\ i \in DOMAIN tapes /\ i \in DOMAIN org /\ i \in DOMAIN after
        /\ p = HeadIndex(t) - o
    BY <1>7 DEF Placed
  <2>2. mv \in Moves
    <3>1. i \in 1..Len(rule.moves)
      BY <1>2
    <3> QED BY <1>2, <3>1, ElementOfSeq
  <2>3. v = Stepped(Marked(t, w), mv)
    BY <2>1 DEF Apply, Marked
  <2>4. moved[i] = OriginAfter(t, v, o)
    BY <2>1 DEF MovedOrigins, OriginAfter
  <2>5. conf.heads[i] = p /\ conf.marks[i] = Cells(Snapshot(t), o)
    BY DEF SeenAs
  <2> HIDE DEF conf, t, o, w, mv, v, p
  <2>6. TB!Written(conf, i, w) =
          {x \in Cells(Snapshot(t), o) : x[1] # p} \cup (IF w = Blank THEN {} ELSE {<<p, w>>})
    BY <2>5 DEF TB!Written, TB!Blank, Blank
  <2>7. /\ OriginAfter(t, v, o) \in Int
        /\ HeadIndex(v) - OriginAfter(t, v, o) = p + TB!Offset(mv)
        /\ Cells(Snapshot(v), OriginAfter(t, v, o)) =
             IF w = Wild THEN Cells(Snapshot(t), o)
             ELSE {x \in Cells(Snapshot(t), o) : x[1] # p}
                    \cup (IF w = Blank THEN {} ELSE {<<p, w>>})
    BY <2>1, <2>2, <2>3, TapeStep
  <2>8. /\ moved[i] \in Int /\ HeadIndex(v) - moved[i] = conf.heads[i] + TB!Offset(mv)
        /\ Cells(Snapshot(v), moved[i]) =
             IF w = Wild THEN conf.marks[i] ELSE TB!Written(conf, i, w)
    BY <2>4, <2>5, <2>6, <2>7
  <2> QED BY <2>8 DEF v, w, mv
<1>9. Placed(m, after, moved)
  <2>1. moved = [i \in 1..n |-> moved[i]]
    BY DEF MovedOrigins, Placed
  <2>2. moved \in [1..n -> Int]
    BY <1>8, <2>1
  <2> QED BY <1>7, <2>2 DEF Placed
<1>10. TB!After(m, conf) = SeenAs(m, rule.next, after, moved)
  <2> DEFINE heads == [i \in 1..n |-> conf.heads[i] + TB!Offset(rule.moves[i])]
             marks == [i \in 1..n |-> IF rule.write[i] = Wild THEN conf.marks[i]
                                      ELSE TB!Written(conf, i, rule.write[i])]
  <2>1. TB!After(m, conf) = [state |-> rule.next, heads |-> heads, marks |-> marks]
    <3> HIDE DEF conf
    <3> QED BY <1>6 DEF TB!After, TB!Wild, Wild
  <2>2. heads = [i \in 1..n |-> HeadIndex(after[i]) - moved[i]]
    BY <1>8
  <2>3. marks = [i \in 1..n |-> Cells(Snapshot(after[i]), moved[i])]
    BY <1>8
  <2> HIDE DEF heads, marks, conf
  <2> QED BY <2>1, <2>2, <2>3 DEF SeenAs
<1> QED BY <1>2, <1>5, <1>9, <1>10

-----------------------------------------------------------------------------
(* Without stages there is nothing to undo: what is on the tapes is seen.   *)
LEMMA PlainView ==
  ASSUME number \in DOMAIN Table, job.plan = <<>>, NEW c, NEW org
  PROVE  View(number, c, org) = [at |-> TRUE, ok |-> TRUE, state |-> c.cur, tapes |-> c.tapes,
                                 origins |-> org]
<1> DEFINE stages == Table[number].image.stages
           base == [at |-> TRUE, ok |-> TRUE, state |-> c.cur, tapes |-> c.tapes, origins |-> org]
<1>1. stages = <<>>
  BY NoStages DEF Image
<1>2. DOMAIN stages = {}
  <2>1. DOMAIN <<>> = {}
    BY EmptySeq
  <2> HIDE DEF stages
  <2> QED BY <1>1, <2>1
<1> HIDE DEF stages
<1>3. View(number, c, org) = base
  BY <1>2 DEF View, FoldRight, MapThenFoldSet, stages
<1> QED BY <1>3

LEMMA PlainConf ==
  ASSUME number \in DOMAIN Table, job.plan = <<>>, NEW c, NEW org, NEW m, Placed(m, c.tapes, org)
  PROVE  ConfOf(View(number, c, org)) = SeenAs(m, c.cur, c.tapes, org)
<1> DEFINE v == View(number, c, org)
<1>1. v.state = c.cur /\ v.tapes = c.tapes /\ v.origins = org
  BY PlainView
<1>2. DOMAIN v.tapes = 1..m.tapes
  BY <1>1 DEF Placed
<1> HIDE DEF v
<1>3. ConfOf(v) = [state |-> c.cur,
                   heads |-> [i \in 1..m.tapes |-> HeadIndex(c.tapes[i]) - org[i]],
                   marks |-> [i \in 1..m.tapes |-> Cells(Snapshot(c.tapes[i]), org[i])]]
  BY <1>1, <1>2, MarksAreCells DEF ConfOf
<1> QED BY <1>3 DEF SeenAs, v

(* A run without stages is refused, or is seen as it is.                    *)
TurnedAway == img.tapes = <<>> /\ job.machine.tapes > 0 /\ img.status \notin {"Running", "Halted"}
Watched ==
  /\ Placed(job.machine, img.tapes, origins)
  /\ img.cur \in DOMAIN job.machine.states
  /\ seen = SeenAs(job.machine, img.cur, img.tapes, origins)

SeenInv == CourseInv /\ (job.plan = <<>> => TurnedAway \/ Watched)

LEMMA InitSeen == Init => SeenInv /\ (job.plan = <<>> => TB!Init)
<1> SUFFICES ASSUME Init, job.plan = <<>> PROVE (TurnedAway \/ Watched) /\ TB!Init
  BY InitCourse DEF SeenInv
<1>1. number \in DOMAIN Table
  BY DEF Init
<1> DEFINE m == job.machine
           init == job.input
           given(i) == IF i \in DOMAIN init THEN init[i] ELSE <<>>
           tapes == [i \in 1..m.tapes |-> NewTape(given(i))]
           org == [i \in 1..m.tapes |-> 0]
           caps == job.caps
<1>2. /\ img = NewCursor(m, init, caps) /\ origins = org /\ seen = TB!Initially(m, init)
      /\ Typed(m) /\ m.tapes \in Nat /\ \A i \in DOMAIN init : IsVector(init[i])
  <2>1. Image.machine = m /\ Image.input = init
    BY <1>1, NoStages
  <2>2. Typed(m) /\ m.tapes \in Nat /\ \A i \in DOMAIN init : IsVector(init[i])
    BY <1>1, <2>1, ImageTyped DEF Typed
  <2>3. img = NewCursor(m, init, caps) /\ origins = org /\ seen = TB!Initially(m, init)
    BY <2>1 DEF Init, Image, job
  <2> QED BY <2>2, <2>3
<1>3. TB!Init
  BY <1>2 DEF TB!Init
<1>4. caps.cells \in 0..MaxU64 /\ m.start \in DOMAIN m.states
  BY <1>1, JobsAssumption DEF Valid, job
<1>5. ASSUME NEW i \in 1..m.tapes PROVE IsSeq(given(i))
  <2>1. CASE i \in DOMAIN init
    BY <1>2, <2>1, VectorIsSeq
  <2>2. CASE i \notin DOMAIN init
    <3>1. given(i) = <<>> /\ <<>> \in Seq({})
      BY <2>2, EmptySeq
    <3> HIDE DEF given
    <3> QED BY <3>1, SeqIsSeq
  <2> QED BY <2>1, <2>2
<1> HIDE DEF m, init, given, caps
<1>6. CASE m.tapes > caps.cells
  <2>1. img.tapes = <<>> /\ img.status = "HitCap"
    BY <1>2, <1>6 DEF NewCursor
  <2>2. m.tapes > 0
    BY <1>2, <1>4, <1>6
  <2> QED BY <1>3, <2>1, <2>2 DEF TurnedAway, m
<1>7. CASE ~(m.tapes > caps.cells)
  <2>1. img.cur = m.start /\ img.tapes = tapes
    BY <1>2, <1>7 DEF NewCursor, given
  <2>2. IsSeq(tapes) /\ Len(tapes) = m.tapes /\ DOMAIN tapes = 1..m.tapes
    <3>1. tapes = [i \in 1..m.tapes |-> tapes[i]]
      OBVIOUS
    <3> HIDE DEF tapes
    <3> QED BY <1>2, <3>1, VectorOf
  <2>3. ASSUME NEW i \in 1..m.tapes
        PROVE  /\ IsTape(tapes[i]) /\ org[i] = 0
               /\ HeadIndex(tapes[i]) - org[i] = 0
               /\ Cells(Snapshot(tapes[i]), org[i]) = Cells(given(i), 0)
    <3>1. IsSeq(given(i)) /\ tapes[i] = NewTape(given(i)) /\ org[i] = 0
      BY <1>5
    <3> HIDE DEF tapes, org
    <3> QED BY <3>1, BegunTape, NewTapes
  <2>4. Placed(m, tapes, org)
    <3>1. org \in [1..m.tapes -> Int]
      OBVIOUS
    <3> QED BY <2>2, <2>3, <3>1 DEF Placed
  <2>5. TB!Initially(m, init) = SeenAs(m, m.start, tapes, org)
    <3>1. TB!TapesFrom(m, init) = [i \in 1..m.tapes |-> given(i)]
      BY DEF TB!TapesFrom, given
    <3>2. TB!Initially(m, init) =
            [state |-> m.start, heads |-> [i \in 1..m.tapes |-> 0],
             marks |-> [i \in 1..m.tapes |-> Cells(given(i), 0)]]
      BY <3>1, MarksAreCells DEF TB!Initially
    <3> HIDE DEF tapes, org
    <3>3. /\ [i \in 1..m.tapes |-> HeadIndex(tapes[i]) - org[i]] = [i \in 1..m.tapes |-> 0]
          /\ [i \in 1..m.tapes |-> Cells(Snapshot(tapes[i]), org[i])]
               = [i \in 1..m.tapes |-> Cells(given(i), 0)]
      BY <2>3
    <3> QED BY <3>2, <3>3 DEF SeenAs
  <2> HIDE DEF tapes, org
  <2> QED BY <1>2, <1>3, <1>4, <2>1, <2>4, <2>5 DEF Watched, m
<1> QED BY <1>6, <1>7

LEMMA StepSeen ==
  ASSUME SeenInv, StepImage
  PROVE  SeenInv' /\ (job.plan = <<>> => [TB!Step]_<<job.machine, job.input, seen>>)
<1>1. CourseInv'
  BY StepCourse DEF SeenInv
<1>2. number' = number /\ number \in DOMAIN Table /\ Image' = Image /\ job' = job
  BY DEF StepImage, SeenInv, CourseInv, ViewInv, CapsInv, CursorInv, Image, job
<1> SUFFICES ASSUME job.plan = <<>>
             PROVE  Watched' /\ [TB!Step]_<<job.machine, job.input, seen>>
  BY <1>1, <1>2 DEF SeenInv
<1> DEFINE m == job.machine
           rule == FiringRule(m, img)
           after == Apply(rule, img.tapes)
           moved == MovedOrigins(origins, img.tapes, after)
<1>3. img.status = "Running" /\ Watched
  BY DEF SeenInv, StepImage, TurnedAway
<1>4. /\ img' = CursorNext(m, img) /\ Typed(m) /\ Valid(m)
      /\ origins' = MovedOrigins(origins, img.tapes, img'.tapes)
  <2>1. Image.machine = m
    BY <1>2, NoStages
  <2>2. Valid(m)
    BY <1>2, JobsAssumption DEF job
  <2> QED BY <1>2, <2>1, <2>2, ImageTyped DEF StepImage
<1>5. CapsInv
  BY DEF SeenInv, CourseInv, ViewInv
<1>6. Placed(m, img'.tapes, origins') => seen' = SeenAs(m, img'.cur, img'.tapes, origins')
  <2>1. seen' = LET v == View(number, img', origins')
                IN  IF v.at /\ v.ok THEN ConfOf(v) ELSE seen
    BY DEF StepImage
  <2>2. View(number, img', origins').at /\ View(number, img', origins').ok
    <3>1. View(number, img', origins') =
            [at |-> TRUE, ok |-> TRUE, state |-> img'.cur, tapes |-> img'.tapes,
             origins |-> origins']
      BY <1>2, PlainView
    <3> QED BY <3>1
  <2> QED BY <1>2, <2>1, <2>2, PlainConf
<1>7. CASE EndOf(m, img) # "Running"
  <2>1. img'.cur = img.cur /\ img'.tapes = img.tapes
    <3> HIDE DEF m
    <3> QED BY <1>3, <1>4, <1>5, <1>7, StepKeeps
  <2>2. origins' = origins
    <3>1. \A i \in DOMAIN img.tapes : ~(CellCount(img.tapes[i]) > CellCount(img.tapes[i]))
      <4>1. \A i \in DOMAIN img.tapes : CellCount(img.tapes[i]) \in Nat
        BY <1>3, TapeSizes DEF Watched, Placed
      <4> QED BY <4>1
    <3>2. origins = [i \in DOMAIN origins |-> origins[i]]
      BY <1>3 DEF Watched, Placed
    <3> QED BY <1>4, <2>1, <3>1, <3>2 DEF MovedOrigins
  <2>3. Placed(m, img'.tapes, origins')
    BY <1>3, <2>1, <2>2 DEF Watched
  <2>4. seen' = seen
    BY <1>3, <1>6, <2>1, <2>2, <2>3 DEF Watched
  <2> QED BY <1>2, <1>3, <1>6, <2>1, <2>2, <2>3, <2>4 DEF Watched
<1>8. CASE EndOf(m, img) = "Running"
  <2>1. img'.cur = rule.next /\ img'.tapes = after
    <3> DEFINE next == rule.next
    <3>1. img' = [cur |-> next, tapes |-> after, steps |-> img.steps + 1,
                  caps |-> img.caps, status |-> "Running"]
      <4> HIDE DEF m
      <4> QED BY <1>3, <1>4, <1>5, <1>8, StepKeeps
    <3> HIDE DEF next, after
    <3> QED BY <3>1 DEF next
  <2>2. origins' = moved
    BY <1>4, <2>1
  <2>3. /\ Placed(m, after, moved) /\ rule.next \in DOMAIN m.states
        /\ ~TB!Halts(m, SeenAs(m, img.cur, img.tapes, origins))
        /\ TB!After(m, SeenAs(m, img.cur, img.tapes, origins)) = SeenAs(m, rule.next, after, moved)
    <3>1. Placed(m, img.tapes, origins)
      BY <1>3 DEF Watched
    <3>2. GoesTo(m, img, origins, rule, after, moved)
      BY <1>8 DEF GoesTo
    <3> HIDE DEF rule, after, moved, m
    <3> QED BY <1>4, <3>1, <3>2, SameSteps
  <2> HIDE DEF rule, after, moved
  <2>4. seen' = SeenAs(m, rule.next, after, moved)
    BY <1>6, <2>1, <2>2, <2>3
  <2>5. TB!Step
    BY <1>2, <1>3, <2>3, <2>4 DEF TB!Step, Watched
  <2>6. Watched'
    BY <1>2, <1>6, <2>1, <2>2, <2>3 DEF Watched
  <2> QED BY <2>5, <2>6
<1> QED BY <1>7, <1>8

LEMMA RaisedSeen ==
  ASSUME SeenInv, RaiseCaps
  PROVE  SeenInv' /\ UNCHANGED <<job.machine, job.input, seen>>
<1>1. CourseInv'
  BY RaisedCourse DEF SeenInv
<1>2. /\ number' = number /\ number \in DOMAIN Table /\ Image' = Image /\ job' = job
      /\ seen' = seen /\ origins' = origins
  BY DEF RaiseCaps, SeenInv, CourseInv, ViewInv, CapsInv, CursorInv, Image, job
<1> SUFFICES ASSUME job.plan = <<>> PROVE TurnedAway' \/ Watched'
  BY <1>1, <1>2 DEF SeenInv
<1>3. TurnedAway \/ Watched
  BY DEF SeenInv
<1> DEFINE m == job.machine
<1>4. PICK steps, cells : img' = RaiseCap(m, img, steps, cells)
  <2>1. Image.machine = m
    BY <1>2, NoStages
  <2> QED BY <2>1 DEF RaiseCaps
<1>5. CASE img' = img
  BY <1>2, <1>3, <1>5 DEF TurnedAway, Watched
<1>6. CASE img' # img
  <2>1. /\ img'.cur = img.cur /\ img'.tapes = img.tapes
        /\ ~(img.tapes = <<>> /\ m.tapes > 0)
    <3> HIDE DEF m
    <3> QED BY <1>4, <1>6, RaiseKeeps DEF SeenInv, CourseInv, ViewInv
  <2> QED BY <1>2, <1>3, <2>1 DEF TurnedAway, Watched
<1> QED BY <1>5, <1>6

LEMMA NextSeen ==
  ASSUME SeenInv, [Next]_vars
  PROVE  SeenInv' /\ (job.plan = <<>> => [TB!Step]_<<job.machine, job.input, seen>>)
<1>1. CASE StepImage
  BY <1>1, StepSeen
<1>2. CASE RaiseCaps
  BY <1>2, RaisedSeen
<1>3. CASE UNCHANGED vars
  <2>1. CapsInv' /\ TapesFit'
    BY <1>3 DEF vars, SeenInv, CourseInv, ViewInv, TapesFit, CapsInv, CursorInv, StopsAtItsCaps, Image
  <2>2. /\ job' = job /\ img' = img /\ seen' = seen /\ (OnCourse' <=> OnCourse)
        /\ (TurnedAway' <=> TurnedAway) /\ (Watched' <=> Watched)
    BY <1>3 DEF vars, OnCourse, FreeAt, Free, Stopped, job, TurnedAway, Watched
  <2> QED BY <2>1, <2>2 DEF SeenInv, CourseInv, ViewInv
<1> QED BY <1>1, <1>2, <1>3 DEF Next

LEMMA PlanStays == ASSUME [Next]_vars, job.plan = <<>> PROVE job'.plan = <<>>
BY DEF Next, StepImage, RaiseCaps, vars, job

\* A machine run without stages moves as its table says and never otherwise,
\* for every machine, input, caps and raise: the cursor of trace.rs over the
\* two stacks of tm/sim.rs against tapes that are infinite both ways.
THEOREM PlainRunsFollowTheTable == Spec /\ job.plan = <<>> => FollowsTheTable
<1>1. Init /\ job.plan = <<>> => TB!Init
  BY InitSeen
<1>2. Init => SeenInv
  BY InitSeen
<1>3. SeenInv /\ [Next]_vars => SeenInv'
  BY NextSeen
<1>4. SeenInv /\ job.plan = <<>> /\ [Next]_vars => [TB!Step]_<<job.machine, job.input, seen>>
  BY NextSeen
<1>5. job.plan = <<>> /\ [Next]_vars => (job.plan = <<>>)'
  BY PlanStays
<1> QED BY <1>1, <1>2, <1>3, <1>4, <1>5, PTL DEF Spec, FollowsTheTable, TB!Spec

LEMMA SeenHalts ==
  ASSUME SeenInv, job.plan = <<>> PROVE ReadableAndHaltsTogether
<1> DEFINE m == job.machine
<1>1. number \in DOMAIN Table
  BY DEF SeenInv, CourseInv, ViewInv, CapsInv, CursorInv
<1>2. /\ Image.machine = m /\ Image.stages = <<>> /\ DOMAIN Image.stages = {}
      /\ Typed(m) /\ Valid(m)
  <2>0. DOMAIN <<>> = {}
    BY EmptySeq
  <2>1. Image.machine = m /\ Image.stages = <<>> /\ DOMAIN Image.stages = {}
    BY <1>1, <2>0, NoStages
  <2>2. Valid(m)
    BY <1>1, JobsAssumption DEF job
  <2> QED BY <1>1, <2>1, <2>2, ImageTyped
<1>3. View(number, img, origins).ok
  <2>1. View(number, img, origins) =
          [at |-> TRUE, ok |-> TRUE, state |-> img.cur, tapes |-> img.tapes, origins |-> origins]
    BY <1>1, PlainView
  <2> QED BY <2>1
<1>4. ~Overflowed(img)
  BY <1>2 DEF Overflowed
<1>5. ASSUME img.status = "Halted"
      PROVE  /\ TB!Halts(m, seen)
             /\ Image.machine.states[img.cur].accept = m.states[seen.state].accept
  <2>1. Watched /\ Stopped(m, img)
    BY <1>5 DEF SeenInv, CourseInv, OnCourse, TurnedAway
  <2>2. /\ Placed(m, img.tapes, origins) /\ img.cur \in DOMAIN m.states
        /\ seen = SeenAs(m, img.cur, img.tapes, origins)
    BY <2>1 DEF Watched
  <2>3. seen.state = img.cur
    BY <2>2 DEF SeenAs
  <2>4. TB!Matching(m, seen) = MatchingRules(m, img)
    <3> HIDE DEF m
    <3> QED BY <1>2, <2>2, SameMatches
  <2>5. MatchingRules(m, img) # {} => ~Malformed(m, FiringRule(m, img))
    <3> SUFFICES ASSUME MatchingRules(m, img) # {} PROVE ~Malformed(m, FiringRule(m, img))
      OBVIOUS
    <3> DEFINE rules == Rules(m, img.cur)
               k == Min(MatchingRules(m, img))
    <3>1. MatchingRules(m, img) \subseteq DOMAIN rules /\ DOMAIN rules \subseteq Nat
      <4>1. IsVector(rules)
        BY <1>2, <2>2 DEF Typed
      <4> HIDE DEF m, rules
      <4>2. DOMAIN rules = 1..Len(rules) /\ Len(rules) \in Nat
        BY <4>1, VectorIsSeq DEF IsVector
      <4> QED BY <4>2 DEF MatchingRules, rules
    <3>2. MatchingRules(m, img) \subseteq Nat
      BY <3>1
    <3>3. k \in DOMAIN rules
      BY <3>1, <3>2, LeastIsOne
    <3> HIDE DEF k
    <3>4. /\ rules[k].next \in DOMAIN m.states
          /\ {Len(rules[k].read), Len(rules[k].write), Len(rules[k].moves)} = {m.tapes}
      BY <1>2, <2>2, <3>3 DEF Valid
    <3>5. Len(rules[k].write) = m.tapes /\ Len(rules[k].moves) = m.tapes
      BY <3>4
    <3> QED BY <3>4, <3>5 DEF Malformed, FiringRule, k
  <2>6. m.states[img.cur].accept \/ MatchingRules(m, img) = {}
    BY <2>1, <2>2, <2>5 DEF Stopped
  <2> QED BY <1>2, <2>3, <2>4, <2>6 DEF TB!Halts
<1> QED BY <1>3, <1>4, <1>5 DEF ReadableAndHaltsTogether

\* A machine run without stages halts only where its table has it halt, and
\* then accepts exactly when the table does (trace.rs, tm/machine.rs).
THEOREM PlainRunsHaltTogether == Spec /\ job.plan = <<>> => []ReadableAndHaltsTogether
<1>1. Init => SeenInv
  BY InitSeen
<1>2. SeenInv /\ [Next]_vars => SeenInv'
  BY NextSeen
<1>3. job.plan = <<>> /\ [Next]_vars => (job.plan = <<>>)'
  BY PlanStays
<1>4. SeenInv /\ job.plan = <<>> => ReadableAndHaltsTogether
  BY SeenHalts
<1> QED BY <1>1, <1>2, <1>3, <1>4, PTL DEF Spec
=============================================================================
