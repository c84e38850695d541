---------------------------- MODULE HistoryProofs ----------------------------
(***************************************************************************)
(* Proofs about the frame ring, for every budget and every choice of frame  *)
(* sizes.                                                                   *)
(*                                                                         *)
(* HistoryInv is the inductive invariant.  Beside what the ring promises it *)
(* says how the array, the totals and the counters hang together: which     *)
(* step every held frame is, that totals never decrease, and that the byte  *)
(* count is a difference of totals.  Without these an eviction could not be *)
(* shown to stop at the newest frame, nor the step on screen to survive a   *)
(* cut.                                                                     *)
(***************************************************************************)
EXTENDS History, WellFoundedInduction, TLAPS

-----------------------------------------------------------------------------
(* The order of the naturals as a relation.                                 *)
Below == {p \in Nat \X Nat : p[1] < p[2]}

(* No sequence of naturals descends for ever.                               *)
LEMMA BelowIsWellFounded == IsWellFoundedOn(Below, Nat)
  BY NatLessThanWellFounded, Zenon DEF OpToRel, Below

(* A set of naturals that is not empty has a least element.                 *)
LEMMA LeastNat ==
  ASSUME NEW S \in SUBSET Nat, S # {}
  PROVE  \E m \in S : \A k \in S : m <= k
<1>1. PICK m \in S : \A y \in S : ~ (<<y, m>> \in Below)
  BY BelowIsWellFounded, WFMin, Zenon
<1>2. m \in Nat /\ \A k \in S : k \in Nat
  OBVIOUS
<1>3. ASSUME NEW k \in S, k < m PROVE FALSE
  BY <1>1, <1>2, <1>3 DEF Below
<1>4. \A k \in S : m <= k
  BY <1>2, <1>3
<1> QED BY <1>4

(* Max of a pair is the larger one.                                         *)
LEMMA MaxOfTwo ==
  ASSUME NEW a \in Int, NEW b \in Int
  PROVE  Max({a, b}) = IF a >= b THEN a ELSE b
  BY DEF Max

(* Min of a pair is the smaller one.                                        *)
LEMMA MinOfTwo ==
  ASSUME NEW a \in Int, NEW b \in Int
  PROVE  Min({a, b}) = IF a <= b THEN a ELSE b
  BY DEF Min

-----------------------------------------------------------------------------
(* The array and its totals run side by side, and the totals never fall.    *)
ArrayInv ==
    /\ Len(totals) = Len(frames)
    /\ start <= Len(frames)
    /\ \A i, j \in 0..Len(totals) : i <= j => Upto(totals, i) <= Upto(totals, j)
    /\ bytes = Upto(totals, Len(totals)) - Upto(totals, start)

(* A held frame is the frame of its step, up to the newest one recorded; a  *)
(* ring that holds nothing has recorded nothing.                            *)
StepsInv ==
    /\ \A i \in (start + 1)..Len(frames) : frames[i] = firstStep + (i - start - 1)
    /\ firstStep + Length = recorded
    /\ Length = 0 => recorded = 0
    /\ IF Length = 0 THEN head = 0 ELSE head < Length

HistoryInv ==
    /\ TypeOK
    /\ ArrayInv
    /\ StepsInv
    /\ WithinBudget
    /\ HolesBounded
    /\ FollowerAtNewest

(* The ring starts as it promises to stay.                                  *)
LEMMA InitHistoryInv == Init => HistoryInv
<1> SUFFICES ASSUME Init PROVE HistoryInv
  OBVIOUS
<1> USE HistoryAssumption DEF Init
<1>1. TypeOK
  <2>1. \A S : <<>> \in Seq(S)
    OBVIOUS
  <2>2. recorded \in 0..FrameLimit
    OBVIOUS
  <2>3. frames \in Seq(Nat \cup {Hole}) /\ totals \in Seq(Nat)
    BY <2>1
  <2> QED BY <2>2, <2>3 DEF TypeOK
<1>2. ArrayInv
  <2>1. Len(totals) = 0 /\ Len(frames) = 0 /\ Upto(totals, 0) = 0
    BY DEF Upto
  <2> QED BY <2>1 DEF ArrayInv
<1>3. StepsInv
  BY DEF StepsInv, Length
<1>4. WithinBudget /\ HolesBounded /\ FollowerAtNewest
  BY DEF WithinBudget, HolesBounded, FollowerAtNewest, Length
<1> QED BY <1>1, <1>2, <1>3, <1>4 DEF HistoryInv

-----------------------------------------------------------------------------
(* The array a push evicts from: DroppedOf is how many frames the loop       *)
(* drops once the new frame is in.                                          *)
NewFrames == Append(frames, recorded)
NewTotals(size) == Append(totals, Upto(totals, Len(totals)) + size)
DroppedOf(size) == Dropped(NewTotals(size), bytes + size, size)

(* The totals with the new frame in: those of the old frames are unchanged  *)
(* and the last one is its size more.                                       *)
LEMMA NewTotalsFacts ==
  ASSUME HistoryInv, NEW size \in Nat
  PROVE  /\ NewTotals(size) \in Seq(Nat)
         /\ Len(NewTotals(size)) = Len(totals) + 1
         /\ \A i \in 0..Len(totals) : Upto(NewTotals(size), i) = Upto(totals, i)
         /\ Upto(NewTotals(size), Len(totals) + 1) = Upto(totals, Len(totals)) + size
         /\ \A i \in 0..(Len(totals) + 1) : Upto(NewTotals(size), i) \in Nat
<1> DEFINE ts == NewTotals(size)
<1>1. totals \in Seq(Nat) /\ Len(totals) \in Nat
  BY DEF HistoryInv, TypeOK
<1>2. Upto(totals, Len(totals)) \in Nat
  BY <1>1 DEF Upto
<1>3. ts \in Seq(Nat) /\ Len(ts) = Len(totals) + 1
  BY <1>1, <1>2 DEF NewTotals
<1>4. \A i \in 1..Len(totals) : ts[i] = totals[i]
  BY <1>1, <1>2 DEF NewTotals
<1>5. ts[Len(totals) + 1] = Upto(totals, Len(totals)) + size
  BY <1>1, <1>2 DEF NewTotals
<1>6. \A i \in 0..Len(totals) : Upto(ts, i) = Upto(totals, i)
  BY <1>1, <1>4 DEF Upto
<1>7. Upto(ts, Len(totals) + 1) = Upto(totals, Len(totals)) + size
  BY <1>1, <1>5 DEF Upto
<1>8. \A i \in 0..(Len(totals) + 1) : Upto(ts, i) \in Nat
  BY <1>1, <1>3 DEF Upto
<1> HIDE DEF ts
<1> QED BY <1>3, <1>6, <1>7, <1>8 DEF ts

(* With the new frame in, the totals still never fall.                      *)
LEMMA NewTotalsRise ==
  ASSUME HistoryInv, NEW size \in Nat
  PROVE  \A i, j \in 0..(Len(totals) + 1) :
            i <= j => Upto(NewTotals(size), i) <= Upto(NewTotals(size), j)
<1> DEFINE ts == NewTotals(size)
           m  == Len(totals)
<1>1. \A a, b \in 0..m : a <= b => Upto(totals, a) <= Upto(totals, b)
  BY DEF HistoryInv, ArrayInv
<1>2. /\ m \in Nat
      /\ \A i \in 0..m : Upto(ts, i) = Upto(totals, i)
      /\ Upto(ts, m + 1) = Upto(totals, m) + size
      /\ \A i \in 0..(m + 1) : Upto(ts, i) \in Nat
  <2>1. m \in Nat
    BY DEF HistoryInv, TypeOK
  <2> QED BY <2>1, NewTotalsFacts
<1> HIDE DEF ts, m
<1>3. ASSUME NEW i \in 0..(m + 1), NEW j \in 0..(m + 1), i <= j
      PROVE  Upto(ts, i) <= Upto(ts, j)
  <2>1. CASE j <= m
    BY <1>1, <1>2, <1>3, <2>1
  <2>2. CASE i = m + 1
    BY <1>2, <1>3, <2>2
  <2>3. CASE j = m + 1 /\ i <= m
    <3>1. i \in 0..m /\ m \in 0..m /\ m \in 0..(m + 1)
      BY <1>2, <2>3
    <3>2. Upto(ts, i) <= Upto(ts, m)
      BY <1>1, <1>2, <3>1
    <3>3. Upto(ts, m) \in Nat /\ Upto(ts, m + 1) = Upto(ts, m) + size /\ Upto(ts, i) \in Nat
      BY <1>2, <3>1
    <3> QED BY <2>3, <3>2, <3>3
  <2> QED BY <1>2, <2>1, <2>2, <2>3
<1> QED BY <1>3 DEF ts, m

(* The eviction loop of a push stops: it drops no more frames than were     *)
(* held before it, never the new one, leaves what lies beside the new frame *)
(* within the budget, and drops none from a ring within budget.             *)
LEMMA DroppedFacts ==
  ASSUME HistoryInv, NEW size \in Nat
  PROVE  LET k == DroppedOf(size)
         IN  /\ k \in 0..Length
             /\ HeldAfter(NewTotals(size), bytes + size, k) - size <= Budget
             /\ k > 0 => bytes > Budget
<1> DEFINE ts == NewTotals(size)
           held == bytes + size
           Fits(j) == HeldAfter(ts, held, j) - size <= Budget
           S == {j \in 0..Length : Fits(j)}
<1>1. /\ Len(totals) \in Nat /\ Len(frames) = Len(totals)
      /\ start \in Nat /\ start <= Len(totals) /\ bytes \in Nat
      /\ Length = Len(totals) - start /\ Length \in Nat
      /\ bytes = Upto(totals, Len(totals)) - Upto(totals, start)
  BY DEF HistoryInv, TypeOK, ArrayInv, Length
<1>2. /\ Len(ts) = Len(totals) + 1
      /\ \A i \in 0..Len(totals) : Upto(ts, i) = Upto(totals, i)
      /\ \A i \in 0..(Len(totals) + 1) : Upto(ts, i) \in Nat
  BY NewTotalsFacts
<1> HIDE DEF ts
<1>3. HeldAfter(ts, held, Length) = size
  <2>1. start + Length = Len(totals)
    BY <1>1
  <2>2. Upto(ts, Len(totals)) \in Nat /\ Upto(ts, start) \in Nat
    BY <1>1, <1>2
  <2>3. Upto(ts, Len(totals)) = Upto(totals, Len(totals)) /\ Upto(ts, start) = Upto(totals, start)
    BY <1>1, <1>2
  <2> QED BY <1>1, <2>1, <2>2, <2>3 DEF HeldAfter
<1>4. \A j \in 0..(Length + 1) : HeldAfter(ts, held, j) \in Int
  BY <1>1, <1>2 DEF HeldAfter
<1>5. Length \in S
  BY <1>1, <1>3, HistoryAssumption
<1>6. PICK m \in S : \A j \in S : m <= j
  <2>1. S \in SUBSET Nat /\ S # {}
    BY <1>1, <1>5
  <2> HIDE DEF S
  <2> QED BY <2>1, LeastNat
<1>7. \A j \in 0..(m - 1) : HeldAfter(ts, held, j) - size > Budget
  <2> TAKE j \in 0..(m - 1)
  <2>1. j \in 0..Length /\ ~ (m <= j)
    BY <1>1, <1>6
  <2>2. j \notin S
    BY <1>6, <2>1
  <2>3. HeldAfter(ts, held, j) \in Int
    BY <1>1, <1>4, <2>1
  <2> QED BY <2>1, <2>2, <2>3, HistoryAssumption
<1> DEFINE Stops(k) == /\ HeldAfter(ts, held, k) - size <= Budget
                       /\ \A j \in 0..(k - 1) : HeldAfter(ts, held, j) - size > Budget
           k == CHOOSE i \in 0..(Len(ts) - start) : Stops(i)
<1>8. DroppedOf(size) = k
  BY DEF DroppedOf, Dropped, ts
<1>9. k \in 0..(Len(ts) - start) /\ Stops(k)
  <2>1. m \in 0..(Len(ts) - start)
    BY <1>1, <1>2, <1>6
  <2>2. Stops(m)
    BY <1>6, <1>7
  <2> HIDE DEF Stops
  <2> QED BY <2>1, <2>2
<1> HIDE DEF k
<1>10. k \in 0..(Length + 1)
  BY <1>1, <1>2, <1>9
<1>11. k <= Length
  <2> SUFFICES ASSUME ~ (k <= Length) PROVE FALSE
    OBVIOUS
  <2>1. Length \in 0..(k - 1)
    BY <1>1, <1>10
  <2> QED BY <1>3, <1>9, <2>1, HistoryAssumption
<1>12. k > 0 => bytes > Budget
  <2> SUFFICES ASSUME k > 0 PROVE bytes > Budget
    OBVIOUS
  <2>1. 0 \in 0..(k - 1)
    BY <1>10
  <2>2. HeldAfter(ts, held, 0) = bytes + size
    BY <1>1, <1>2 DEF HeldAfter
  <2> QED BY <1>1, <1>9, <2>1, <2>2, HistoryAssumption
<1> QED BY <1>1, <1>8, <1>9, <1>10, <1>11, <1>12 DEF ts

-----------------------------------------------------------------------------
(* Cutting the emptied prefix off changes which positions are in use, not   *)
(* what they hold.                                                          *)
LEMMA CutTotalsFacts ==
  ASSUME NEW ts \in Seq(Nat), NEW from \in 0..Len(ts),
         \A i, j \in 0..Len(ts) : i <= j => Upto(ts, i) <= Upto(ts, j)
  PROVE  /\ CutTotals(ts, from) \in Seq(Nat)
         /\ Len(CutTotals(ts, from)) = Len(ts) - from
         /\ \A i \in 0..(Len(ts) - from) :
               Upto(CutTotals(ts, from), i) = Upto(ts, from + i) - Upto(ts, from)
<1> DEFINE n == Len(ts) - from
<1>1. n \in Nat /\ Len(ts) \in Nat /\ from \in Nat
  OBVIOUS
<1>2. \A i \in 0..Len(ts) : Upto(ts, i) \in Nat
  BY DEF Upto
<1>3. \A i \in 1..n : ts[from + i] = Upto(ts, from + i) /\ from + i \in 0..Len(ts)
  BY <1>1 DEF Upto
<1>4. \A i \in 1..n : ts[from + i] - Upto(ts, from) \in Nat
  <2> TAKE i \in 1..n
  <2>1. from \in 0..Len(ts) /\ from + i \in 0..Len(ts) /\ from <= from + i
    BY <1>1, <1>3
  <2>2. Upto(ts, from) <= Upto(ts, from + i)
    BY <2>1
  <2>3. Upto(ts, from) \in Nat /\ Upto(ts, from + i) \in Nat
    BY <1>2, <2>1
  <2>4. ts[from + i] = Upto(ts, from + i)
    BY <1>3
  <2> QED BY <2>2, <2>3, <2>4
<1>5. CutTotals(ts, from) \in [1..n -> Nat]
  BY <1>4 DEF CutTotals
<1>6. CutTotals(ts, from) \in Seq(Nat) /\ Len(CutTotals(ts, from)) = n
  <2> HIDE DEF n
  <2> QED BY <1>1, <1>5
<1>7. \A i \in 0..n : Upto(CutTotals(ts, from), i) = Upto(ts, from + i) - Upto(ts, from)
  <2> TAKE i \in 0..n
  <2>1. CASE i = 0
    BY <1>1, <1>2, <2>1 DEF Upto
  <2>2. CASE i # 0
    BY <1>1, <1>3, <2>2 DEF Upto, CutTotals
  <2> QED BY <2>1, <2>2
<1> QED BY <1>6, <1>7

(* The positions behind the holes keep their frames, cut off or not.        *)
LEMMA EmptiedFacts ==
  ASSUME NEW fs \in Seq(Nat \cup {Hole}), NEW from \in 0..Len(fs)
  PROVE  LET es == Emptied(fs, from)
             cs == CutFrames(es, from)
         IN  /\ es \in Seq(Nat \cup {Hole}) /\ Len(es) = Len(fs)
             /\ \A i \in (from + 1)..Len(fs) : es[i] = fs[i]
             /\ cs \in Seq(Nat \cup {Hole}) /\ Len(cs) = Len(fs) - from
             /\ \A i \in 1..(Len(fs) - from) : cs[i] = fs[from + i]
<1> DEFINE es == Emptied(fs, from)
           cs == CutFrames(es, from)
<1>1. Len(fs) \in Nat /\ from \in Nat
  OBVIOUS
<1>2. es \in [1..Len(fs) -> Nat \cup {Hole}]
  BY DEF Emptied
<1>3. es \in Seq(Nat \cup {Hole}) /\ Len(es) = Len(fs)
  BY <1>1, <1>2
<1>4. \A i \in (from + 1)..Len(fs) : es[i] = fs[i]
  BY <1>1 DEF Emptied
<1> HIDE DEF es
<1>5. cs \in Seq(Nat \cup {Hole}) /\ Len(cs) = Len(fs) - from
  BY <1>1, <1>3 DEF CutFrames
<1>6. \A i \in 1..(Len(fs) - from) : cs[i] = fs[from + i]
  BY <1>1, <1>3, <1>4 DEF CutFrames
<1> QED BY <1>3, <1>4, <1>5, <1>6 DEF es

-----------------------------------------------------------------------------
(* What a push leaves, whether or not it cut the array: `off' positions are *)
(* gone from its front, the ring starts where eviction stopped, and every   *)
(* held frame and every difference of totals is what it was.                *)
LEMMA PushedArray ==
  ASSUME HistoryInv, NEW size \in Sizes, Push(size)
  PROVE  LET k    == DroppedOf(size)
             from == start + k
             n    == Len(frames) + 1
         IN  \E off \in {0, from} :
               /\ start' = from - off
               /\ frames' \in Seq(Nat \cup {Hole}) /\ Len(frames') = n - off
               /\ totals' \in Seq(Nat) /\ Len(totals') = n - off
               /\ \A i \in 0..(n - off) : Upto(totals', i) =
                     Upto(NewTotals(size), off + i) - Upto(NewTotals(size), off)
               /\ \A i \in (from - off + 1)..(n - off) :
                     frames'[i] = NewFrames[off + i]
               /\ start' = 0 \/ start' < n - from
<1> DEFINE k    == DroppedOf(size)
           from == start + k
           n    == Len(frames) + 1
           fs   == NewFrames
           ts   == NewTotals(size)
           es   == Emptied(fs, from)
<1>1. /\ size \in Nat /\ recorded \in Nat
      /\ frames \in Seq(Nat \cup {Hole}) /\ Len(frames) \in Nat
      /\ start \in Nat /\ start <= Len(frames) /\ Len(totals) = Len(frames)
      /\ Length = Len(frames) - start
  BY HistoryAssumption DEF HistoryInv, TypeOK, ArrayInv, Length
<1>2. k \in 0..Length
  BY <1>1, DroppedFacts
<1>3. from \in 0..Len(frames) /\ from \in 0..n /\ n \in Nat
  BY <1>1, <1>2
<1>4. fs \in Seq(Nat \cup {Hole}) /\ Len(fs) = n
  BY <1>1 DEF NewFrames
<1>5. /\ ts \in Seq(Nat) /\ Len(ts) = n
      /\ \A i \in 0..n : Upto(ts, i) \in Nat
      /\ \A i \in 0..Len(totals) : Upto(ts, i) = Upto(totals, i)
      /\ Upto(ts, n) = Upto(totals, Len(totals)) + size
  BY <1>1, NewTotalsFacts
<1>6. IF MustCut(from, n)
      THEN frames' = CutFrames(es, from) /\ totals' = CutTotals(ts, from) /\ start' = 0
      ELSE frames' = es /\ totals' = ts /\ start' = from
  BY <1>4 DEF Push, DroppedOf, NewFrames, NewTotals
<1> HIDE DEF ts, fs, k, from
<1>7. \A i, j \in 0..n : i <= j => Upto(ts, i) <= Upto(ts, j)
  BY <1>1, NewTotalsRise DEF ts
<1>8. /\ es \in Seq(Nat \cup {Hole}) /\ Len(es) = n
      /\ \A i \in (from + 1)..n : es[i] = fs[i]
      /\ CutFrames(es, from) \in Seq(Nat \cup {Hole})
      /\ Len(CutFrames(es, from)) = n - from
      /\ \A i \in 1..(n - from) : CutFrames(es, from)[i] = fs[from + i]
  <2>1. from \in 0..Len(fs)
    BY <1>3, <1>4
  <2> QED BY <1>4, <2>1, EmptiedFacts
<1>9. /\ CutTotals(ts, from) \in Seq(Nat)
      /\ Len(CutTotals(ts, from)) = n - from
      /\ \A i \in 0..(n - from) :
            Upto(CutTotals(ts, from), i) = Upto(ts, from + i) - Upto(ts, from)
  BY <1>3, <1>5, <1>7, CutTotalsFacts
<1> DEFINE Left(off) ==
      /\ start' = from - off
      /\ frames' \in Seq(Nat \cup {Hole}) /\ Len(frames') = n - off
      /\ totals' \in Seq(Nat) /\ Len(totals') = n - off
      /\ \A i \in 0..(n - off) : Upto(totals', i) = Upto(ts, off + i) - Upto(ts, off)
      /\ \A i \in (from - off + 1)..(n - off) : frames'[i] = fs[off + i]
      /\ start' = 0 \/ start' < n - from
<1>10. CASE MustCut(from, n)
  <2>1. from - from = 0
    BY <1>3
  <2> HIDE DEF es
  <2>2. Left(from)
    BY <1>6, <1>8, <1>9, <1>10, <2>1
  <2> HIDE DEF Left
  <2>3. \E off \in {0, from} : Left(off)
    BY <2>2
  <2> QED BY <2>3 DEF Left, ts, fs, k, from
<1>11. CASE ~ MustCut(from, n)
  <2>1. from - 0 = from /\ n - 0 = n /\ Upto(ts, 0) = 0
    BY <1>3 DEF Upto
  <2>2. from = 0 \/ from < n - from
    BY <1>3, <1>11 DEF MustCut
  <2>3. \A i \in 0..n : 0 + i = i /\ Upto(ts, i) - 0 = Upto(ts, i)
    BY <1>5
  <2>4. \A i \in (from + 1)..n : 0 + i = i
    BY <1>3
  <2> HIDE DEF es
  <2>5. Left(0)
    BY <1>6, <1>8, <1>5, <1>11, <2>1, <2>2, <2>3, <2>4
  <2> HIDE DEF Left
  <2>6. \E off \in {0, from} : Left(off)
    BY <2>5
  <2> QED BY <2>6 DEF Left, ts, fs, k, from
<1> QED BY <1>10, <1>11

(* A push keeps the invariant.                                              *)
LEMMA PushInv ==
  ASSUME HistoryInv, NEW size \in Sizes, Push(size)
  PROVE  HistoryInv'
<1> DEFINE k    == DroppedOf(size)
           from == start + k
           n    == Len(frames) + 1
           fs   == NewFrames
           ts   == NewTotals(size)
<1>1. /\ size \in Nat /\ recorded \in Nat /\ firstStep \in Nat /\ head \in Nat
      /\ frames \in Seq(Nat \cup {Hole}) /\ Len(frames) \in Nat
      /\ start \in Nat /\ start <= Len(frames) /\ Len(totals) = Len(frames)
      /\ Length = Len(frames) - start /\ Length \in Nat /\ bytes \in Nat
      /\ following \in BOOLEAN
  BY HistoryAssumption DEF HistoryInv, TypeOK, ArrayInv, Length
<1>2. k \in 0..Length /\ HeldAfter(ts, bytes + size, k) - size <= Budget
  BY <1>1, DroppedFacts
<1>3. /\ \A i \in 0..n : Upto(ts, i) \in Nat
      /\ \A i \in 0..Len(frames) : Upto(ts, i) = Upto(totals, i)
      /\ Upto(ts, n) = Upto(totals, Len(totals)) + size
  BY <1>1, NewTotalsFacts
<1>4. /\ fs[n] = recorded
      /\ \A i \in 1..Len(frames) : fs[i] = frames[i]
      /\ Len(fs) = n
  BY <1>1 DEF NewFrames
<1>5. /\ recorded < FrameLimit /\ recorded' = recorded + 1
      /\ bytes' = HeldAfter(ts, bytes + size, k)
      /\ firstStep' = firstStep + k
      /\ head' = HeadAfter(IF following THEN n - start - 1 ELSE head, k)
      /\ following' = following
  BY <1>4 DEF Push, DroppedOf, NewFrames, NewTotals
<1>6. PICK off \in {0, from} :
         /\ start' = from - off
         /\ frames' \in Seq(Nat \cup {Hole}) /\ Len(frames') = n - off
         /\ totals' \in Seq(Nat) /\ Len(totals') = n - off
         /\ \A i \in 0..(n - off) : Upto(totals', i) = Upto(ts, off + i) - Upto(ts, off)
         /\ \A i \in (from - off + 1)..(n - off) : frames'[i] = fs[off + i]
         /\ start' = 0 \/ start' < n - from
  BY PushedArray
<1>7. from \in 0..Len(frames) /\ from \in 0..n /\ n \in Nat /\ off \in 0..from
  BY <1>1, <1>2
<1>8. Length' = n - from /\ Length' > 0 /\ Length' = Length + 1 - k
  <2>1. Length' = Len(frames') - start'
    BY DEF Length
  <2>2. Len(frames') = n - off /\ start' = from - off
    BY <1>6
  <2>3. n - from = Length + 1 - k /\ n - from > 0
    BY <1>1, <1>2
  <2> HIDE DEF n, from
  <2>4. (n - off) - (from - off) = n - from
    BY <1>7
  <2> QED BY <2>1, <2>2, <2>3, <2>4
<1>9. /\ Upto(ts, from) \in Nat /\ Upto(ts, off) \in Nat /\ Upto(ts, n) \in Nat
      /\ Upto(ts, n - 1) \in Nat /\ Upto(ts, start) \in Nat
      /\ Upto(ts, n - 1) = Upto(totals, Len(totals))
      /\ Upto(ts, start) = Upto(totals, start)
      /\ Upto(ts, n) = Upto(ts, n - 1) + size
  BY <1>1, <1>3, <1>7
<1>10. bytes = Upto(totals, Len(totals)) - Upto(totals, start)
  BY DEF HistoryInv, ArrayInv
<1>11. HeldAfter(ts, bytes + size, k) = Upto(ts, n) - Upto(ts, from)
  <2>1. HeldAfter(ts, bytes + size, k) = (bytes + size) - (Upto(ts, from) - Upto(ts, start))
    BY DEF HeldAfter
  <2>2. size \in Nat /\ bytes \in Nat
    BY <1>1
  <2>3. bytes = Upto(ts, n - 1) - Upto(ts, start)
    BY <1>9, <1>10
  <2> HIDE DEF n, from, ts, fs
  <2> QED BY <1>9, <2>1, <2>2, <2>3
<1>12. /\ Upto(totals', n - off) = Upto(ts, n) - Upto(ts, off)
       /\ Upto(totals', n - off - 1) = Upto(ts, n - 1) - Upto(ts, off)
       /\ Upto(totals', from - off) = Upto(ts, from) - Upto(ts, off)
  <2>1. /\ n - off \in 0..(n - off) /\ n - off - 1 \in 0..(n - off)
        /\ from - off \in 0..(n - off)
        /\ off + (n - off) = n /\ off + (n - off - 1) = n - 1 /\ off + (from - off) = from
    BY <1>7
  <2> HIDE DEF n, from, ts, fs
  <2>2. \A i \in 0..(n - off) : Upto(totals', i) = Upto(ts, off + i) - Upto(ts, off)
    BY <1>6
  <2> QED BY <2>1, <2>2
<1> HIDE DEF ts, fs, k
<1>13. bytes' \in Nat
  <2>1. Upto(ts, from) <= Upto(ts, n - 1)
    <3>1. \A a, b \in 0..Len(totals) : a <= b => Upto(totals, a) <= Upto(totals, b)
      BY DEF HistoryInv, ArrayInv
    <3>2. n - 1 = Len(totals) /\ from \in 0..Len(totals) /\ Len(totals) \in 0..Len(totals)
      BY <1>1, <1>7
    <3>3. Upto(ts, from) = Upto(totals, from) /\ Upto(ts, n - 1) = Upto(totals, Len(totals))
      BY <1>1, <1>3, <3>2
    <3>4. Upto(totals, from) <= Upto(totals, Len(totals))
      BY <3>1, <3>2
    <3> QED BY <3>3, <3>4
  <2>2. bytes' = Upto(ts, n) - Upto(ts, from)
    BY <1>5, <1>11
  <2> HIDE DEF n, from
  <2>3. size \in Nat
    BY <1>1
  <2> QED BY <1>9, <2>1, <2>2, <2>3
<1>14. head' = (IF (IF following THEN Length ELSE head) >= k
                THEN (IF following THEN Length ELSE head) - k ELSE 0)
  <2>1. n - start - 1 = Length
    BY <1>1
  <2> DEFINE at == IF following THEN Length ELSE head
  <2>2. at \in Int /\ k \in Int
    BY <1>1, <1>2
  <2>3. Max({0, at - k}) = IF 0 >= at - k THEN 0 ELSE at - k
    BY <2>2, MaxOfTwo
  <2>4. head' = Max({0, at - k})
    BY <1>1, <1>5, <2>1 DEF HeadAfter
  <2> HIDE DEF at
  <2>5. head' = IF at >= k THEN at - k ELSE 0
    BY <2>2, <2>3, <2>4
  <2> QED BY <2>5 DEF at
<1>15. TypeOK'
  <2>1. recorded' \in 0..FrameLimit
    BY <1>1, <1>5, HistoryAssumption
  <2>2. start' \in Nat
    BY <1>6, <1>7
  <2>3. firstStep' \in Nat /\ head' \in Nat
    BY <1>1, <1>2, <1>5, <1>14
  <2> QED BY <1>1, <1>5, <1>6, <1>13, <2>1, <2>2, <2>3 DEF TypeOK
<1>16. ArrayInv'
  <2>1. Len(totals') = Len(frames') /\ start' <= Len(frames')
    BY <1>6, <1>7
  <2>2. ASSUME NEW i \in 0..Len(totals'), NEW j \in 0..Len(totals'), i <= j
        PROVE  Upto(totals', i) <= Upto(totals', j)
    <3>2. /\ off + i \in 0..n /\ off + j \in 0..n /\ off + i <= off + j
          /\ i \in 0..(n - off) /\ j \in 0..(n - off)
      BY <1>6, <1>7, <2>2
    <3>3. Upto(ts, off + i) <= Upto(ts, off + j)
      <4>1. \A a, b \in 0..n : a <= b => Upto(ts, a) <= Upto(ts, b)
        BY <1>1, NewTotalsRise DEF ts
      <4> QED BY <3>2, <4>1
    <3>4. Upto(ts, off + i) \in Nat /\ Upto(ts, off + j) \in Nat
      BY <1>3, <3>2
    <3>5. /\ Upto(totals', i) = Upto(ts, off + i) - Upto(ts, off)
          /\ Upto(totals', j) = Upto(ts, off + j) - Upto(ts, off)
      BY <1>6, <3>2
    <3> QED BY <1>9, <3>3, <3>4, <3>5
  <2>3. bytes' = Upto(totals', Len(totals')) - Upto(totals', start')
    BY <1>5, <1>6, <1>9, <1>11, <1>12
  <2> QED BY <2>1, <2>2, <2>3 DEF ArrayInv
<1>17. StepsInv'
  <2>1. firstStep + Length = recorded
    BY DEF HistoryInv, StepsInv
  <2>2. ASSUME NEW i \in (start' + 1)..Len(frames')
        PROVE  frames'[i] = firstStep' + (i - start' - 1)
    <3>1. /\ i \in (from - off + 1)..(n - off) /\ off + i \in (from + 1)..n
          /\ i - start' = (off + i) - from
      BY <1>6, <1>7, <2>2
    <3>2. frames'[i] = fs[off + i]
      BY <1>6, <3>1
    <3>3. CASE off + i = n
      BY <1>1, <1>2, <1>4, <1>5, <1>7, <2>1, <3>1, <3>2, <3>3
    <3>4. CASE off + i # n
      <4>1. off + i \in (start + 1)..Len(frames)
        BY <1>1, <1>2, <1>7, <3>1, <3>4
      <4>2. frames[off + i] = firstStep + ((off + i) - start - 1)
        <5>1. \A p \in (start + 1)..Len(frames) : frames[p] = firstStep + (p - start - 1)
          BY DEF HistoryInv, StepsInv
        <5> QED BY <4>1, <5>1
      <4>3. fs[off + i] = frames[off + i]
        BY <1>1, <1>4, <4>1
      <4> QED BY <1>1, <1>2, <1>5, <1>7, <3>1, <3>2, <4>2, <4>3
    <3> QED BY <3>3, <3>4
  <2>3. firstStep' + Length' = recorded'
    BY <1>1, <1>2, <1>5, <1>8, <2>1
  <2>4. IF Length' = 0 THEN head' = 0 ELSE head' < Length'
    <3>1. IF Length = 0 THEN head = 0 ELSE head < Length
      BY DEF HistoryInv, StepsInv
    <3> QED BY <1>1, <1>2, <1>8, <1>14, <3>1
  <2>5. Length' = 0 => recorded' = 0
    BY <1>1, <1>2, <1>8
  <2> QED BY <2>2, <2>3, <2>4, <2>5 DEF StepsInv
<1>18. WithinBudget'
  <2>1. Len(frames') - 1 = n - off - 1
    BY <1>6
  <2>2. bytes' = Upto(totals', Len(frames')) - Upto(totals', start')
    BY <1>5, <1>6, <1>9, <1>11, <1>12
  <2>3. Upto(totals', Len(frames') - 1) - Upto(totals', start') <= Budget
    <3>1. Upto(ts, n - 1) - Upto(ts, from) <= Budget
      BY <1>1, <1>2, <1>9, <1>11, HistoryAssumption
    <3>2. start' = from - off
      BY <1>6
    <3> QED BY <1>9, <1>12, <2>1, <3>1, <3>2
  <2> QED BY <2>2, <2>3 DEF WithinBudget
<1>19. HolesBounded'
  BY <1>6, <1>8 DEF HolesBounded
<1>20. FollowerAtNewest'
  <2> SUFFICES ASSUME following PROVE Length' > 0 /\ head' = Length' - 1
    BY <1>5 DEF FollowerAtNewest
  <2> QED BY <1>1, <1>2, <1>8, <1>14
<1> QED BY <1>15, <1>16, <1>17, <1>18, <1>19, <1>20 DEF HistoryInv

-----------------------------------------------------------------------------
(* Moving the head within the ring keeps the invariant, as long as only the *)
(* newest position is followed from.                                        *)
LEMMA MoveInv ==
  ASSUME HistoryInv, NEW i \in 0..(Length - 1), Length > 0, MoveTo(i),
         following' \in BOOLEAN, following' => i = Length - 1
  PROVE  HistoryInv'
<1> USE DEF MoveTo
<1>1. Length' = Length
  BY DEF Length
<1>2. Length \in Nat
  BY DEF HistoryInv, TypeOK, ArrayInv, Length
<1>3. TypeOK'
  BY <1>2 DEF HistoryInv, TypeOK
<1>4. ArrayInv'
  BY DEF HistoryInv, ArrayInv, Upto
<1>5. StepsInv'
  <2>1. IF Length' = 0 THEN head' = 0 ELSE head' < Length'
    BY <1>1, <1>2
  <2>2. firstStep' + Length' = recorded'
    BY <1>1 DEF HistoryInv, StepsInv
  <2>3. \A p \in (start' + 1)..Len(frames') : frames'[p] = firstStep' + (p - start' - 1)
    BY DEF HistoryInv, StepsInv
  <2>4. Length' = 0 => recorded' = 0
    BY <1>1 DEF HistoryInv, StepsInv
  <2> QED BY <2>1, <2>2, <2>3, <2>4 DEF StepsInv
<1>6. WithinBudget'
  BY <1>1 DEF HistoryInv, WithinBudget, Upto
<1>7. HolesBounded' /\ FollowerAtNewest'
  BY <1>1 DEF HistoryInv, HolesBounded, FollowerAtNewest
<1> QED BY <1>3, <1>4, <1>5, <1>6, <1>7 DEF HistoryInv

(* A seek lands in the ring and follows exactly from its newest position.   *)
LEMMA SeekInv ==
  ASSUME HistoryInv, NEW i \in -1..Length, Seek(i)
  PROVE  /\ HistoryInv'
         /\ head' \in 0..(Length - 1) /\ following' = (head' = Length - 1)
<1> DEFINE to == Min({Max({i, 0}), Length - 1})
<1>1. Length \in Nat /\ Length > 0
  BY DEF HistoryInv, TypeOK, ArrayInv, Length, Seek
<1>2. to \in 0..(Length - 1)
  <2>1. Max({i, 0}) = IF i >= 0 THEN i ELSE 0
    BY <1>1, MaxOfTwo
  <2> DEFINE m == Max({i, 0})
  <2>2. m \in Nat
    BY <1>1, <2>1
  <2> HIDE DEF m
  <2>3. Min({m, Length - 1}) = IF m <= Length - 1 THEN m ELSE Length - 1
    BY <1>1, <2>2, MinOfTwo
  <2> QED BY <1>1, <2>2, <2>3 DEF m
<1>3. MoveTo(to) /\ head' = to /\ following' = (to = Length - 1)
  BY DEF Seek, MoveTo
<1> HIDE DEF to
<1>4. HistoryInv'
  BY <1>1, <1>2, <1>3, MoveInv
<1> QED BY <1>2, <1>3, <1>4

(* A step back keeps the invariant and stops following.                     *)
LEMMA BackInv ==
  ASSUME HistoryInv, Back
  PROVE  /\ HistoryInv'
         /\ Length > 0 /\ following' = FALSE
         /\ head' = IF head <= 0 THEN head ELSE head - 1
<1> DEFINE to == IF head <= 0 THEN head ELSE head - 1
<1>1. Length \in Nat /\ Length > 0 /\ head \in Nat /\ head < Length
  BY DEF HistoryInv, TypeOK, ArrayInv, StepsInv, Length, Back
<1>2. to \in 0..(Length - 1)
  BY <1>1
<1>3. MoveTo(to) /\ following' = FALSE /\ head' = to
  BY DEF Back, MoveTo
<1> HIDE DEF to
<1>4. HistoryInv'
  BY <1>1, <1>2, <1>3, MoveInv
<1> QED BY <1>1, <1>3, <1>4 DEF to

(* A step forward keeps the invariant; on the newest frame it follows.      *)
LEMMA ForwardInv ==
  ASSUME HistoryInv, Forward
  PROVE  /\ HistoryInv'
         /\ Length > 0
         /\ head' = IF head >= Length - 1 THEN head ELSE head + 1
         /\ following' = (head' = Length - 1)
<1> DEFINE to == IF head >= Length - 1 THEN head ELSE head + 1
<1>1. Length \in Nat /\ head \in Nat
  BY DEF HistoryInv, TypeOK, ArrayInv, Length
<1>2. Length > 0
  BY <1>1 DEF Forward
<1>3. head < Length
  BY <1>1, <1>2 DEF HistoryInv, StepsInv
<1>4. to \in 0..(Length - 1)
  BY <1>1, <1>2, <1>3
<1>5. MoveTo(to) /\ head' = to /\ following' = (to = Length - 1)
  <2>1. CASE head >= Length - 1
    <3>1. MoveTo(head) /\ following' = TRUE
      BY <1>1, <2>1 DEF Forward
    <3>2. to = head /\ to = Length - 1
      BY <1>1, <1>3, <2>1
    <3> HIDE DEF to
    <3> QED BY <3>1, <3>2, Zenon DEF MoveTo
  <2>2. CASE head < Length - 1
    <3>1. ~ (head >= Length - 1)
      BY <1>1, <2>2
    <3>2. MoveTo(head + 1) /\ following' = (head' = Length - 1)
      BY <3>1, Zenon DEF Forward
    <3>3. to = head + 1
      BY <3>1
    <3> HIDE DEF to
    <3> QED BY <3>2, <3>3, Zenon DEF MoveTo
  <2> QED BY <1>1, <2>1, <2>2
<1> HIDE DEF to
<1>6. HistoryInv'
  BY <1>2, <1>4, <1>5, MoveInv
<1> QED BY <1>2, <1>5, <1>6 DEF to

(* A reset leaves an empty ring.                                            *)
LEMMA ClearInv ==
  ASSUME HistoryInv, Clear
  PROVE  HistoryInv'
<1> USE HistoryAssumption DEF Clear
<1>1. TypeOK'
  <2>1. \A S : <<>> \in Seq(S)
    OBVIOUS
  <2>2. recorded' \in 0..FrameLimit
    OBVIOUS
  <2>3. frames' \in Seq(Nat \cup {Hole}) /\ totals' \in Seq(Nat)
    BY <2>1
  <2> QED BY <2>2, <2>3 DEF TypeOK
<1>2. ArrayInv'
  <2>1. Len(totals') = 0 /\ Len(frames') = 0 /\ Upto(totals', 0) = 0
    BY DEF Upto
  <2> QED BY <2>1 DEF ArrayInv
<1>3. StepsInv'
  BY DEF StepsInv, Length
<1>4. WithinBudget' /\ HolesBounded' /\ FollowerAtNewest'
  BY DEF WithinBudget, HolesBounded, FollowerAtNewest, Length
<1> QED BY <1>1, <1>2, <1>3, <1>4 DEF HistoryInv

(* Every step of the ring keeps the invariant.                              *)
LEMMA NextHistoryInv == HistoryInv /\ [Next]_vars => HistoryInv'
<1> SUFFICES ASSUME HistoryInv, [Next]_vars PROVE HistoryInv'
  OBVIOUS
<1>1. ASSUME NEW size \in Sizes, Push(size) PROVE HistoryInv'
  BY <1>1, PushInv
<1>2. ASSUME NEW i \in -1..Length, Seek(i) PROVE HistoryInv'
  BY <1>2, SeekInv
<1>3. CASE Back
  BY <1>3, BackInv
<1>4. CASE Forward
  BY <1>4, ForwardInv
<1>5. CASE Clear
  BY <1>5, ClearInv
<1>6. CASE UNCHANGED vars
  BY <1>6 DEF vars, HistoryInv, TypeOK, ArrayInv, StepsInv, WithinBudget,
              HolesBounded, FollowerAtNewest, Length, Upto
<1> QED BY <1>1, <1>2, <1>3, <1>4, <1>5, <1>6 DEF Next

-----------------------------------------------------------------------------
(* The invariant holds of every behaviour of the ring.                      *)
THEOREM HistoryIsSafe == Spec => []HistoryInv
  BY InitHistoryInv, NextHistoryInv, PTL DEF Spec

(* The variables keep their types.                                          *)
THEOREM TypeCorrect == Spec => []TypeOK
<1>1. HistoryInv => TypeOK
  BY DEF HistoryInv
<1> QED BY <1>1, HistoryIsSafe, PTL

(* `current' of history.ts is the frame of `currentStep' in every state:    *)
(* eviction and the cut of the array never move the step on screen off the  *)
(* frame that is drawn for it.                                              *)
THEOREM ShownIsAlwaysCurrentStep == Spec => []ShownIsCurrentStep
<1>1. HistoryInv => ShownIsCurrentStep
  <2> SUFFICES ASSUME HistoryInv, Length > 0
               PROVE  head < Length /\ frames[start + head + 1] = CurrentStep
    BY DEF ShownIsCurrentStep
  <2>1. /\ start \in Nat /\ Len(frames) \in Nat /\ head \in Nat /\ firstStep \in Nat
        /\ Length = Len(frames) - start
    BY DEF HistoryInv, TypeOK, Length
  <2>2. head < Length
    BY <2>1 DEF HistoryInv, StepsInv
  <2>3. /\ start + head + 1 \in (start + 1)..Len(frames)
        /\ ((start + head + 1) - start) - 1 = head
    BY <2>1, <2>2
  <2>4. \A i \in (start + 1)..Len(frames) : frames[i] = firstStep + (i - start - 1)
    BY DEF HistoryInv, StepsInv
  <2> QED BY <2>1, <2>2, <2>3, <2>4 DEF CurrentStep
<1> QED BY <1>1, HistoryIsSafe, PTL

(* Whatever sizes the frames have, all but the newest fit in the budget and *)
(* the byte count is the size of what is held; the holes eviction leaves    *)
(* never outnumber the frames; a reader who follows is on the newest frame. *)
THEOREM RingIsBounded == Spec => [](WithinBudget /\ HolesBounded /\ FollowerAtNewest)
<1>1. HistoryInv => WithinBudget /\ HolesBounded /\ FollowerAtNewest
  BY DEF HistoryInv
<1> QED BY <1>1, HistoryIsSafe, PTL

(* The emptied prefix is never longer than the ring: the array stays within  *)
(* twice the frames held, whatever is pushed, forgotten or reset.           *)
THEOREM HolesStayBounded == Spec => []HolesBounded
  BY RingIsBounded, PTL

(* A ring that follows its recording shows the newest frame, through every   *)
(* push, eviction, step and reset.                                          *)
THEOREM FollowerStaysNewest == Spec => []FollowerAtNewest
  BY RingIsBounded, PTL

(* `#evict' never drops a frame from a ring that is not over its budget, so *)
(* a recording that stops at the budget keeps its step 0.                   *)
THEOREM EvictionOnlyOverBudget == Spec => NoNeedlessEviction
<1> DEFINE Kept == firstStep' > firstStep => bytes > Budget
<1>1. ASSUME HistoryInv, [Next]_vars PROVE [Kept]_vars
  <2>1. firstStep \in Nat
    BY <1>1 DEF HistoryInv, TypeOK
  <2>2. ASSUME NEW size \in Sizes, Push(size) PROVE Kept
    <3>1. size \in Nat
      BY HistoryAssumption
    <3>2. DroppedOf(size) \in 0..Length /\ (DroppedOf(size) > 0 => bytes > Budget)
      BY <1>1, <3>1, DroppedFacts
    <3>3. firstStep' = firstStep + DroppedOf(size)
      BY <2>2 DEF Push, DroppedOf, NewTotals
    <3>4. Length \in Nat
      BY <1>1 DEF HistoryInv, TypeOK, ArrayInv, Length
    <3> QED BY <2>1, <3>2, <3>3, <3>4
  <2>3. CASE \/ \E i \in -1..Length : Seek(i)
             \/ Back
             \/ Forward
    <3>1. firstStep' = firstStep
      BY <2>3, Zenon DEF Seek, Back, Forward, MoveTo
    <3> QED BY <2>1, <3>1
  <2>4. CASE Clear
    BY <2>1, <2>4 DEF Clear
  <2>5. CASE UNCHANGED vars
    BY <2>5
  <2> QED BY <1>1, <2>2, <2>3, <2>4, <2>5 DEF Next
<1> QED BY <1>1, HistoryIsSafe, PTL DEF Spec, NoNeedlessEviction

-----------------------------------------------------------------------------
(* The ring implements the window.  What the array holds behind its holes   *)
(* is the stretch of steps from firstStep on.                               *)
Held == SubSeq(frames, start + 1, Len(frames))

HeldInv ==
    /\ Held \in Seq(Int) /\ Len(Held) = Length /\ Length \in Nat
    /\ \A i \in 1..Length : Held[i] = firstStep + (i - 1)
    /\ firstStep \in Nat /\ head \in Nat /\ recorded = firstStep + Length
    /\ IF Length = 0 THEN head = 0 /\ recorded = 0 ELSE head < Length
    /\ (Held = <<>>) = (Length = 0)

(* What the invariant says of the frames held, as a sequence of steps.      *)
LEMMA HeldFacts == HistoryInv => HeldInv
<1> SUFFICES ASSUME HistoryInv PROVE HeldInv
  OBVIOUS
<1>1. /\ start \in Nat /\ Len(frames) \in Nat /\ head \in Nat /\ firstStep \in Nat
      /\ Length = Len(frames) - start /\ Length \in Nat
      /\ frames \in Seq(Nat \cup {Hole})
  BY DEF HistoryInv, TypeOK, ArrayInv, Length
<1>2. frames \in Seq(Int)
  BY <1>1 DEF Hole
<1>3. Held \in Seq(Int) /\ Len(Held) = Length
  BY <1>1, <1>2 DEF Held
<1>4. ASSUME NEW i \in 1..Length PROVE Held[i] = firstStep + (i - 1)
  <2>1. start + i \in (start + 1)..Len(frames) /\ ((start + i) - start) - 1 = i - 1
    BY <1>1
  <2>2. Held[i] = frames[start + i]
    BY <1>1, <1>2 DEF Held
  <2>3. \A p \in (start + 1)..Len(frames) : frames[p] = firstStep + (p - start - 1)
    BY DEF HistoryInv, StepsInv
  <2> QED BY <2>1, <2>2, <2>3
<1>5. /\ recorded = firstStep + Length
      /\ IF Length = 0 THEN head = 0 /\ recorded = 0 ELSE head < Length
  BY DEF HistoryInv, StepsInv
<1>6. (Held = <<>>) = (Length = 0)
  BY <1>3
<1> QED BY <1>1, <1>3, <1>4, <1>5, <1>6 DEF HeldInv

(* A push records the next step and forgets the oldest ones.                *)
LEMMA PushRefines ==
  ASSUME HistoryInv, NEW size \in Sizes, Push(size)
  PROVE  Window!WindowRecord
<1> DEFINE k == DroppedOf(size)
           next == IF Held = <<>> THEN 0 ELSE Held[Len(Held)] + 1
           w == SubSeq(Append(Held, next), k + 1, Len(Held) + 1)
<1>1. /\ Held \in Seq(Int) /\ Len(Held) = Length /\ Length \in Nat
      /\ \A i \in 1..Length : Held[i] = firstStep + (i - 1)
      /\ firstStep \in Nat /\ head \in Nat /\ recorded = firstStep + Length
      /\ IF Length = 0 THEN head = 0 /\ recorded = 0 ELSE head < Length
      /\ (Held = <<>>) = (Length = 0)
  BY HeldFacts DEF HeldInv
<1>2. HeldInv'
  <2>1. HistoryInv'
    BY PushInv
  <2> QED BY <2>1, HeldFacts, PTL
<1>3. /\ Held' \in Seq(Int) /\ Len(Held') = Length' /\ Length' \in Nat
      /\ \A i \in 1..Length' : Held'[i] = firstStep' + (i - 1)
      /\ recorded' = firstStep' + Length'
  BY <1>2 DEF HeldInv
<1>4. size \in Nat /\ k \in 0..Length
  BY HistoryAssumption, DroppedFacts
<1>5. /\ recorded < FrameLimit /\ recorded' = recorded + 1
      /\ firstStep' = firstStep + k
      /\ head' = HeadAfter(IF following THEN Len(Append(frames, recorded)) - start - 1
                           ELSE head, k)
      /\ following' = following
  BY DEF Push, DroppedOf, NewTotals
<1>6. head' = Max({0, (IF following THEN Length ELSE head) - k})
  <2>1. /\ start \in Nat /\ Len(frames) \in Nat /\ frames \in Seq(Nat \cup {Hole})
        /\ recorded \in Nat /\ Length = Len(frames) - start
    BY DEF HistoryInv, TypeOK, Length
  <2>2. Len(Append(frames, recorded)) - start - 1 = Length
    BY <2>1
  <2> QED BY <1>5, <2>2 DEF HeadAfter
<1> HIDE DEF k
<1>7. Length' = Length + 1 - k
  <2>1. Length \in Nat /\ firstStep \in Nat /\ recorded = firstStep + Length
    BY <1>1
  <2>2. Length' \in Nat /\ recorded' = firstStep' + Length'
    BY <1>3
  <2>3. k \in Nat
    BY <1>1, <1>4
  <2>4. recorded' = recorded + 1 /\ firstStep' = firstStep + k
    BY <1>5
  <2>5. (firstStep + k) + Length' = (firstStep + Length) + 1
    BY <2>1, <2>2, <2>4
  <2> QED BY <2>1, <2>2, <2>3, <2>5 DEF Length
<1>8. next = recorded
  BY <1>1
<1>9. w \in Seq(Int) /\ Len(w) = Length + 1 - k
  BY <1>1, <1>4, <1>8
<1>10. \A i \in 1..(Length + 1 - k) : w[i] = firstStep + k + (i - 1)
  <2> TAKE i \in 1..(Length + 1 - k)
  <2>1. k + i \in 1..(Length + 1) /\ Append(Held, next) \in Seq(Int)
        /\ Len(Append(Held, next)) = Length + 1
    BY <1>1, <1>4, <1>8
  <2>2. w[i] = Append(Held, next)[k + i]
    BY <1>1, <1>4, <2>1
  <2>3. CASE k + i = Length + 1
    <3>1. Append(Held, next)[k + i] = recorded
      BY <1>1, <1>8, <2>3
    <3> QED BY <1>1, <1>4, <2>2, <2>3, <3>1
  <2>4. CASE k + i # Length + 1
    <3>1. k + i \in 1..Length
      BY <1>1, <1>4, <2>1, <2>4
    <3>2. Append(Held, next)[k + i] = Held[k + i] /\ Held[k + i] = firstStep + ((k + i) - 1)
      BY <1>1, <1>8, <3>1
    <3> HIDE DEF w, next
    <3> QED BY <1>1, <1>4, <2>2, <3>2
  <2> QED BY <2>3, <2>4
<1> HIDE DEF w, next
<1>11. Held' = w
  <2>1. \A i \in 1..Length' : Held'[i] = w[i]
    BY <1>1, <1>3, <1>4, <1>5, <1>7, <1>10
  <2> QED BY <1>3, <1>7, <1>9, <2>1
<1>12. w[1] = firstStep + k
  BY <1>1, <1>4, <1>10
<1>13. CurrentStep' = IF following THEN next ELSE Max({CurrentStep, w[1]})
  <2>1. CASE following
    <3>1. head' = Length - k
      <4>0. 0 \in Int /\ Length - k \in Int
        BY <1>1, <1>4
      <4>1. Max({0, Length - k}) = IF 0 >= Length - k THEN 0 ELSE Length - k
        BY <4>0, MaxOfTwo, Zenon
      <4> QED BY <1>1, <1>4, <1>6, <2>1, <4>1
    <3>2. CurrentStep' = firstStep' + head'
      BY DEF CurrentStep
    <3>3. /\ firstStep \in Nat /\ Length \in Nat /\ k \in Nat
          /\ firstStep' = firstStep + k /\ recorded = firstStep + Length
      BY <1>1, <1>4, <1>5
    <3>4. CurrentStep' = recorded
      BY <3>1, <3>2, <3>3
    <3> QED BY <1>8, <2>1, <3>4
  <2>2. CASE ~ following
    <3>1. head' = IF 0 >= head - k THEN 0 ELSE head - k
      <4>0. 0 \in Int /\ head - k \in Int
        BY <1>1, <1>4
      <4>1. Max({0, head - k}) = IF 0 >= head - k THEN 0 ELSE head - k
        BY <4>0, MaxOfTwo, Zenon
      <4> QED BY <1>6, <2>2, <4>1
    <3>2. Max({CurrentStep, w[1]}) = IF CurrentStep >= w[1] THEN CurrentStep ELSE w[1]
      <4>1. CurrentStep \in Int /\ w[1] \in Int
        BY <1>1, <1>4, <1>12 DEF CurrentStep
      <4> QED BY <4>1, MaxOfTwo, Zenon
    <3> QED BY <1>1, <1>4, <1>5, <1>12, <2>2, <3>1, <3>2 DEF CurrentStep
  <2> QED BY <2>1, <2>2
<1>14. next < FrameLimit
  BY <1>5, <1>8
<1>15. \E gone \in 0..Len(Held) :
          LET nxt == IF Held = <<>> THEN 0 ELSE Held[Len(Held)] + 1
              win == SubSeq(Append(Held, nxt), gone + 1, Len(Held) + 1)
          IN  /\ nxt < FrameLimit
              /\ Held' = win
              /\ CurrentStep' = IF following THEN nxt ELSE Max({CurrentStep, win[1]})
              /\ UNCHANGED following
  <2>1. k \in 0..Len(Held)
    BY <1>1, <1>4
  <2> QED BY <2>1, <1>5, <1>11, <1>13, <1>14 DEF next, w
<1> QED BY <1>15 DEF Held, Window!WindowRecord, Window!Extended, Window!Newest, Window!Max, Max

(* The reader's moves are the window's.                                     *)
LEMMA MovesRefine ==
  ASSUME HistoryInv,
         (\E i \in -1..Length : Seek(i)) \/ Back \/ Forward
  PROVE  Window!WindowSeek \/ Window!WindowBack \/ Window!WindowForward
<1>1. /\ Len(Held) = Length /\ Length \in Nat
      /\ \A i \in 1..Length : Held[i] = firstStep + (i - 1)
      /\ firstStep \in Nat /\ head \in Nat
      /\ IF Length = 0 THEN head = 0 /\ recorded = 0 ELSE head < Length
      /\ (Held = <<>>) = (Length = 0)
  BY HeldFacts DEF HeldInv
<1>2. Held' = Held /\ firstStep' = firstStep
  <2>1. \E i : MoveTo(i)
    BY Zenon DEF Seek, Back, Forward
  <2>2. frames' = frames /\ start' = start /\ firstStep' = firstStep
    BY <2>1, Zenon DEF MoveTo
  <2> QED BY <2>2 DEF Held
<1>3. CurrentStep' = firstStep + head' /\ CurrentStep = firstStep + head
  BY <1>2 DEF CurrentStep
<1>4. Length > 0 => /\ Held[1] = firstStep
                    /\ Held[Len(Held)] = firstStep + (Length - 1)
  BY <1>1
<1>5. ASSUME NEW i \in -1..Length, Seek(i) PROVE Window!WindowSeek
  <2>1. Length > 0
    BY <1>5 DEF Seek
  <2>2. head' \in 0..(Length - 1) /\ following' = (head' = Length - 1)
    BY <1>5, SeekInv
  <2>3. /\ CurrentStep' \in Held[1]..Held[Len(Held)]
        /\ (head' = Length - 1) = (CurrentStep' = Held[Len(Held)])
    BY <1>1, <1>3, <1>4, <2>1, <2>2
  <2>4. following' = (CurrentStep' = Held[Len(Held)])
    BY <2>2, <2>3, Zenon
  <2>5. Held # <<>>
    BY <1>1, <2>1
  <2> QED BY <1>2, <2>3, <2>4, <2>5
          DEF Held, Window!WindowSeek, Window!Oldest, Window!Newest
<1>6. CASE Back
  <2>1. Length > 0 /\ following' = FALSE /\ head' = IF head <= 0 THEN head ELSE head - 1
    BY <1>6, BackInv
  <2>2. Held # <<>>
    BY <1>1, <2>1
  <2>3. CurrentStep' = Max({Held[1], CurrentStep - 1})
    <3>1. Held[1] \in Int /\ CurrentStep - 1 \in Int
      BY <1>1, <1>3, <1>4, <2>1
    <3>2. Max({Held[1], CurrentStep - 1}) =
             IF Held[1] >= CurrentStep - 1 THEN Held[1] ELSE CurrentStep - 1
      BY <3>1, MaxOfTwo, Zenon
    <3> QED BY <1>1, <1>3, <1>4, <2>1, <3>2
  <2> QED BY <1>2, <2>1, <2>2, <2>3
          DEF Held, Window!WindowBack, Window!Oldest, Window!Max, Max
<1>7. CASE Forward
  <2>1. /\ Length > 0
        /\ head' = IF head >= Length - 1 THEN head ELSE head + 1
        /\ following' = (head' = Length - 1)
    BY <1>7, ForwardInv
  <2>2. Held # <<>>
    BY <1>1, <2>1
  <2>3. CurrentStep' = Min({Held[Len(Held)], CurrentStep + 1})
    <3>1. Held[Len(Held)] \in Int /\ CurrentStep + 1 \in Int
      BY <1>1, <1>3, <1>4, <2>1
    <3>2. Min({Held[Len(Held)], CurrentStep + 1}) =
             IF Held[Len(Held)] <= CurrentStep + 1 THEN Held[Len(Held)] ELSE CurrentStep + 1
      BY <3>1, MinOfTwo, Zenon
    <3> QED BY <1>1, <1>3, <1>4, <2>1, <3>2
  <2>4. (head' = Length - 1) = (CurrentStep' = Held[Len(Held)])
    BY <1>1, <1>3, <1>4, <2>1
  <2>5. following' = (CurrentStep' = Held[Len(Held)])
    BY <2>1, <2>4, Zenon
  <2> QED BY <1>2, <2>2, <2>3, <2>5
          DEF Held, Window!WindowForward, Window!Newest, Window!Min, Min
<1> QED BY <1>5, <1>6, <1>7

(* The ring is a window on the recording: every push, seek and reset is the *)
(* one the pane was promised, for every budget and every choice of sizes.   *)
THEOREM RingImplementsWindow == Spec => WindowSpec
<1>1. Init => Window!WindowInit
  <2> SUFFICES ASSUME Init PROVE Window!WindowInit
    OBVIOUS
  <2>1. SubSeq(frames, start + 1, Len(frames)) = <<>> /\ CurrentStep = 0
    BY DEF Init, CurrentStep
  <2> QED BY <2>1 DEF Init, Window!WindowInit
<1>2. HistoryInv /\ [Next]_vars => [Window!WindowNext]_(Window!fwVars)
  <2> SUFFICES ASSUME HistoryInv, [Next]_vars
               PROVE  [Window!WindowNext]_(Window!fwVars)
    OBVIOUS
  <2>1. ASSUME NEW size \in Sizes, Push(size) PROVE Window!WindowNext
    BY <2>1, PushRefines DEF Window!WindowNext
  <2>2. CASE (\E i \in -1..Length : Seek(i)) \/ Back \/ Forward
    BY <2>2, MovesRefine DEF Window!WindowNext
  <2>3. CASE Clear
    <3>1. SubSeq(frames', start' + 1, Len(frames')) = <<>> /\ CurrentStep' = 0
      BY <2>3 DEF Clear, CurrentStep
    <3> QED BY <2>3, <3>1 DEF Clear, Window!WindowClear, Window!WindowNext
  <2>4. CASE UNCHANGED vars
    BY <2>4 DEF vars, Window!fwVars, CurrentStep
  <2> QED BY <2>1, <2>2, <2>3, <2>4 DEF Next
<1> QED BY <1>1, <1>2, HistoryIsSafe, PTL DEF Spec, WindowSpec, Window!WindowSpec
=============================================================================
