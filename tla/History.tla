------------------------------- MODULE History -------------------------------
(***************************************************************************)
(* The byte-bounded frame ring a pane draws from, web/src/history.ts.       *)
(*                                                                         *)
(* Frames are appended to an array and evicted from its old end by moving   *)
(* `start' past them; the emptied prefix is cut off once it is as long as   *)
(* what is still held.  A frame is the number of the step it was recorded   *)
(* at, so the array says which step a position of the ring really shows.    *)
(* The sizes array is kept as running totals (totals[i] is the size of the  *)
(* first i frames of the array), which gives the size of any stretch of it  *)
(* as a difference.                                                         *)
(***************************************************************************)
EXTENDS Sequences, FiniteSetsExt

CONSTANTS Budget,        \* bytes the ring may hold beside its newest frame
          Sizes,         \* the sizes a frame may have
          FrameLimit     \* bound: frames pushed between two clears

ASSUME HistoryAssumption ==
    /\ Budget \in Nat
    /\ Sizes \subseteq Nat
    /\ FrameLimit \in Nat

VARIABLES frames,        \* the array, with holes where frames were evicted
          totals,        \* running totals of the sizes of `frames'
          start,         \* how many positions of the array are holes
          bytes,         \* total size of the frames held
          firstStep,     \* the step of the oldest frame held
          head,          \* position on screen, counted from the oldest held
          following,     \* does the head move with each push?
          recorded       \* frames pushed since the last clear

vars == <<frames, totals, start, bytes, firstStep, head, following, recorded>>

Hole == -1               \* an array position whose frame was evicted

Length == Len(frames) - start
Evicted == firstStep > 0
CurrentStep == firstStep + head

(* Size of the first i frames of the array.                                 *)
Upto(t, i) == IF i = 0 THEN 0 ELSE t[i]

Init ==
    /\ frames = <<>> /\ totals = <<>>
    /\ start = 0 /\ bytes = 0 /\ firstStep = 0 /\ head = 0
    /\ following = FALSE
    /\ recorded = 0

-----------------------------------------------------------------------------
(* How many of the oldest frames eviction drops: it drops one while what is *)
(* held beside the newest frame is over budget.  fs, ts and held are the    *)
(* array, its totals and the bytes with the new frame already in.           *)
HeldAfter(ts, held, k) == held - (Upto(ts, start + k) - Upto(ts, start))

\* Mutant: `if' for the loop's `while', one frame at most.
DroppedOne(ts, held, newest) ==
    IF HeldAfter(ts, held, 0) - newest > Budget THEN 1 ELSE 0

\* Mutant: the newest frame counts against the budget too.
DroppedWithNewest(ts, held, newest) ==
    CHOOSE k \in 0..(Len(ts) - start) :
        /\ HeldAfter(ts, held, k) <= Budget
        /\ \A j \in 0..(k - 1) : HeldAfter(ts, held, j) > Budget

Dropped(ts, held, newest) ==
    CHOOSE k \in 0..(Len(ts) - start) :
        /\ HeldAfter(ts, held, k) - newest <= Budget
        /\ \A j \in 0..(k - 1) : HeldAfter(ts, held, j) - newest > Budget

(* Cut the holes off once they are as many as the frames held.              *)
\* Mutant: one position late.
MustCutLate(from, n) == from > 0 /\ from > n - from

MustCut(from, n) == from > 0 /\ from >= n - from

CutFrames(fs, from) == SubSeq(fs, from + 1, Len(fs))
CutTotals(ts, from) ==
    [i \in 1..(Len(ts) - from) |-> ts[from + i] - Upto(ts, from)]

\* The head stays on its frame while the window slides, and on the oldest
\* once its own frame is gone.  Mutants: the head keeps its position; it is not held
\* at the oldest.
HeadUnmoved(at, gone) == at
HeadUnclamped(at, gone) == at - gone
HeadAfter(at, gone) == Max({0, at - gone})

Emptied(fs, from) == [i \in 1..Len(fs) |-> IF i <= from THEN Hole ELSE fs[i]]

Push(size) ==
    LET fs   == Append(frames, recorded)
        ts   == Append(totals, Upto(totals, Len(totals)) + size)
        held == bytes + size
        at   == IF following THEN Len(fs) - start - 1 ELSE head
        k    == Dropped(ts, held, size)
        from == start + k
    IN  /\ recorded < FrameLimit
        /\ recorded' = recorded + 1
        /\ bytes' = HeldAfter(ts, held, k)
        /\ firstStep' = firstStep + k
        /\ head' = HeadAfter(at, k)
        /\ IF MustCut(from, Len(fs))
           THEN /\ frames' = CutFrames(Emptied(fs, from), from)
                /\ totals' = CutTotals(ts, from)
                /\ start' = 0
           ELSE /\ frames' = Emptied(fs, from)
                /\ totals' = ts
                /\ start' = from
        /\ UNCHANGED following

MoveTo(i) ==
    /\ head' = i
    /\ UNCHANGED <<frames, totals, start, bytes, firstStep, recorded>>

(* A seek clamps its argument into the ring; on an empty ring it does       *)
(* nothing, so it is no step.                                               *)
\* Mutant: a seek away from the newest frame leaves the reader following.
SeekKeepsFollowing(i) ==
    /\ Length > 0
    /\ MoveTo(Min({Max({i, 0}), Length - 1}))
    /\ UNCHANGED following

Seek(i) ==
    /\ Length > 0
    /\ MoveTo(Min({Max({i, 0}), Length - 1}))
    /\ following' = (head' = Length - 1)

Back ==
    /\ Length > 0
    /\ MoveTo(IF head <= 0 THEN head ELSE head - 1)
    /\ following' = FALSE

(* Forward from the newest frame does not move, but starts to follow.       *)
Forward ==
    \/ /\ head >= Length - 1
       /\ Length > 0
       /\ following' = TRUE
       /\ MoveTo(head)
    \/ /\ head < Length - 1
       /\ MoveTo(head + 1)
       /\ following' = (head' = Length - 1)

\* Mutant: a reset that forgets the flag.
ClearKeepsFollowing ==
    /\ frames' = <<>> /\ totals' = <<>>
    /\ start' = 0 /\ bytes' = 0 /\ firstStep' = 0 /\ head' = 0
    /\ recorded' = 0
    /\ UNCHANGED following

Clear ==
    /\ frames' = <<>> /\ totals' = <<>>
    /\ start' = 0 /\ bytes' = 0 /\ firstStep' = 0 /\ head' = 0
    /\ following' = FALSE
    /\ recorded' = 0

Next ==
    \/ \E size \in Sizes : Push(size)
    \/ \E i \in -1..Length : Seek(i)
    \/ Back
    \/ Forward
    \/ Clear

Spec == Init /\ [][Next]_vars

-----------------------------------------------------------------------------
(* The types of the variables.                                              *)
TypeOK ==
    /\ frames \in Seq(Nat \cup {Hole})
    /\ totals \in Seq(Nat)
    /\ start \in Nat /\ bytes \in Nat /\ firstStep \in Nat /\ head \in Nat
    /\ following \in BOOLEAN
    /\ recorded \in 0..FrameLimit

(* The frame on screen is the frame of the step the position readout names: *)
(* `current' (history.ts) and `currentStep' never disagree, whatever was    *)
(* evicted and cut in between, and `current' is never an emptied position.  *)
ShownIsCurrentStep ==
    Length > 0 => /\ head < Length
                  /\ frames[start + head + 1] = CurrentStep

(* The byte count is the size of the frames held, and everything but the    *)
(* newest frame fits in the budget: a frame larger than the budget is kept  *)
(* alone, and no other excess survives a push.                              *)
WithinBudget ==
    LET end == Len(frames)
    IN  Length > 0 =>
            /\ bytes = Upto(totals, end) - Upto(totals, start)
            /\ Upto(totals, end - 1) - Upto(totals, start) <= Budget

(* Eviction leaves at most as many holes as frames, so the array never      *)
(* costs more than twice what it holds.                                     *)
HolesBounded == start = 0 \/ start < Length

(* A push on a ring that is not over its budget forgets nothing.  The       *)
(* recording worker stops at the same number of bytes, so a first recording *)
(* keeps step 0 (session-worker.ts, HISTORY_BYTES).                         *)
NoNeedlessEviction == [][firstStep' > firstStep => bytes > Budget]_vars

(* A reader following the recording always looks at its newest frame.       *)
FollowerAtNewest == following => Length > 0 /\ head = Length - 1

(* The ring implements the window a pane may rely on.                       *)
Window == INSTANCE FrameWindow
    WITH window    <- SubSeq(frames, start + 1, Len(frames)),
         shown     <- CurrentStep,
         following <- following

WindowSpec == Window!WindowSpec
=============================================================================
