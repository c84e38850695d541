----------------------------- MODULE Reductions -----------------------------
(***************************************************************************)
(* A machine reduced through a list of stages (tm/reduced_file.rs), its    *)
(* image run by the cursor of trace.rs under caps that may be raised.      *)
(* seen is the last configuration of the original the image stood for,     *)
(* read back by the stages' own inverses; it must behave as TextbookTM.    *)
(***************************************************************************)
EXTENDS Machine

CONSTANTS
  Table,      \* what is reduced and run, in a sequence, with what came of it
  MaxRaises   \* raises of one run

VARIABLES
  number,     \* which job, fixed
  img,        \* the cursor on the image
  origins,    \* where the starting cell of each of the image's tapes is
  seen,       \* the original's configuration last seen
  raises      \* raises so far

vars == <<number, img, origins, seen, raises>>

OW == INSTANCE OneWay
ST == INSTANCE SingleTape
TS == INSTANCE TwoSymbol
UT == INSTANCE Universal

\* A job's pads are <<>> when the stage measures them and <<left, right>> when
\* the caller chooses them.

(***************************************************************************)
(* The stages.  A stage's outcome is [why, machine, input, stages]; why is *)
(* "" or the reason it did not build.                                      *)
(***************************************************************************)
Failed(so, why) == [so EXCEPT !.why = why]
Reduced(so, next, input, undo) ==
  IF OW!IsRefusal(next) THEN Failed(so, next.start)
  ELSE [so EXCEPT !.machine = next, !.input = input, !.stages = Append(@, undo)]

\* The blocks the skeleton needs on each side, from a run of the machine.
Pads(m, input, caps) ==
  LET end     == Simulate(m, input, caps)
      origin  == end.origins
      longest == Max({1} \cup {Len(input[i]) : i \in DOMAIN input})
      right   == Max({0} \cup {CellCount(end.c.tapes[i]) - origin[i] : i \in DOMAIN origin})
  IN  [halted |-> end.c.status = "Halted",
       pads   |-> <<Max({0} \cup ToSet(origin)), IF right > longest THEN right - longest ELSE 0>>]

FoldStage(j, so) ==
  LET folded == OW!ToOneWay(so.machine, j.ceiling)
  IN  IF OW!IsRefusal(folded) THEN Failed(so, folded.start)
      ELSE IF ~OW!ZigzagOk(so.input, so.machine.tapes) THEN Failed(so, "layout")
      ELSE Reduced(so, folded, OW!Zigzag(so.input, so.machine.tapes), [kind |-> "Fold"])

SingleTapeStage(j, so) ==
  LET single == ST!ToSingleTape(so.machine, j.ceiling)
      k      == so.machine.tapes
      run    == IF j.pads = <<>> THEN Pads(so.machine, so.input, j.caps)
                ELSE [halted |-> TRUE, pads |-> j.pads]
  IN  IF OW!IsRefusal(single) THEN Failed(so, single.start)
      ELSE IF ST!LayoutCollision(so.machine, so.input) THEN Failed(so, "layout-collision")
      ELSE IF ~run.halted THEN Failed(so, "unverified")
      ELSE Reduced(so, single,
                   <<ST!InterleaveTapes(so.input, k, run.pads[1], run.pads[2])>>,
                   [kind |-> "SingleTape", k |-> k, left |-> run.pads[1]])

TwoSymbolStage(j, so) ==
  LET code == TS!Code(so.machine, so.input)
  IN  Reduced(so, TS!ToTwoSymbol(so.machine, code, j.ceiling), TS!Bitify(so.input, code),
              [kind |-> "TwoSymbol", code |-> code])

\* The universal machine with the original as its guest.
UniversalStage(so) ==
  IF ~UT!EncodeOk(so.machine, so.input) THEN Failed(so, "not-encodable")
  ELSE Reduced(so, UT!UniversalMachine, UT!EncodeGuest(so.machine, so.input),
               [kind |-> "Universal", guest |-> so.machine])

\* The stages in order, stopping at the first that does not build.
Reduce(j) ==
  FoldLeft(LAMBDA so, kind :
             IF so.why # "" THEN so
             ELSE CASE kind = "Fold" -> FoldStage(j, so)
                    [] kind = "SingleTape" -> SingleTapeStage(j, so)
                    [] kind = "TwoSymbol" -> TwoSymbolStage(j, so)
                    [] kind = "Universal" -> UniversalStage(so),
           [why |-> "", machine |-> j.machine, input |-> j.input, stages |-> <<>>],
           j.plan)

\* The machines alone, each stage given what the one before it returned.
Pipeline(j) ==
  FoldLeft(LAMBDA m, kind :
             CASE kind = "Fold" -> OW!ToOneWay(m, j.ceiling)
               [] kind = "SingleTape" -> ST!ToSingleTape(m, j.ceiling)
               [] kind = "TwoSymbol" -> TS!ToTwoSymbol(m, TS!Code(m, <<>>), j.ceiling)
               [] kind = "Universal" -> m,
           j.machine, j.plan)

\* A job with what its stages build.
Row(j) == [job |-> j, image |-> Reduce(j), unchecked |-> Pipeline(j)]
ASSUME RowsAssumption == \A n \in DOMAIN Table : Table[n] = Row(Table[n].job)

ASSUME JobsAssumption ==
  \A n \in DOMAIN Table :
    LET j == Table[n].job
    IN  /\ Valid(j.machine)
        /\ j.caps \in [steps : 0..MaxU64, cells : 0..MaxU64]
        /\ j.amounts \subseteq 0..MaxU64
        /\ j.enough \in Nat

\* What an image is made of has the types of machine.rs.
ASSUME ImagesAssumption ==
  \A n \in DOMAIN Table :
    LET image == Table[n].image
    IN  Typed(image.machine) /\ \A i \in DOMAIN image.input : IsVector(image.input[i])

job == Table[number].job
Image == Table[number].image

TB == INSTANCE TextbookTM WITH machine <- job.machine, input <- job.input, conf <- seen

(***************************************************************************)
(* Reading an image's configuration back, one stage at a time.  A view is  *)
(* [at, ok, state, tapes, origins]: at says that the image stands between  *)
(* two steps of the machine the stage was given, ok that its inverse       *)
(* accepts the tapes.                                                      *)
(***************************************************************************)
NotAt(v) == [v EXCEPT !.at = FALSE]
Unreadable(v) == [v EXCEPT !.ok = FALSE]

UndoFold(v) ==
  IF v.state.at # "pair" THEN NotAt(v)
  ELSE IF \E i \in DOMAIN v.tapes : ~OW!UnzigzagOk(v.tapes[i]) THEN Unreadable(v)
  ELSE LET snaps == [i \in DOMAIN v.tapes |-> OW!Unzigzag(v.tapes[i])]
       IN  [v EXCEPT !.state = v.state.q,
                     !.tapes = [i \in DOMAIN snaps |-> FromSnapshot(snaps[i].cells, snaps[i].head)],
                     !.origins = [i \in DOMAIN snaps |-> snaps[i].origin]]

\* A first candidate's scan starts one cell right of Left.
UndoSingleTape(v, stage) ==
  IF ~ \/ v.state.at = "halt"
       \/ v.state.at = "scan" /\ v.state.c = 1 /\ HeadIndex(v.tapes[1]) <= 1
  THEN NotAt(v)
  ELSE IF ~ST!DeinterleaveOk(v.tapes[1], stage.k) THEN Unreadable(v)
  ELSE LET snaps == ST!Deinterleave(v.tapes[1], stage.k)
       IN  [v EXCEPT !.state = v.state.q,
                     !.tapes = [i \in 1..stage.k |-> FromSnapshot(snaps[i].cells, snaps[i].head)],
                     !.origins = [i \in 1..stage.k |-> stage.left]]

UndoTwoSymbol(v, stage) ==
  IF v.state.at \notin {"enter", "halt"} THEN NotAt(v)
  ELSE IF \E i \in DOMAIN v.tapes : ~TS!UnbitifyOk(v.tapes[i], stage.code) THEN Unreadable(v)
  ELSE LET snaps == [i \in DOMAIN v.tapes |-> TS!Unbitify(v.tapes[i], stage.code)]
       IN  [v EXCEPT !.state = v.state.q,
                     !.tapes = [i \in DOMAIN snaps |-> FromSnapshot(snaps[i].cells, snaps[i].head)],
                     !.origins = [i \in DOMAIN v.origins |-> v.origins[i] \div TS!Bits(stage.code)]]

UndoUniversal(v, stage) ==
  IF ~(v.state = "match" /\ v.tapes[UT!TableTape].head = "^") THEN NotAt(v)
  ELSE IF ~UT!DecodeOk(v.tapes) THEN Unreadable(v)
  ELSE LET snaps == UT!DecodeGuest(v.tapes)
       IN  [v EXCEPT !.state = UT!GuestState(stage.guest, v.tapes),
                     !.tapes = [i \in DOMAIN snaps |-> FromSnapshot(snaps[i].cells, snaps[i].head)],
                     !.origins = [i \in DOMAIN snaps |-> snaps[i].origin]]

Undo(v, stage) ==
  IF ~(v.at /\ v.ok) THEN v
  ELSE CASE stage.kind = "Fold" -> UndoFold(v)
         [] stage.kind = "SingleTape" -> UndoSingleTape(v, stage)
         [] stage.kind = "TwoSymbol" -> UndoTwoSymbol(v, stage)
         [] stage.kind = "Universal" -> UndoUniversal(v, stage)

View(n, c, org) ==
  FoldRight(LAMBDA stage, v : Undo(v, stage), Table[n].image.stages,
            [at |-> TRUE, ok |-> TRUE, state |-> c.cur, tapes |-> c.tapes, origins |-> org])

ConfOf(v) ==
  [state |-> v.state,
   heads |-> [i \in DOMAIN v.tapes |-> HeadIndex(v.tapes[i]) - v.origins[i]],
   marks |-> [i \in DOMAIN v.tapes |-> TB!Marks(Snapshot(v.tapes[i]), v.origins[i])]]

(***************************************************************************)
(* The run.                                                                *)
(***************************************************************************)
Init ==
  \E n \in DOMAIN Table :
    LET j     == Table[n].job
        image == Table[n].image
    IN  /\ number = n
        /\ img = NewCursor(image.machine, image.input, j.caps)
        /\ origins = [i \in 1..image.machine.tapes |-> 0]
        /\ seen = TB!Initially(j.machine, j.input)
    /\ raises = 0

\* One call of the cursor's next.
StepImage ==
  /\ img.status = "Running"
  /\ img' = CursorNext(Image.machine, img)
  /\ origins' = MovedOrigins(origins, img.tapes, img'.tapes)
  /\ seen' = LET v == View(number, img', origins')
              IN  IF v.at /\ v.ok THEN ConfOf(v) ELSE seen
  /\ UNCHANGED <<number, raises>>

\* A continue of the session, at any time, also of a run no cap stopped.
RaiseCaps ==
  /\ raises < MaxRaises
  /\ \E steps \in job.amounts, cells \in job.amounts :
       img' = RaiseCap(Image.machine, img, steps, cells)
  /\ raises' = raises + 1
  /\ UNCHANGED <<number, origins, seen>>

Next == StepImage \/ RaiseCaps

Spec == Init /\ [][Next]_vars

-----------------------------------------------------------------------------
(***************************************************************************)
(* Properties.                                                             *)
(***************************************************************************)
\* Through every stage list, cap and raise, what the image stands for moves as
\* the original's table says and never otherwise: tm/one_way.rs,
\* single_tape.rs, two_symbol.rs, universal.rs and trace.rs against the
\* meaning of tm/machine.rs's rules.
FollowsTheTable == TB!Spec

Overflowed(c) ==
  \E n \in DOMAIN Image.stages :
    /\ Image.stages[n].kind = "SingleTape"
    /\ IF n = Len(Image.stages) THEN c.cur.at = "overflow"
       ELSE c.cur.at = "stuck" /\ c.cur.q.at = "overflow"

\* The blocks of the skeleton, counted from cell 0.
InSkeleton(j, cell) ==
  cell \in (-j.pads[1])..(Max({1} \cup {Len(j.input[i]) : i \in DOMAIN j.input}) - 1 + j.pads[2])

\* Whenever an image is between two of the original's steps, its inverse
\* accepts its tapes: no layout and no marker certificate is broken.  It halts
\* only where the original halts, and accepts exactly when it accepts; a
\* single-tape image stops in overflow only when the original's next step
\* takes a head out of a skeleton its caller chose (single_tape.rs:128,
\* one_way.rs:114).
ReadableAndHaltsTogether ==
  /\ View(number, img, origins).ok
  /\ img.status = "Halted" /\ Image.why = "" =>
       IF Overflowed(img)
       THEN /\ job.pads # <<>>
            /\ ~TB!Halts(job.machine, seen)
            /\ \E i \in DOMAIN seen.heads :
                 ~InSkeleton(job, TB!After(job.machine, seen).heads[i])
       ELSE /\ TB!Halts(job.machine, seen)
            /\ Image.machine.states[img.cur].accept = job.machine.states[seen.state].accept

\* A refusal comes out of the end of a pipeline that does not look for one
\* under the name the first refusing stage gave it, and nothing else looks
\* like a refusal there (tm/reduction.rs:12).
RefusalsSurvive ==
  "Universal" \notin ToSet(job.plan) =>
    LET last == Table[number].unchecked
    IN  IF Image.why \in OW!Refusals THEN OW!IsRefusal(last) /\ last.start = Image.why
        ELSE Image.why = "" => ~OW!IsRefusal(last)

\* A pipeline yields a machine that does what the original does, or a refusal
\* that tells what was in the way; never one that looks like the other.
ImagesOrRefusals == ReadableAndHaltsTogether /\ RefusalsSurvive

\* A run stopped by its caps and raised, however often, ends with the tapes,
\* state and step count of a run with caps it never meets; a run refused for
\* its tape count never ends as halted (trace.rs:352).
RaisedRunsAgree ==
  img.status = "Halted" /\ job.plan = <<>> =>
    LET free == Simulate(job.machine, job.input, [steps |-> job.enough, cells |-> MaxU64]).c
    IN  <<img.cur, img.tapes, img.steps>> = <<free.cur, free.tapes, free.steps>>

StopsAtItsCaps ==
  /\ img.steps <= img.caps.steps
  /\ img.status = "HitCap" /\ img.tapes # <<>> =>
       /\ ~Image.machine.states[img.cur].accept
       /\ img.steps >= img.caps.steps \/ TotalCells(img.tapes) > img.caps.cells

\* The cells are counted before a step, which may pass their cap, by a cell on
\* each tape.
PassesCellsOnce ==
  img.steps > 0 => TotalCells(img.tapes) <= img.caps.cells + Image.machine.tapes

\* A run never takes more steps than its cap allows, and passes its cap of
\* cells by one step at most.  It is reported as capped only at a cap it has
\* really used up and never in an accepting state, also after caps were raised
\* past the largest number (trace.rs:367, 386).
CapsAreTight == StopsAtItsCaps /\ PassesCellsOnce

\* What a scrolling view reads off the two stacks is the part of the whole
\* tape it asked for: Tape::window and Tape::slice against Tape::snapshot.
ViewsAgree ==
  \A i \in DOMAIN img.tapes :
    LET t     == img.tapes[i]
        whole == Snapshot(t)
        head  == HeadIndex(t)
        edges == {0, 1, head, head + 1, head + 2, Len(whole) - 1, Len(whole), Len(whole) + 1}
    IN  /\ \A from \in edges, to \in edges :
             Slice(t, from, to) = SubSeq(whole, from + 1, Min({to, Len(whole)}))
        /\ \A radius \in 0..2 :
             LET w == Window(t, radius)
             IN  /\ w.cells = Slice(t, w.start, head + radius + 1)
                 /\ head - w.start \in 0..radius

\* An image given enough steps gets its original to the end: no sweep, walk or
\* rewind of an image goes on for ever.
Finishes == job.enough <= job.caps.steps => img.status # "HitCap"
=============================================================================
