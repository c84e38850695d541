--------------------------- MODULE SessionRuntime ---------------------------
(***************************************************************************)
(* A session's page and worker together, over the two message queues that   *)
(* join them, and what makes them correct: whatever the user edits,         *)
(* continues and restarts while recordings, replies and requests cross,     *)
(* every ring shows one recording of the newest build without a gap, no     *)
(* known value is taken back, and what was asked for is answered.           *)
(***************************************************************************)
EXTENDS SessionWorker, SessionPage

vars == <<channels, workerVars, pageVars>>

Init ==
    /\ toWorker = <<>> /\ toPage = <<>>
    /\ WorkerInit
    /\ PageInit

WorkerStep == WorkerNext /\ UNCHANGED pageVars
PageStep == PageNext /\ UNCHANGED workerVars

Next == WorkerStep \/ PageStep

(* The threads run and messages arrive; the user need not do anything.  The *)
(* event loop serves messages and each yielded loop in turn.                *)
Fairness ==
    /\ WF_vars(Instantiated /\ UNCHANGED pageVars)
    /\ WF_vars(Receive /\ UNCHANGED pageVars)
    /\ WF_vars(Continue /\ UNCHANGED pageVars)
    /\ WF_vars(RunValue /\ UNCHANGED pageVars)
    /\ \A l \in Legs : WF_vars(ResumeRecord(l) /\ UNCHANGED pageVars)
    /\ WF_vars(Deliver /\ UNCHANGED workerVars)
    /\ WF_vars(TimerFires /\ UNCHANGED workerVars)

Spec == Init /\ [][Next]_vars
FairSpec == Spec /\ Fairness

-----------------------------------------------------------------------------
(* The types of the variables.                                              *)
CallType == [by : {"run", "extend", "rewind", "value"}, gen : 1..MaxGen,
             leg : Legs, epoch : 0..MaxEpoch]
CursorType == [pos : Nat, cap : Nat, lap : 0..MaxEpoch,
               status : {"Running", "capped"} \cup LegEnds]
PartType == [value : {"no-part", None, Unfinished, Decided}, lap : 0..MaxEpoch,
             filling : BOOLEAN]
FrameType == [gen : 1..MaxGen, lap : 0..MaxEpoch, step : Nat]
DoneType == {NotDone, "budget", "capped"} \cup LegEnds

TypeOK ==
    /\ ready \in BOOLEAN /\ latest \in 0..MaxGen
    /\ waiting \in Seq(1..MaxGen)
    /\ \/ live = NoLive
       \/ /\ live.gen \in 1..MaxGen
          /\ live.prog \in Programs \ {NoSession} /\ live.chunks \in Nat
          /\ live.cursor \in [Legs -> CursorType]
    /\ handles \subseteq 1..MaxGen
    /\ recorded \in [Legs -> Nat] /\ allowance \in [Legs -> Nat]
    /\ recording \in [Legs -> BOOLEAN] /\ epoch \in [Legs -> 0..MaxEpoch]
    /\ posted \in [Legs -> PartType] /\ rewoundFrom \in [Legs -> PartType]
    /\ suspended \in Seq(CallType)
    /\ running = Idle \/ running \in
          [pc : {"record", "after", "value"}, call : CallType, ran : BOOLEAN]
    /\ throws \in 0..MaxThrows
    /\ gen \in 0..MaxGen /\ timer \in 0..MaxGen
    /\ awaitingRun \in BOOLEAN /\ results \in {"idle", "running"}
    /\ ring \in [Legs -> [frames : Seq(FrameType), first : Nat]]
    /\ done \in [Legs -> DoneType] /\ available \in [Legs -> BOOLEAN]
    /\ legEpoch \in [Legs -> 0..MaxEpoch] /\ legGen \in [Legs -> 0..MaxGen]
    /\ continues \in [Legs -> 0..MaxContinues]
    /\ readout \in [gen : 0..MaxGen, value : [Legs -> {None, Unfinished, Decided}]]
    /\ reported \in BOOLEAN

-----------------------------------------------------------------------------
(* The loops that would step leg l's cursor if the event loop woke them.    *)
InFlight(l) ==
    {i \in DOMAIN suspended :
        /\ suspended[i].by # "value"
        /\ Owns(suspended[i].gen)
        /\ suspended[i].leg = l /\ suspended[i].epoch = epoch[l]}

(* At most one loop steps a cursor, and `recording' is raised exactly while *)
(* there is one: a flag left up would turn every later continue away, and a *)
(* flag dropped early would let two loops interleave their frames           *)
(* (record-loop.ts, "only the call that still owns this generation").       *)
OneLoopPerCursor ==
    live # NoLive =>
        \A l \in Legs : Cardinality(InFlight(l)) = IF recording[l] THEN 1 ELSE 0

(* A ring holds consecutive steps of one recording, and the step its oldest *)
(* frame is numbered with is the step it shows.                             *)
RingIsOneRecording ==
    \A l \in Legs :
        LET r == ring[l]
        IN  \A i \in DOMAIN r.frames :
                r.frames[i] = [gen |-> legGen[l], lap |-> r.frames[1].lap,
                               step |-> r.first + i - 1]

(* While the newest build's replies arrive, no frame of another generation  *)
(* is in a ring of the source session.                                      *)
NoForeignFrames ==
    Kind = "session" /\ ~awaitingRun =>
        \A l \in Legs : ring[l].frames # <<>> => legGen[l] = gen

(* A recording nobody continued keeps its first step: the worker stops at   *)
(* what the ring holds (protocol.ts, HISTORY_BYTES is both).                *)
FirstFillKeepsStepZero ==
    \A l \in Legs : Evicted(l) => continues[l] > 0

(* No result reports a leg as a rewind's fill happened to stand.            *)
NoMidFillReading ==
    \A l \in Legs : ~posted[l].filling

(* Two requests the comments call unreachable: an extend of an epoch its    *)
(* leg is not at, and a rewind to an epoch no newer than the leg's          *)
(* (session-worker.ts, onExtend and rewindAndRecord).                       *)
RequestsAreCurrent ==
    toWorker # <<>> /\ Free =>
        LET m == Head(toWorker)
        IN  /\ m.kind = "extend" /\ Owns(m.gen) => m.epoch = epoch[m.leg]
            /\ m.kind = "rewind" /\ Owns(m.gen) =>
                   m.epoch = epoch[m.leg] + 1 /\ Present(m.leg)

(* Every wasm handle that is not live has been freed.                       *)
NoLeakedHandle ==
    handles = IF live = NoLive THEN {} ELSE {live.gen}

(* A call that throws drops what is live only if that is its own            *)
(* generation's or one its build was replacing, never a newer build's       *)
(* (the handler's catch drops whatever is live).                            *)
ErrorSparesNewer ==
    [][throws' > throws /\ live # NoLive => Last(toPage').gen >= live.gen]_vars

(* A value once known stays known until the text changes.                   *)
DecidedStays ==
    [][\A l \in Legs :
          readout'.gen = readout.gen /\ IsDecided(readout.value[l])
              => IsDecided(readout'.value[l])]_vars

(* The worker has nothing to do and nothing is on its way.                  *)
Quiet == /\ toWorker = <<>> /\ toPage = <<>> /\ timer = 0
         /\ ready /\ running = Idle /\ suspended = <<>> /\ waiting = <<>>

(* The step readout's `still recording' (controls.ts, `recording').         *)
ShowsRecording(l) ==
    /\ available[l] /\ done[l] = NotDone /\ ~awaitingRun
    /\ ring[l].frames # <<>> \/ legEpoch[l] > 0

(* `recording' is "whether frames are still arriving" (controls.ts:43): it  *)
(* is not shown when none can arrive any more.                              *)
RecordingShownIsTrue == Quiet => \A l \in Legs : ~ShowsRecording(l)

-----------------------------------------------------------------------------
(* The newest edit is answered: the controls come back, and the results     *)
(* panel settles.                                                           *)
EditAnswered == awaitingRun ~> ~awaitingRun
ResultsSettle == results = "running" ~> results = "idle"

(* A leg that is being recorded, at first or after a restart, says in the   *)
(* end why its recording stopped.                                           *)
FillEnds ==
    \A l \in Legs :
        available[l] /\ done[l] = NotDone ~> done[l] # NotDone \/ ~available[l]

(* A TM copy's value run reports to its end.                                *)
ValueSettles ==
    \A l \in Legs : readout.value[l] = Unfinished ~> readout.value[l] # Unfinished
=============================================================================
