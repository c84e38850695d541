----------------------------- MODULE SessionPage -----------------------------
(***************************************************************************)
(* The page's side of one session: the client that numbers generations and  *)
(* filters replies (web/src/session-client.ts), the debounced compile       *)
(* (compile.ts), the legs a pane draws from (sessions.ts), the handlers of  *)
(* the replies (replies.ts) and the controls that post requests             *)
(* (transport.ts, controls.ts).                                             *)
(*                                                                         *)
(* A leg's ring is the window `History' implements, with every frame        *)
(* weighing one: its frames and the number of the oldest.                   *)
(***************************************************************************)
EXTENDS SessionProtocol

CONSTANTS MaxGen,        \* bound: edits
          MaxEpoch,      \* bound: rewinds of a leg in one generation
          MaxContinues   \* bound: continues of a leg between two clears of its ring

ASSUME BoundsAssumption == {MaxGen, MaxEpoch, MaxContinues} \subseteq Nat

VARIABLES gen,           \* generation of the newest edit
          awaitingRun,   \* has nothing of that generation answered yet?
          timer,         \* the generation the debounce will post, 0 when idle
          results,       \* state of the results panel
          ring, done, available, legEpoch, legGen,   \* by leg
          continues,     \* continues posted since the leg's ring was cleared
          readout,       \* the values on screen and their generation
          reported       \* was the user told that the copy did not build?

legVars == <<ring, done, available, legEpoch, legGen, continues>>
clientVars == <<gen, awaitingRun, timer>>
pageVars == <<clientVars, results, legVars, readout, reported>>

EmptyRing == [frames |-> <<>>, first |-> 0]
NoReadout == [gen |-> 0, value |-> [l \in Legs |-> None]]

PageInit ==
    /\ gen = 0 /\ awaitingRun = FALSE /\ timer = 0
    /\ results = "idle"
    /\ ring = [l \in Legs |-> EmptyRing]
    /\ done = [l \in Legs |-> NotDone]
    /\ available = [l \in Legs |-> FALSE]
    /\ legEpoch = [l \in Legs |-> 0] /\ legGen = [l \in Legs |-> 0]
    /\ continues = [l \in Legs |-> 0]
    /\ readout = NoReadout
    /\ reported = FALSE

Send(m) == toWorker' = Append(toWorker, m)

-----------------------------------------------------------------------------
(* An edit claims its generation at once.  The source session posts it when *)
(* the debounce runs out; a copy's editor debounced before, and posts now.  *)
Edit ==
    /\ gen < MaxGen
    /\ gen' = gen + 1
    /\ awaitingRun' = TRUE
    /\ IF Kind = "session"
       THEN timer' = gen' /\ results' = "running" /\ UNCHANGED toWorker
       ELSE Send(BuildRequest(gen')) /\ UNCHANGED <<timer, results>>
    /\ UNCHANGED <<toPage, legVars, readout, reported>>

TimerFires ==
    /\ timer # 0
    /\ timer' = 0
    /\ IF timer = gen THEN Send(BuildRequest(timer)) ELSE UNCHANGED toWorker
    /\ UNCHANGED <<toPage, gen, awaitingRun, results, legVars, readout, reported>>

\* Mutant: a continue is offered for a build not yet answered.
CanRecordAnything(l) == done[l] \in {"capped", "budget"}
CanRecordFurther(l) == ~awaitingRun /\ done[l] \in {"capped", "budget"}

(* The continue button, or forward from the newest frame.                   *)
PressContinue(l) ==
    /\ available[l] /\ CanRecordFurther(l)
    /\ continues[l] < MaxContinues
    /\ continues' = [continues EXCEPT ![l] = @ + 1]
    /\ Send(ExtendRequest(gen, l, legEpoch[l]))
    /\ UNCHANGED <<toPage, clientVars, results, ring, done, available, legEpoch,
                   legGen, readout, reported>>

Evicted(l) == ring[l].first > 0

(* Back to the first step, where the ring no longer holds it and it is the  *)
(* current generation's: the worker records the leg again.  (A ring that    *)
(* still holds it is only sought, which History models.)                    *)
PressRestart(l) ==
    /\ available[l] /\ ring[l].frames # <<>>
    /\ Evicted(l) /\ legGen[l] = gen
    /\ legEpoch[l] < MaxEpoch
    /\ legEpoch' = [legEpoch EXCEPT ![l] = @ + 1]
    /\ ring' = [ring EXCEPT ![l] = EmptyRing]
    /\ done' = [done EXCEPT ![l] = NotDone]
    /\ continues' = [continues EXCEPT ![l] = 0]
    /\ Send(RewindRequest(gen, l, legEpoch'[l]))
    /\ UNCHANGED <<toPage, clientVars, results, available, legGen, readout, reported>>

-----------------------------------------------------------------------------
(* Replies.  Each handler is given a reply the client let through.          *)
ResetLegs(present) ==
    /\ ring' = [l \in Legs |-> EmptyRing]
    /\ done' = [l \in Legs |-> NotDone]
    /\ legEpoch' = [l \in Legs |-> 0]
    /\ continues' = [l \in Legs |-> 0]
    /\ available' = present
    /\ UNCHANGED legGen

NoLegs == [l \in Legs |-> FALSE]

(* Frames pushed onto a ring: the newest stays, the oldest are forgotten    *)
(* while what lies beside the newest is over the budget.                    *)
\* Mutant: a ring not yet full counts frames it never held.
PushedUnclamped(r, frames) ==
    LET all  == r.frames \o frames
        gone == Max({0, Len(all) - History - 1})
    IN  [frames |-> SubSeq(all, gone + 1, Len(all)),
         first |-> r.first + Len(all) - History - 1]

Pushed(r, frames) ==
    LET all  == r.frames \o frames
        gone == Max({0, Len(all) - History - 1})
    IN  [frames |-> SubSeq(all, gone + 1, Len(all)), first |-> r.first + gone]

\* Frames of a recording the page rewound are late.  Mutant: none are.
NeverLate(r) == FALSE
Late(r) == r.epoch # legEpoch[r.leg]

OnFrames(r) ==
    LET l == r.leg
    IN  IF Late(r) THEN UNCHANGED legVars
        ELSE /\ legGen' = [legGen EXCEPT ![l] = r.gen]
             /\ ring' = [ring EXCEPT ![l] = Pushed(@, r.frames)]
             /\ done' = [done EXCEPT ![l] = r.done]
             /\ UNCHANGED <<available, legEpoch, continues>>

(* A program that does not build takes its legs and its answer away.  A copy *)
(* keeps the frames of the last text that built, and one that never built   *)
(* says so, once.  A TM copy's value run that was still going is forgotten. *)
OnNoSession ==
    IF Kind = "session"
    THEN ResetLegs(NoLegs) /\ readout' = NoReadout /\ UNCHANGED reported
    ELSE /\ IF reported \/ \E l \in Legs : ring[l].frames # <<>>
            THEN UNCHANGED <<legVars, reported>>
            ELSE ResetLegs(NoLegs) /\ reported' = TRUE
         /\ readout' = IF Kind = "tm-scratch" /\ readout.value["tm"] = Unfinished
                       THEN NoReadout ELSE readout

Reading(g, v) == [gen |-> g, value |-> [l \in Legs |-> v]]

OnReply(r) ==
    \/ /\ r.kind = "compiled"
       /\ ResetLegs(r.present)
       /\ readout' = CASE Kind = "rxm-scratch" -> Reading(r.gen, r.value)
                       [] Kind = "tm-scratch" -> NoReadout
                       [] OTHER -> readout
       /\ UNCHANGED <<results, reported>>
    \/ /\ r.kind = "no-session"
       /\ OnNoSession
       /\ results' = "idle"
    \/ /\ r.kind = "worker-error"
       /\ ResetLegs(NoLegs)
       /\ readout' = NoReadout
       /\ results' = "idle"
       /\ UNCHANGED reported
    \/ /\ r.kind = "frames"
       /\ OnFrames(r)
       /\ UNCHANGED <<results, readout, reported>>
    \/ /\ r.kind = "result"
       /\ readout' = [gen |-> r.gen, value |-> [l \in Legs |-> r.part[l].value]]
       /\ results' = "idle"
       /\ UNCHANGED <<legVars, reported>>
    \/ /\ r.kind = "tm-value"
       /\ readout' = Reading(r.gen, r.value)
       /\ UNCHANGED <<results, legVars, reported>>
    \/ /\ r.kind = "rxm-value"
       /\ readout' = LET shown == readout.value["rxm"]
                     IN  IF readout = NoReadout THEN readout
                         ELSE Reading(readout.gen, KeepDecidedPart([value |-> shown],
                                                       [value |-> r.value]).value)
       /\ UNCHANGED <<results, legVars, reported>>

\* Mutant: replies of earlier generations pass.
AcceptsAll(r) == gen # 0
Accepts(r) == gen # 0 /\ r.gen = gen

\* Any reply shows that the newest build was taken up.  Mutant: only success does.
AnswersSuccess(r) == r.kind = "compiled"
AnswersRun(r) == TRUE

(* A reply of any generation but the newest is dropped.                     *)
Deliver ==
    /\ toPage # <<>>
    /\ LET r == Head(toPage)
       IN  IF Accepts(r)
           THEN awaitingRun' = (awaitingRun /\ ~AnswersRun(r)) /\ OnReply(r)
           ELSE UNCHANGED <<awaitingRun, results, legVars, readout, reported>>
    /\ toPage' = Tail(toPage)
    /\ UNCHANGED <<toWorker, gen, timer>>

PageNext ==
    \/ Edit
    \/ TimerFires
    \/ Deliver
    \/ \E l \in Legs : PressContinue(l) \/ PressRestart(l)
=============================================================================
