--------------------------- MODULE SessionProtocol ---------------------------
(***************************************************************************)
(* What the page and its session worker share: the legs of a session, the   *)
(* two message queues between the threads, and the rules both sides apply   *)
(* to a reply (web/src/protocol.ts).                                        *)
(*                                                                         *)
(* One worker serves one session for the session's life.  A session is the  *)
(* program being edited, with up to three legs, or a copy of one machine's  *)
(* text, with that machine's leg only.  Each edit opens a generation.       *)
(***************************************************************************)
EXTENDS Integers, SequencesExt

CONSTANTS Kind,          \* "session", "lambda-scratch", "tm-scratch", "rxm-scratch"
          FillOrder,     \* the session's legs, in the order a run records them
          Programs,      \* what a build may yield: see ProgramAssumption
          History,       \* HISTORY_BYTES, where every frame weighs one
          RecordChunk,   \* RECORD_CHUNK, steps between two yields
          InitialCap,    \* the step cap a cursor is opened with
          ExtendSteps    \* EXTEND_STEPS, what one continue adds to the cap

Legs == ToSet(FillOrder)

NoSession == [leg |-> <<>>, chunks |-> 0]  \* a build that diagnostics stopped
Absent == [len |-> 0, end |-> "absent"]    \* a leg the program has no machine for
LegEnds == {"ended", "depth-refused", "stack-full"}

(* A built program gives each leg the length of its run and how the run     *)
(* ends, and a copy of a TM the chunks its value run takes (0 for none).    *)
LegProgram == [len : Nat, end : LegEnds]

ASSUME ProtocolAssumption ==
    /\ Kind \in {"session", "lambda-scratch", "tm-scratch", "rxm-scratch"}
    /\ FillOrder \in Seq({"lambda", "rxm", "tm"}) /\ FillOrder # <<>>
    /\ \A i, j \in DOMAIN FillOrder : FillOrder[i] = FillOrder[j] => i = j
    /\ Kind = "lambda-scratch" => FillOrder = <<"lambda">>
    /\ Kind = "tm-scratch" => FillOrder = <<"tm">>
    /\ Kind = "rxm-scratch" => FillOrder = <<"rxm">>
    /\ {History, RecordChunk, InitialCap, ExtendSteps} \subseteq Nat \ {0}
    /\ \A p \in Programs \ {NoSession} :
          /\ p.chunks \in Nat
          /\ \A l \in Legs : p.leg[l] \in LegProgram \cup {Absent}

VARIABLES toWorker,      \* requests posted and not yet received, oldest first
          toPage         \* replies posted and not yet delivered

channels == <<toWorker, toPage>>

-----------------------------------------------------------------------------
(* Requests.                                                                *)
BuildRequest(g)     == [kind |-> "build", gen |-> g]
ExtendRequest(g, l, e) == [kind |-> "extend", gen |-> g, leg |-> l, epoch |-> e]
RewindRequest(g, l, e) == [kind |-> "rewind", gen |-> g, leg |-> l, epoch |-> e]

(* Why a recording stopped; NotDone while it goes on (a frames reply's       *)
(* `done', null).                                                           *)
NotDone == "not-done"

(* What a leg answered, as a result carries it.  `lap' and `filling' say    *)
(* which recording of the cursor the part was read from, and whether the    *)
(* fill a rewind began was still running then.                              *)
None == "none"                 \* the value of an absent leg
Unfinished == "Unfinished"
Decided == "decided"
NoPart == [value |-> "no-part", lap |-> 0, filling |-> FALSE]
Part(value, lap, filling) == [value |-> value, lap |-> lap, filling |-> filling]

IsDecided(value) == value \notin {None, Unfinished}

\* Mutant: the newest part, whatever it says.
KeepNextPart(prev, next) == next

KeepDecidedPart(prev, next) ==
    IF IsDecided(prev.value) /\ next.value = Unfinished THEN prev ELSE next

KeepDecided(prev, next) ==
    [l \in Legs |-> IF prev[l] = NoPart THEN next[l]
                    ELSE KeepDecidedPart(prev[l], next[l])]

\* Mutant: every leg is read as it stands.
KeepNone(held, next, recording) == next

KeepInFlight(held, next, recording) ==
    [l \in Legs |-> IF recording[l] /\ held[l] # NoPart THEN held[l] ELSE next[l]]
=============================================================================
