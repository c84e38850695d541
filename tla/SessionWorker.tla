---------------------------- MODULE SessionWorker ----------------------------
(***************************************************************************)
(* The session worker, web/src/session-worker.ts, with the record loop it   *)
(* runs, web/src/record-loop.ts.                                            *)
(*                                                                         *)
(* The thread runs one macrotask at a time: a request's handler, or the     *)
(* continuation of a loop that yielded.  `running' is the call that holds   *)
(* the thread and where it stands in its code; `suspended' are the calls    *)
(* that yielded, which the event loop may resume in any order and between   *)
(* any two requests.                                                        *)
(*                                                                         *)
(* A cursor is its position in a run of known length, its cap and its       *)
(* status.  `lap' counts the rewinds a cursor took, so a frame names the    *)
(* recording it really belongs to, whatever the books say.                  *)
(***************************************************************************)
EXTENDS SessionProtocol

CONSTANT MaxThrows       \* bound: wasm calls that throw

ASSUME ThrowsAssumption == MaxThrows \in Nat

VARIABLES ready,         \* has the wasm module been instantiated?
          waiting,       \* builds received before it was, oldest first
          latest,        \* generation of the newest build received
          live,          \* what is live: its generation, program, cursors
          handles,       \* generations whose wasm handle is not freed
          recorded, allowance, recording, epoch,    \* the books, by leg
          posted, rewoundFrom,                      \* parts kept, by leg
          suspended,     \* calls that yielded
          running,       \* the call that holds the thread, or Idle
          throws         \* wasm calls that have thrown

books == <<recorded, allowance, recording, epoch>>
parts == <<posted, rewoundFrom>>
workerVars == <<ready, waiting, latest, live, handles, books, parts,
                suspended, running, throws>>

NoLive == [gen |-> 0]
Idle == [pc |-> "idle"]

(* A call of recordLeg or runValueLoop: which request it serves, for which  *)
(* generation and leg, and the epoch it captured.                           *)
Call(by, g, l, e) == [by |-> by, gen |-> g, leg |-> l, epoch |-> e]
AtRecord(c) == [pc |-> "record", call |-> c, ran |-> FALSE]
AtAfter(c, ran) == [pc |-> "after", call |-> c, ran |-> ran]
AtValue(c) == [pc |-> "value", call |-> c, ran |-> FALSE]

WorkerInit ==
    /\ ready = FALSE /\ waiting = <<>> /\ latest = 0
    /\ live = NoLive /\ handles = {}
    /\ recorded = [l \in Legs |-> 0] /\ allowance = [l \in Legs |-> History]
    /\ recording = [l \in Legs |-> FALSE] /\ epoch = [l \in Legs |-> 0]
    /\ posted = [l \in Legs |-> NoPart] /\ rewoundFrom = [l \in Legs |-> NoPart]
    /\ suspended = <<>> /\ running = Idle
    /\ throws = 0

Post(r) == toPage' = Append(toPage, r)
\* Mutant: anything live will do.
OwnsAny(g) == live # NoLive
Owns(g) == live # NoLive /\ live.gen = g
Present(l) == live.prog.leg[l] # Absent
Holds(g, l) == Owns(g) /\ Present(l)      \* the leg is there to be recorded

-----------------------------------------------------------------------------
(* Cursors.  A lambda cursor meets its cap before it looks for a redex, a   *)
(* TM stands on its accepting state before it meets its cap, and an rxm     *)
(* halts in its last step: only lambda and a refused rxm need a further     *)
(* attempt to learn that the run is over.                                   *)
OpenCursor(lap) == [pos |-> 0, cap |-> InitialCap, status |-> "Running", lap |-> lap]

RunLength(l) == live.prog.leg[l].len
RunEnd(l) == live.prog.leg[l].end

(* Steps the cursor can take before it stops.                               *)
Reach(l) ==
    LET c == live.cursor[l]
    IN  IF c.status # "Running" THEN 0
        ELSE Min({RunLength(l), c.cap}) - c.pos

(* The status a step attempt latches at a position where no step is taken.  *)
StopStatus(l, pos) ==
    LET capped == pos >= live.cursor[l].cap
        over   == pos = RunLength(l)
    IN  IF l = "tm" /\ over THEN RunEnd(l)
        ELSE IF capped THEN "capped" ELSE RunEnd(l)

HaltsInStep(l, pos) == l = "rxm" /\ RunEnd(l) = "ended" /\ pos = RunLength(l)

(* The cursor n steps on; `tried' when a further step was attempted.        *)
Advanced(l, n, tried) ==
    LET c == live.cursor[l]
        p == c.pos + n
    IN  [c EXCEPT !.pos = p,
                  !.status = IF c.status # "Running" THEN c.status
                             ELSE IF n > 0 /\ HaltsInStep(l, p) THEN "ended"
                             ELSE IF tried THEN StopStatus(l, p) ELSE "Running"]

(* A raised cap resumes a run the step cap stopped, and no other.           *)
Raised(c) == [c EXCEPT !.cap = @ + ExtendSteps, !.status = "Running"]

(* A build runs TM and rxm to their end under the cap a cursor opens with:  *)
(* the value it learns is known before the cursor takes a step.             *)
KnownFromBuild(p, l) ==
    /\ l # "lambda"
    /\ p.leg[l] # Absent
    /\ p.leg[l].end = "ended" /\ p.leg[l].len <= InitialCap

(* A fill begun by a rewind, of the epoch the leg is at, still in flight.   *)
Refilling(l) ==
    \E i \in DOMAIN suspended :
        suspended[i] = Call("rewind", live.gen, l, epoch[l])

Value(l) ==
    IF ~Present(l) THEN None
    ELSE IF live.cursor[l].status = "ended" \/ KnownFromBuild(live.prog, l) THEN Decided
    ELSE Unfinished

ReadPart(l) == Part(Value(l), IF Present(l) THEN live.cursor[l].lap ELSE 0, Refilling(l))

-----------------------------------------------------------------------------
(* A build: drop what is live, reset the books, compile.                    *)
\* Mutant: the allowance a continue raised is kept.
NewBooksKeepAllowance ==
    /\ recorded' = [l \in Legs |-> 0]
    /\ recording' = [l \in Legs |-> FALSE]
    /\ epoch' = [l \in Legs |-> 0]
    /\ posted' = [l \in Legs |-> NoPart]
    /\ rewoundFrom' = [l \in Legs |-> NoPart]
    /\ UNCHANGED allowance

NewBooks ==
    /\ recorded' = [l \in Legs |-> 0]
    /\ allowance' = [l \in Legs |-> History]
    /\ recording' = [l \in Legs |-> FALSE]
    /\ epoch' = [l \in Legs |-> 0]
    /\ posted' = [l \in Legs |-> NoPart]
    /\ rewoundFrom' = [l \in Legs |-> NoPart]

(* What the page is told of a leg's first status: is the leg there, and     *)
(* what does it read already?                                               *)
CompiledReply(g, p) ==
    [kind |-> "compiled", gen |-> g,
     present |-> [l \in Legs |-> p.leg[l] # Absent],
     value |-> IF Kind # "rxm-scratch" THEN None
               ELSE IF KnownFromBuild(p, "rxm") THEN Decided ELSE Unfinished]

\* What dropLive leaves allocated.  Mutant: it forgets to free.
NotFreed == handles
Dropped == handles \ {live.gen}

Build(g) ==
    /\ NewBooks
    /\ \/ \E p \in Programs :
            /\ UNCHANGED throws
            /\ \/ /\ p = NoSession
                  /\ live' = NoLive /\ handles' = Dropped
                  /\ Post([kind |-> "no-session", gen |-> g])
                  /\ running' = Idle
               \/ /\ p # NoSession /\ latest' # g       \* superseded: freed, silent
                  /\ live' = NoLive /\ handles' = Dropped
                  /\ running' = Idle
                  /\ UNCHANGED toPage
               \/ /\ p # NoSession /\ latest' = g
                  /\ live' = [gen |-> g, prog |-> p, chunks |-> p.chunks,
                              cursor |-> [l \in Legs |-> OpenCursor(0)]]
                  /\ handles' = Dropped \cup {g}
                  /\ Post(CompiledReply(g, p))
                  /\ running' = AtRecord(Call("run", g, FillOrder[1], 0))
       \/ /\ throws < MaxThrows                          \* the compile throws
          /\ throws' = throws + 1
          /\ live' = NoLive /\ handles' = Dropped
          /\ Post([kind |-> "worker-error", gen |-> g])
          /\ running' = Idle
    /\ UNCHANGED suspended

Instantiated ==
    /\ ~ready
    /\ ready' = TRUE
    /\ UNCHANGED <<channels, waiting, latest, live, handles, books, parts,
                   suspended, running, throws>>

(* The builds that waited resume in order, before any other message.        *)
BuildWaiting ==
    /\ ready /\ running = Idle /\ waiting # <<>>
    /\ waiting' = Tail(waiting)
    /\ latest' = latest
    /\ Build(Head(waiting))
    /\ UNCHANGED <<toWorker, ready>>

(* May the event loop hand the thread to a new message or continuation?     *)
Free == running = Idle /\ (ready => waiting = <<>>)

Received(kind) ==
    /\ Free
    /\ toWorker # <<>>
    /\ Head(toWorker).kind = kind
    /\ toWorker' = Tail(toWorker)

ReceiveBuild ==
    /\ Received("build")
    /\ latest' = Head(toWorker).gen
    /\ IF ready
       THEN Build(Head(toWorker).gen) /\ UNCHANGED waiting
       ELSE /\ waiting' = Append(waiting, Head(toWorker).gen)
            /\ UNCHANGED <<toPage, live, handles, books, parts, suspended,
                           running, throws>>
    /\ UNCHANGED ready

-----------------------------------------------------------------------------
(* recordLeg.  One chunk: up to RecordChunk steps, stopped before a step    *)
(* when the allowance is spent, and by a step that is not taken.  `first'   *)
(* puts the frame the cursor stands on at the head of the batch.            *)
\* Mutant: a continue records the frame it starts from again.
FirstAlways(call) == TRUE
First(call) == call.by # "extend"

Frames(l, from, to) ==
    [i \in 1..(to - from + 1) |->
        [gen |-> live.gen, lap |-> live.cursor[l].lap, step |-> from + i - 1]]

Chunk(call, first, others) ==
    LET l    == call.leg
        pos  == live.cursor[l].pos
        had  == recorded[l] + (IF first THEN 1 ELSE 0)
        room == IF allowance[l] > had THEN allowance[l] - had ELSE 0
        n    == Min({RecordChunk, room, Reach(l)})
        over == n < RecordChunk
        c    == Advanced(l, n, over /\ n < room)
        done == IF ~over THEN NotDone
                ELSE IF n = room THEN "budget" ELSE c.status
    IN  /\ live' = [live EXCEPT !.cursor[l] = c]
        /\ recorded' = [recorded EXCEPT ![l] = had + n]
        /\ Post([kind |-> "frames", gen |-> call.gen, leg |-> l, epoch |-> call.epoch,
                 frames |-> Frames(l, IF first THEN pos ELSE pos + 1, pos + n),
                 done |-> done])
        /\ recording' = [recording EXCEPT ![l] = (done = NotDone)]
        /\ running' = IF done = NotDone THEN Idle ELSE AtAfter(call, TRUE)
        /\ suspended' = IF done = NotDone THEN Append(others, call) ELSE others
        /\ UNCHANGED <<allowance, epoch, handles, throws>>

(* A session call throws out of the handler: what is live is dropped.  The  *)
(* books it leaves half written are not read before the next build resets   *)
(* them; a loop clears its flag on the way out.                             *)
Throw(call, others) ==
    /\ throws < MaxThrows
    /\ throws' = throws + 1
    /\ live' = NoLive /\ handles' = Dropped
    /\ recording' = [recording EXCEPT ![call.leg] = FALSE]
    /\ Post([kind |-> "worker-error", gen |-> call.gen])
    /\ running' = Idle
    /\ suspended' = others
    /\ UNCHANGED <<recorded, allowance, epoch>>

(* The call is turned away: a stale generation, a leg that did not compile, *)
(* or a loop for this leg already in flight.                                *)
\* Mutant: two loops may run on one leg.
TurnedAwayNoFlag(call) == ~Holds(call.gen, call.leg)
TurnedAway(call) == ~Holds(call.gen, call.leg) \/ recording[call.leg]

EnterRecord ==
    /\ running.pc = "record"
    /\ LET asked == running.call
           call  == [asked EXCEPT !.epoch = epoch[asked.leg]]
       IN  \/ /\ TurnedAway(call)
              /\ running' = AtAfter(call, FALSE)
              /\ UNCHANGED <<toPage, live, handles, books, suspended, throws>>
           \/ /\ ~TurnedAway(call)
              /\ \/ Chunk(call, First(call), suspended)
                 \/ Throw(call, suspended)
    /\ UNCHANGED <<toWorker, ready, waiting, latest, parts>>

(* A loop wakes: it records on only for the generation and epoch it began,  *)
(* and otherwise returns as one that ran.                                   *)
ResumeRecord(l) ==
    /\ Free
    /\ \E i \in DOMAIN suspended :
         LET call   == suspended[i]
             others == RemoveAt(suspended, i)
         IN  /\ call.by # "value" /\ call.leg = l
             /\ IF Owns(call.gen) /\ epoch[l] = call.epoch
                THEN Chunk(call, FALSE, others) \/ Throw(call, others)
                ELSE /\ suspended' = others
                     /\ running' = AtAfter(call, TRUE)
                     /\ UNCHANGED <<toPage, live, handles, books, throws>>
    /\ UNCHANGED <<toWorker, ready, waiting, latest, parts>>

-----------------------------------------------------------------------------
(* What a request does once its loop returned: `ran' is what recordLeg      *)
(* answered.                                                                *)
Returned(by) ==
    /\ running.pc = "after"
    /\ running.call.by = by
    /\ UNCHANGED <<toWorker, ready, waiting, latest, books>>

(* The reading a result posts, which keeps a leg's last part while it is    *)
(* recorded again and a decided value across a rewind.                      *)
PostResult(g) ==
    LET read == [l \in Legs |-> ReadPart(l)]
        held == IF \E l \in Legs : posted[l] # NoPart THEN posted ELSE rewoundFrom
        new  == KeepDecided(posted, KeepInFlight(held, read, recording))
    IN  /\ posted' = new
        /\ Post([kind |-> "result", gen |-> g, part |-> new])
        /\ UNCHANGED rewoundFrom

(* What is still live answers, or the reading throws.                       *)
Answer(call, Posting) ==
    \/ /\ Posting
       /\ running' = Idle
       /\ UNCHANGED <<live, handles, suspended, throws>>
    \/ /\ throws < MaxThrows
       /\ throws' = throws + 1
       /\ live' = NoLive /\ handles' = Dropped
       /\ Post([kind |-> "worker-error", gen |-> call.gen])
       /\ running' = Idle
       /\ UNCHANGED <<parts, suspended>>

NoAnswer == running' = Idle /\ UNCHANGED <<toPage, live, handles, parts, suspended, throws>>

\* Mutant: a run answers only if its last leg was recorded.
AnswersIfRan(g) == Kind = "session" /\ Owns(g) /\ running.ran
Answers(g) == Kind = "session" /\ Owns(g)

(* A run records its legs one after the other, then answers.                *)
AfterRun ==
    /\ Returned("run")
    /\ LET call == running.call
           at   == CHOOSE i \in DOMAIN FillOrder : FillOrder[i] = call.leg
       IN  IF at < Len(FillOrder)
           THEN /\ running' = AtRecord([call EXCEPT !.leg = FillOrder[at + 1]])
                /\ UNCHANGED <<toPage, live, handles, parts, suspended, throws>>
           ELSE IF Kind = "tm-scratch"
           THEN /\ running' = AtValue([call EXCEPT !.by = "value"])
                /\ UNCHANGED <<toPage, live, handles, parts, suspended, throws>>
           ELSE IF Answers(call.gen)
           THEN Answer(call, PostResult(call.gen))
           ELSE NoAnswer

(* An extend that was turned away posts nothing: the loop in flight, or its *)
(* caller, answers.                                                         *)
AfterExtend ==
    /\ Returned("extend")
    /\ LET call == running.call
       IN  IF ~running.ran \/ ~Owns(call.gen) THEN NoAnswer
           ELSE IF Kind = "rxm-scratch"
           THEN Answer(call, /\ Post([kind |-> "rxm-value", gen |-> call.gen,
                                       value |-> Value("rxm")])
                             /\ UNCHANGED parts)
           ELSE IF Kind = "session" THEN Answer(call, PostResult(call.gen))
           ELSE NoAnswer

AfterRewind == Returned("rewind") /\ NoAnswer

-----------------------------------------------------------------------------
(* A continue: one more allowance from where the recording stopped, and a   *)
(* raised cap if that is what stopped it.                                   *)
ReceiveExtend ==
    /\ Received("extend")
    /\ LET m     == Head(toWorker)
           l     == m.leg
           stale == ~Owns(m.gen) \/ m.epoch # epoch[l]
       IN  \/ stale /\ UNCHANGED <<live, allowance, running>>
           \/ /\ ~stale
              /\ allowance' = [allowance EXCEPT ![l] = recorded[l] + History]
              /\ live' = IF Present(l) /\ live.cursor[l].status = "capped"
                         THEN [live EXCEPT !.cursor[l] = Raised(@)] ELSE live
              /\ running' = AtRecord(Call("extend", m.gen, l, m.epoch))
    /\ UNCHANGED <<toPage, ready, waiting, latest, handles, recorded, recording,
                   epoch, parts, suspended, throws>>

\* A rewind takes the leg over from the loop in flight.  Mutant: it does not.
FlagKept(l) == recording
FlagHandedOver(l) == [recording EXCEPT ![l] = FALSE]

(* A rewind: the books of the leg under a new epoch, its cursor back on     *)
(* step 0, its first fill again.  The loop in flight is left to return.     *)
ReceiveRewind ==
    /\ Received("rewind")
    /\ LET m     == Head(toWorker)
           l     == m.leg
           stale == ~Holds(m.gen, l) \/ m.epoch <= epoch[l]
       IN  \/ stale /\ UNCHANGED <<live, books, parts, running>>
           \/ /\ ~stale
              /\ epoch' = [epoch EXCEPT ![l] = m.epoch]
              /\ recording' = FlagHandedOver(l)
              /\ rewoundFrom' =
                    IF Kind = "session" /\ \A k \in Legs : posted[k] = NoPart
                    THEN [rewoundFrom EXCEPT ![l] = ReadPart(l)] ELSE rewoundFrom
              /\ live' = [live EXCEPT !.cursor[l] = OpenCursor(@.lap + 1)]
              /\ recorded' = [recorded EXCEPT ![l] = 0]
              /\ allowance' = [allowance EXCEPT ![l] = History]
              /\ running' = AtRecord(Call("rewind", m.gen, l, m.epoch))
              /\ UNCHANGED posted
    /\ UNCHANGED <<toPage, ready, waiting, latest, handles, suspended, throws>>

(* The value run of a TM copy: a chunk, its standing, and a yield while it  *)
(* goes on.  A copy without a header has none.                              *)
\* Mutant: the last chunk is not run.
HasMoreValueRun(g) == Owns(g) /\ live.chunks > 1
HasValueRun(g) == Owns(g) /\ live.chunks > 0

ValueChunk(call, others) ==
    \/ /\ ~HasValueRun(call.gen)
       /\ suspended' = others
       /\ running' = Idle
       /\ UNCHANGED <<toPage, live, handles, books, throws>>
    \/ /\ HasValueRun(call.gen)
       /\ live' = [live EXCEPT !.chunks = @ - 1]
       /\ Post([kind |-> "tm-value", gen |-> call.gen,
                value |-> IF live.chunks = 1 THEN Decided ELSE Unfinished])
       /\ suspended' = IF live.chunks = 1 THEN others ELSE Append(others, call)
       /\ running' = Idle
       /\ UNCHANGED <<handles, books, throws>>
    \/ HasValueRun(call.gen) /\ Throw(call, others)

RunValue ==
    /\ \/ running.pc = "value" /\ ValueChunk(running.call, suspended)
       \/ /\ Free
          /\ \E i \in DOMAIN suspended :
               /\ suspended[i].by = "value"
               /\ ValueChunk(suspended[i], RemoveAt(suspended, i))
    /\ UNCHANGED <<toWorker, ready, waiting, latest, parts>>

Receive == ReceiveBuild \/ ReceiveExtend \/ ReceiveRewind

(* The call that holds the thread goes on to its next yield or to its end.  *)
Continue == BuildWaiting \/ EnterRecord \/ AfterRun \/ AfterExtend \/ AfterRewind

WorkerNext ==
    \/ Instantiated
    \/ Receive
    \/ Continue
    \/ \E l \in Legs : ResumeRecord(l)
    \/ RunValue
=============================================================================
