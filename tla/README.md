# A TLA+ model of redextape

redextape compiles a small language to a λ-term, to a register machine (rxm) and
to a Turing machine, reduces Turing machines to ever plainer ones, down to a
two-symbol tape and to two counters, and shows the runs in a web page. Two things
there are hard to test. One is the runtime around the pure code: a page with one worker
thread per session, and another for its language server, that record, continue,
rewind and replace runs while messages cross, and copies of programs whose editors move between views. The other is that many machines claim
to be one machine: a run and its continued, rewound or rebuilt self; two λ-cursors;
a machine and its image under four reductions; a counter program and its
accelerated run. This project models both, checks them with TLC, and proves what
the provers reach with TLAPS.

## Inventory

| component | state | operations | what is hard, and what makes it correct |
|---|---|---|---|
| Frame ring, `web/src/history.ts` | frames, sizes, start, bytes, first step, head, follow flag | push (evicts, compacts), seek, back, forward, clear | byte budget against frames larger than it; three coordinates of one position. Bounded; the frame shown is the step named; recording moves only a reader who follows it |
| Record loop, `record-loop.ts` | `recorded`, `allowance`, `recording`, `epoch` by leg | recordLeg, with a yield per chunk | interleaved with every request; one loop per cursor, and it always ends |
| Session worker, `session-worker.ts` | what is live (a wasm session or a copy), the books, parts kept for results | run / three copy builds, extend, rewind, value run, result, drop | builds that wait for wasm, are superseded, fail or throw; no foreign frames, no leaked handle, no mixed result |
| Session client, `session-client.ts`, `compile.ts` | generation, awaitingRun, debounce timer | supersede, request, scratch, extend, rewind, reply filter | replies of old generations; every edit is answered |
| Page legs, `sessions.ts`, `replies.ts`, `transport.ts`, `controls.ts` | per leg: ring, done, available, epoch, generation; the results | reply handlers, continue, restart | late frames, retained frames of a copy; a known value stays known |
| Machine cursors, `trace.rs`, `rxm_cursor.rs`, `session.rs` (wasm) | position, cap, latched status | step, raise cap, rewind, value | the status is latched by an attempt; a cap is raised only for a run it stopped |
| Language-server client and worker, `lsp-client.ts`, `lsp-worker.ts`, `redextape-lsp` | the worker in use, ready, queue, pending ids, open documents; the server's documents with their indexes | start, open, change, close, request, dispatch, died, failed; load, answer, publish | a worker that loads late, throws, dies twice, or posts on after it was terminated; the server has the page's documents, an answer is about the text asked about, every question is settled |
| λ back end, `lambda/*.rs`, `trace.rs`, `trace/zipper.rs` | a term with cached depth and free index; a cursor and its checkpoints; a focus in a context of frames | shift, β, reduce_step; step, raise cap, rewind, rebuild at a step; the zipper's search, contraction and resumption | cached numbers under sharing; a search that resumes where a contraction left it; two cursors are one run, in normal order |
| Simulator and reductions, `tm/sim.rs`, `tm/{one_way,single_tape,two_symbol,universal}.rs` | tapes, state, steps, caps | step, raise caps; fold, single tape, two symbols, universal machine; layouts, walks, inverses, refusals | markers and codes in the tape, copies of a tape in blocks, machines refused for size; an image does what the original does |
| Counter machine, `counter/*.rs` | counters; an accelerated run's buffers and tally | compile, expand, literal and accelerated runs, arithmetic on limbs, readback | deferred counting and base changes at word bounds; both runs agree on counters and step counts |
| Scratch copies, `scratch.ts`, `scratch-editor.ts`, `buffers-store.ts` | copies, warm or cold, their workers and texts of record; an editor's document, debounce and format in flight; storage | fork, warm, cool, retire, reinstate, recompile, restore; type, flush, format | the bound on warm workers; late answers, formats and reloads; no text typed is lost, and none comes back over a newer one |
| Playback, drawing, `player.ts`, `draw.ts`, `focus-draw.ts` | playing flag, frame requests | tick, toggle, draw | ticks crossing continues and rewinds; an owed draw happens |
| Shared-link positions, `share-positions.ts` | target steps, continues spent | onReply, stop | bounded continues until the step is reached |
| Editor custody, `editor-custody.ts`, `copy-editor.ts`, parts of `pane-host.ts` | claims, editors held and mounted | claim, hold, drop, reconcile, mount, flush | views that come and go around a build; one editor per copy, of the copy its view shows, and in reach |
| Layout and workspace, `layout.ts`, `panel-stack.ts`, `workspace.ts` | a tree of panes | split, move, close, restore | every pane in one slot |
| λ trees, `lambda-trees.ts` | trees by session | request, store | only the asking generation's |
| Front end, lowerings, Gödel coding, native back end, CLI | mostly none | pure functions | tested by properties in Rust; see "not modelled" |

A session's page and worker share nothing: they exchange messages over two FIFO
queues (`postMessage`). Inside the worker, a handler runs until it awaits; a
record loop or value run that yields is resumed by a message port of its own, so
the order in which yielded loops and new requests get the thread is open. The page
calls into `History` for every frame of an accepted reply, and the worker into the
machine cursors for every frame it records. The language server's client and worker
are a second such pair, which shares nothing with the sessions.

## Modules

### The session runtime

| module | models | state and actions |
|---|---|---|
| `FrameWindow` | what a ring promises a pane (abstract) | the window of steps, the step shown, following; `WindowRecord`, `WindowSeek`, `WindowBack`, `WindowForward`, `WindowClear` |
| `History` | `history.ts` | its private fields; `Push` is push with its eviction loop and compaction, one action each for `seek`, `back`, `forward`, `clear`. The sizes array is kept as running totals; a frame is the number of the step it was recorded at |
| `SessionProtocol` | `protocol.ts` and the queues | requests, programs, `KeepDecided`, `KeepDecidedPart`, `KeepInFlight` |
| `SessionWorker` | `session-worker.ts`, `record-loop.ts`, the cursors of `trace.rs`, `rxm_cursor.rs` and `session.rs` | the worker's globals under their names; `running` is the call that holds the thread, `suspended` the calls that yielded. `ReceiveBuild`, `BuildWaiting`, `EnterRecord`, `ResumeRecord`, `AfterRun`, `AfterExtend`, `AfterRewind`, `ReceiveExtend`, `ReceiveRewind`, `RunValue` are the pieces of the handlers between two awaits |
| `SessionPage` | `session-client.ts`, `compile.ts`, `sessions.ts`, `replies.ts`, `transport.ts`, `controls.ts` | `Edit`, `TimerFires`, `PressContinue`, `PressRestart`, `Deliver` (the filter and one disjunct of `OnReply` per reply) |
| `SessionRuntime` | the composition over the two queues | fairness and all properties |
| `MCSession` | – | programs and legs for TLC |

`Kind` chooses what the session is: the program being edited (`"session"`, up to
three legs) or a copy of one machine's text. One specification covers the four,
as the worker's one listener does.

How the data is abstracted: a program is, for each leg, the length of its run and
how it ends (`Absent` for a leg that does not compile, `NoSession` for text that
does not build). A cursor is position, cap, status, and `lap`, a ghost that
counts its rewinds. A frame is the generation, lap and step it really is, so a
frame stored under a wrong number can be told. In the session modules every frame
weighs one, and `HISTORY_BYTES` is a number of frames: sizes are `History`'s
subject. `filling` in a result's part is a ghost too: was a rewind's fill of that
leg still in flight when the part was read? What the abstract cursor leaves out (the
machines, the cell cap, the checkpoints) is in the modules below.

### The language server

| module | models | state and actions |
|---|---|---|
| `LanguageServer` | `redextape-lsp`: `lib.rs`, `document.rs` | what one message does to the server's documents and what it answers; a pure step, `ServerAfter` and `Outgoing` |
| `LspClient` | `lsp-client.ts`, `lsp-worker.ts` | the client's fields under their names; per thread its state, server, inbox and outbox. `Start`, `OpenDocument`, `ChangeDocument`, `CloseDocument`, `Request`, `Deliver`, `DeliverError` on the page; `Loads`, `LoadFails`, `Receive`, `Throw` on a thread |

A text is the number of the edit that wrote it; indexes, diagnostics and answers are named by
the text they were computed from, so that stale ones can be told. `asked`, `answers`,
`shown` and `notice` record what the page and its user were given. A terminated thread does nothing more, but
what it had posted is delivered: this is where the client's test "is this worker
still mine" earns its place. A throw loses its message, its effect on the server
done or not.

### Scratch copies

| module | models | state and actions |
|---|---|---|
| `ScratchEditor` | `scratch-editor.ts` | one editor: document, debounce, what a format took off it; `Typed`, `Flushed`, `SetText`, `Asking`, `Answered` |
| `ScratchBuffers` | `scratch.ts` | the registry: `Mint`, `Warmed`, `Cool`, `Retire`, `Reinstate`, `Recompile`, `Snapshot` |
| `EditorCustody` | `editor-custody.ts`, the panes' editors, the mounting in `pane-host.ts` | claims and editors: `HomeFor`, `HasEditor`, `MountScratchEditor`, `LetGo`, both passes of `Reconcile` |
| `ScratchCopies` | the gestures of `transport.ts`, `pane-host.ts`, `main.ts` and the answers of `replies.ts` | one action per event: `Fork`, `ForkBlank`, `OpenView`, `CloseView`, `Rebind`, `ShowEditor`, `ApplyLayout`, `Pause`, `Resume`, `ResumeRefused`, `Delete`, `Undo`; `Type`, `DebounceFires`, `AskFormat`, `FormatAnswers`; `Stale`, `BuildLands`, `NoSession`, `WorkerError`; `Reload` |
| `MCCopies` | – | the pages' setups for TLC |

A gesture runs to its end in one event, so the first three modules are operators on
the page as it stands in the middle of one (a record `p`), and an action is their
composition in the handler's order. A text is a number that grows with each text typed or
formatted, so "older" can be said. A worker is the builds it was posted and has not answered,
and the text of the one it holds: a generation is current if it is the last. `meant`
is a ghost, the text a copy's user last saw. A page starts with a `setup`, which never changes:
`setup.cap` is `MAX_WARM_BUFFERS`, and `setup.leg` chooses between the two
policies of the code: a λ view that lets go of its editor sends it into custody, a
machine view destroys it. Tree order is the order of the views' numbers; a view that changes
its leg closes and opens elsewhere; an editor has one format in flight at most; a
notice's *undo* does not expire.

### λ-reduction

| module | models | state and actions |
|---|---|---|
| `LambdaTerm` | `lambda/term.rs` | terms with cached `depth` and `maxfree`, saturating; `Owner` |
| `Substitution` | `lambda/reduce.rs` | `Shift` and the one-walk `Beta` with its early returns on `maxfree` |
| `NormalOrder` | normal-order reduction as a textbook has it (abstract) | bare terms, substitution by definition, one action |
| `LambdaZipper` | `trace/zipper.rs` | `path`, `focus`, the two depth numbers, resume flag; one action per turn of the search: descend, resume sideways, contract, climb, end |
| `LambdaLeg` | `LambdaCursor` and `LambdaCheckpoints` of `trace.rs`, paired as the wasm session does | `Step`, `ZipperStep`, `Raise`, `Rewind`; the zipper runs behind the plain cursor on the same term |
| `MCLambda` | – | the terms for TLC |

Sharing of allocations is left out: a term is a value. The recursion of terms needs
`RECURSIVE` operators, so those are kept out of `LambdaTerm` and `LambdaZipper`,
which are proved about; the zipper takes its contraction as a constant
(`Contract`, given `Beta` for TLC) and holds for every contraction.

### Turing machines and their reductions

| module | models | state and actions |
|---|---|---|
| `Machine` | `tm/machine.rs`, `tm/sim.rs`, the TM cursor of `trace.rs` | tapes as two stacks, rules, `EndOf` (the order of the caps' and states' tests), `CursorNext`, `RaiseCap`; `Course`, a run call by call |
| `TextbookTM` | a Turing machine as a textbook has it (abstract) | state, head positions, marks on unbounded tapes; `Next` applies the table |
| `Reduction` | `tm/reduction.rs` | the refusal's shape, the ceiling on states |
| `OneWay`, `SingleTape`, `TwoSymbol`, `Universal` | the reductions of these names | the image's table, its input's layout, the inverse of the layout, the refusals |
| `Reductions` | `tm/reduced_file.rs`: stages in a list | the image's cursor, `StepImage` and `RaiseCaps`; `seen` is the configuration of the original the image stands for |
| `MCReductions` | – | machines and stage lists for TLC |

A generated state is the record of the parts its name is joined from. `View` undoes
the stages from the last to the first, as the code's inverses do; `seen` moves only when all
inverses stand between two steps of their machine.

### Counter programs

| module | models | state and actions |
|---|---|---|
| `Limbs` | `counter/nat.rs` | numbers as limbs of `WordBits` bits: add, multiply-add, the division by a precomputed reciprocal |
| `CounterProgram` | `counter/program.rs` | macros, their checks, their expansion to increments and decrements |
| `CounterCompile` | `counter/compile.rs` | a machine as macros on two counters per tape, and the readback |
| `CounterRun` | `counter/accel.rs`, the literal run | both runs side by side: `Accelerate` is one macro, `TakeLiteralStep` one instruction; `conf` is the compiled machine's configuration |
| `MCCounters` | – | machines and programs for TLC |

The proofs are in modules of their own: `HistoryProofs`; for the sessions
`SessionProofs` and `SessionRingProofs`, which extends it; `CopiesProofs`, `LspProofs`,
`ReductionProofs` and `ZipperProofs`. `DataLemmas` has what several of them need of sequences and of the naturals.

## Runs

| run | instance | shows |
|---|---|---|
| `history` | budget 4, sizes 0, 1, 3, 6, up to 7 frames between clears | types, byte bound, compaction, step on screen, follow flag, no needless eviction, and that the ring implements `FrameWindow`. Size 6 is over the budget, 0 costs nothing, so eviction drops none, one or all |
| `session_rewinds` | one build of three legs, or of an rxm past its history and cap, 2 rewinds, 2 continues | `OneLoopPerCursor`, `RingIsOneRecording`, `NoMidFillReading`, `DecidedStays` |
| `session_edits` | λ and TM, 2 edits, 1 rewind, 1 continue, 1 throw | types, `NoForeignFrames`, `FirstFillKeepsStepZero`, `RequestsAreCurrent`, `NoLeakedHandle`, `ErrorSparesNewer` |
| `session_liveness` | the same with shorter runs, fair | `EditAnswered`, `ResultsSettle`, `FillEnds` |
| `tm_copy` | a TM copy with a value run of two chunks, fair | `ValueSettles` |
| `lsp_client` | one document, 3 edits, 1 question, 2 throws, fair | the server in use comes to hold the page's documents (`ServerHasDocuments`), an answer is about the text asked about (`AnswersAreCurrent`), what the user was told is so (`NoticesAreTrue`), every question and every diagnostic settles (`EverythingSettles`) |
| `lambda` | all terms of a small size and 15 longer ones, caps 1, 5, 14 | the two cursors, the rewound one and those rebuilt from checkpoints are one run (`OneRun`), the zipper's depth and resumption are sound (`ContextIsSound`), the run is normal order (`FollowsNormalOrder`, a refinement) |
| `reductions` | walking, copying, sticking and endless machines through 1 to 3 stages | the image is readable wherever it should be and halts with the original, or a refusal keeps its name through a pipeline (`ImagesOrRefusals`), does only what the table says (`FollowsTheTable`, a refinement) and gets to the end (`Finishes`); raised runs agree with uncapped ones; a run stops at its caps, passing that of cells by one step at most (`CapsAreTight`); the views cut out of a tape are its snapshot's |
| `counters` | machines compiled, and programs given, with 5-bit words | the accelerated run has the literal run's counters and step counts at every macro (`RunsAgree`); the counters read back as the machine's tapes (`CountersAreTapes`) |
| `copies` | four pages with two views: two machine copies typed into once; one machine copy typed into twice, and one λ copy; two λ copies with one worker; builds fail, throw, and a reload comes anywhere | views show copies that are awake, within the cap, and each copy's one editor is on a view of it and in reach (`EditorsInPlace`); what is typed survives pause, delete, undo and close, and editor, record and worker agree (`TextsAgree`); no older text of record comes back, but for a λ copy's from its second editor, and a reload brings all back (`RecordSurvives`) |
| `two_editors` | a λ copy whose view moves while a build is under way | a disagreement with comments, below |
| `stale_recording` | a λ copy edited into text that does not build | another |

### Bounds, and why they are enough

*Sessions.* `History = 2` with `RecordChunk = 1` is the smallest history a first fill
takes more than one chunk for, so that every fill yields with frames still to
come; one continue then makes the ring evict, which a restart needs. `InitialCap`
3 or 4 with `ExtendSteps` 2 makes runs that end below, at and beyond their cap.
`MaxGen = 2` gives an old and a new build; a third adds only another old one, and
old generations are told from the newest, never from each other. `MaxEpoch = 2`
gives a recording rewound while its own fill after a rewind is in flight.
`MaxContinues` bounds continues between two clears of a ring, `MaxThrows` the
wasm calls that throw. All are guards of user actions or of
throwing, so none cuts a recording short.

*Language server.* `MaxEdits = 3` lets a document be opened, closed and opened
again, or opened by a second editor over the first, with each edit before or after the server is ready and before or after its
death. Documents do not meet except in the order of a replay, so one is enough for
each property. `MaxThrows = 2` is the number of deaths after which the client gives up;
both may come from one worker, which is the case the client's "still mine" test is for.

*λ.* `Level0` to `Level3` are all terms of up to two levels, and the interesting
three-level ones, over two free indices: every way a redex can appear below, above
or beside a contraction. `Curated` adds loops, terms that grow, arithmetic on
numerals, and terms deeper than `MaxTermDepth = 11`. Runs meet caps 1 and 5, and are
raised by 0 and 4 and rewound (`MaxCommands = 2` in any order); with a checkpoint every
3 steps a run has several. `MaxU32 = 60` is beyond every depth a run reaches, so the saturation
of the cached numbers is in the definitions and never taken.

*Reductions.* Each job is a machine, an input, a list of stages and caps. The
machines go left of their origin, work on two tapes, stick and never halt; the jobs
take each of the four reductions and the compositions that stay small enough to run
to their end (the longest takes 1800 steps), skeletons that are too
small, ceilings that are too low, symbols and inputs that collide with markers, caps
of 0 and up that are met and raised by 0, 2 and `MaxU64`, twice (`MaxRaises = 2`).

*Counters.* `WordBits = 5` in place of 64 makes a buffer hold one to four digits, so
that flushes, refills, carries, the second correction of a division and the overflow of
the weights and lows all happen within a few dozen macros. `LiteralBits = 12` in place
of 64 makes literal counters overflow. `MaxMacros` bounds what `compile` emits, as a
cap does in the code.

*Copies.* Two copies and two views are the least for an editor to move from one view to
another, for a claim to be dropped by a view of another copy, and for a copy to be refused
a worker (`setup.cap` 1 or 2 in place of 8). `texts` counts the texts after the first two:
one with two machine copies, two with one, where a second text is typed while a
format of the first is in flight, two with one λ copy, whose two editors can then hold
different texts, none with two λ copies. One reload: a page that was reloaded is
like one that was not. The λ pages have no formats, and the one with two copies no
failures and no reload, which the others have.

`CHECK_DEADLOCK FALSE` in all runs but `history`, `copies` and `two_editors`: a user who has used up the bounds and
threads that have finished may stop, and a machine, a reduction or a program that
has ended does. A ring can always be cleared, and a page laid out.

### Fairness

Only what the event loop gives. Sessions (the liveness runs): weak fairness of the worker
taking the next message, of the call that holds the thread, of each yielded loop
(`ResumeRecord(l)`) and value run, of wasm instantiation, of message delivery and
of the debounce timer. The event loop serves every task source; a yield posts a
message to a port, which the loop will deliver. Language server: weak fairness of
the page's start, of the delivery of messages and error events, and of each
thread's next step. A script that loads or fails to load is one step, so a thread
does not load for ever. The copies have none: their
properties are about what is lost or stale, not about what comes. There is no fairness on the user, and a throw is possible, not fair, and
bounded. The machine models have none: `Finishes` is a safety property about how
a run ends.

### What the runs found

`stale_recording`: an edit to a λ copy that does not build makes the worker drop the copy's
recording, and the page, which keeps the frames of the last text that built,
keeps that leg's `done` with them. If the recording was still in flight, `done` stays null,
and the readout says "still recording" for good, against `controls.ts:44`
("Whether frames are still arriving"). Had it stopped at its budget or cap, the continue button would
be offered in the same situation, and the worker drop the request; `restart` is
guarded against this by its generation check (`transport.ts:281`).

`two_editors`: a view of a λ copy is moved away and back while a build is under way. Its
editor waits in custody; moved back, the view is the copy's home again and mounts
none, because custody has one. The build's answer then mounts a second one in it, and
from then on every sweep throws at the second arrival, against
`editor-custody.ts:116` ("ONE `ScratchEditor` PER SCRATCH", a state made
"unrepresentable rather than policed") and `:317`. Machine copies have no custody and
are not concerned, and so `OneEditor` is a part of `EditorsInPlace` for them only. What
depends on it is restricted likewise: a second editor put into custody pushes
out the first, which nothing flushes any more, so typed text can be lost
(`TypedIsKept`), and a format of one can come back over the other's text; of two
that owe different texts the older may be flushed last, and then replaces the newer as the
text of record, which is why `RecordSurvives` excepts the text of a λ copy's own editors.
Nor does the editor
of a λ copy always show its record (`EditorShowsRecord`): one that waits in custody when
the first build lands keeps the program's text.

A third disagreement is one of wording only. The doc of `seek_resuming` in
`trace/zipper.rs` argues from "no AppL frame ever sits immediately above an AbsBody
frame"; under λx. f a the stack is a binder's frame with an application's on top.
What is true, what its argument needs and what `NoRedexAbove` states is the converse:
no binder's frame immediately above that of an application it is the function of,
that application's own contraction apart.

## Proofs

### The ring

In `HistoryProofs`, for every budget, every set of sizes and every bound on
the number of frames (`HistoryAssumption`, which says only that they are
naturals).

`HistoryInv` is the inductive invariant. The promises alone are not inductive:
that eviction stops needs to know that running totals never fall
(`ArrayInv`), and that the step on screen survives eviction and the cut needs to
know which step every held position is (`StepsInv`). The argument:

1. `DroppedFacts`: the eviction loop is a `CHOOSE` of the least number of frames
   that brings the rest within budget. Dropping all old frames always does, so a
   least one exists (`LeastNat`, from the library's well-foundedness of the
   naturals), it is at most the frames held before the push, and it is 0 on a
   ring within its budget.
2. `PushedArray`: cut or not, the array a push leaves is the same stretch of
   frames with the same differences of totals, shifted.
3. `PushInv`, `SeekInv`, `BackInv`, `ForwardInv`, `ClearInv`: one lemma per
   action, and `NextHistoryInv`.

From it: `TypeCorrect`, `ShownIsAlwaysCurrentStep`, `RingIsBounded`, `HolesStayBounded`,
`FollowerStaysNewest`, `EvictionOnlyOverBudget` (an action property) and
`RingImplementsWindow`, the refinement of `FrameWindow`: `Push` is `WindowRecord`, the
moves are theirs, and the array's holes are invisible. Everything the `history` run
checks is proved.

### Sessions

For every kind of session, set of programs and value of the bounds the assumptions
admit, and for queues of any length. The assumptions are `ProtocolAssumption` (legs
are distinct, a copy has its machine's leg only, the program's numbers are
naturals, the budgets at least one) and `ThrowsAssumption` and `BoundsAssumption`
(the bounds are naturals). TLC evaluates them in every session run.

**What is live**, in `SessionProofs`.

`HandlesAreFreed` (`NoLeakedHandle`). Its invariant adds `LiveShape`, that what is
live has the fields a build gave it, without which an updated record could not
be told from "nothing is live". Every piece of a handler is shown to keep what is
live, drop it, or replace it by a build (`KeepsOrDrops`, `Replaces`).

`ErrorsSpareNewerBuilds` (`ErrorSparesNewer`). The catch of the worker's listener
drops whatever is live, without looking whose it is. That this never costs the user
a newer build has two reasons, and the proof has two halves. A loop, value run or
answer throws only while what is live is its own (`ProceedsTells`: they ask
`owns` after every await). And a build, which drops what it replaces before it can
throw, is never older than what is live: `GenInv` says that builds come in the
order of their generations through both queues they pass, the messages and those
waiting for the wasm module. The order is strict: `Old(g)` is that generation g was
issued and is older than every build still to come, in either queue or in the
debounce. What is live is old, and what is old stays so (`StillOld`), which all later
proofs use. One lemma for each thing a step can do to the queues (`OrderKept`,
`OrderPosted`, `OrderBuilt`, `OrderWaits`, `OrderResumed`), then `PageOrder` and
`NextGen`.

**Calls**, in `SessionProofs` too: `SessionTypes` (`TypeOK`) and `OneLoopSteps`
(`OneLoopPerCursor`), from one inductive invariant, `SessionInv`. Beside the types it
says:

- of every call, suspended or running, and every reply, that its generation is old
  (`CallsOld`, `RepliesOld`), so no later build can have it;
- of a suspended loop of what is live, that its leg is there and its epoch is at most
  its leg's, and at least one if a rewind began it (`LoopsFit`). A loop of an earlier epoch
  can therefore never be taken for a later one;
- of a loop about to start, that its leg's flag is down or its own (`RunningFits`);
- `OneLoop`: of the suspended loops of a leg's epoch there is one exactly if the
  flag is up. It is stated without cardinality; `OneLoopCounted` counts it.

A step of a loop takes one call from the suspended ones and may put it back at the
end (`Removed`, `OthersLeft`, `LoopJoins`); a rewind's new epoch makes every
earlier loop of the leg a foreign one.

**Rings**, in `SessionRingProofs`: `RingsAreRecordings` (`RingIsOneRecording`),
`SourceIsCurrent` (`NoForeignFrames`), `FirstStepsAreKept` (`FirstFillKeepsStepZero`),
`PartsAreSettled` (`NoMidFillReading`) and `RequestsReachTheirLegs`
(`RequestsAreCurrent`), from `SessionInv` and one more invariant, `RingInv`. They
need one another. That a ring never forgets its first step before somebody
continues needs that the worker stops at what a ring holds; that it does needs that no
continue reaches a leg whose first fill still runs; and that none does needs that the
page shows a recording as stopped only after the worker stopped it. The parts:

- `BookInv`: the worker's books and cursors agree. A cursor stands on the last step
  recorded, in the lap its epoch counts; its allowance is more than a ring holds only once its first
  fill is over (`FillOver`); one run goes through the legs in order, and has
  recorded nothing of those to come.
- `RequestsFit`: the continues on their way are of the leg's epoch and come before a
  rewind, of which there is at most one, and both are for legs whose fill is over.
- `ReplyOrder`, `Unheard`: of the newest build nothing comes before its compiled
  reply and nothing after the one that says it has nothing to show; until the first is in, the worker
  has not been asked for anything more.
- `FramesFit`, `Chains`: the frames on their way to a leg go on, reply by reply, where its ring
  ends. A chain is a count of the steps told before each reply: it begins at what the
  ring has, ends at what the worker recorded, and stays within what a ring holds
  while nobody continued. A step moves one end of it (`ChainGrows`, `ChainShifts`) or
  starts it anew (`ChainRestarts`).
- `Sync`: what the page shows of a leg is the worker's epoch, or the next one, just
  asked for, of which nothing was told.
- `Rings`, `ForeignOver`, `PartsFit`: what the properties say, strengthened.

Each step of the worker is one of five shapes (`ProceedsRing`, `ExtendRing`,
`RewindRing`, `BuildsRing`, `WorkerStays`), each of the page one of `EditRing`,
`TimerRing`, `ContinueRing`, `RestartRing` and `DeliverRing`; `NextRing` joins them.
Before it was proved, `RingInv` was checked by TLC as an invariant of the copy
configurations, of `SessionEdits` (635 000 states) and of `SessionRewinds` (515 000).

**Values**, in `SessionRingProofs` too: `KnownValuesStay` (`DecidedStays`), from both
and a third invariant, `ValueInv`. A value comes to the page three ways: in a result of the
source session, in the reports of a TM copy's value run, or with an rxm copy's
build and its later reports. Nothing on the page keeps the first two: whichever
comes last is shown. So the worker must never post one that knows less than an
earlier one, also while a rewind has the cursor start anew and after a throw. The
heart is `KnownStays(l)`:

- of the readings of the newest build on their way, what one knows, those after it know;
- what is on screen for the newest text, they all know;
- and while that build is live, the worker itself keeps what any of them knows
  (`Kept`): the source session in `posted`, a TM copy by having no chunks of its
  run left. So the next reading will know it too.

A step of the worker posts nothing, or one reading that knows exactly what the
step leaves kept (`Says`), and keeps what was kept (`KeepsKnown`); `WorkerValue`
draws the conclusion for all of them. A build forgets, and is why the invariant
needs `Unheard`: the page has heard nothing of it, so nothing it shows is of it
(`ReadoutFits`). An rxm copy posts readings that may know less than the one
before; there the page keeps what it shows (`StaysKnown` in `ReadoutTaken`), and
`ReadingsFit` says that a report always has a value. `ValueRunsFit` and
`KnownPresent` tie value runs to TM copies and known values to legs that are
there. `ValueInv` was checked by TLC first, on the copies and on two instances
of the source session.

With these, every safety property the session runs check is proved.

### Copies

In `CopiesProofs`, for every number of views, copies, texts and workers, from
`CopiesAssumption`, `CustodyAssumption` and `SetupsAssumption` (the bounds are positive,
a page's setup is within them). Every property the `copies` run checks is proved:
`CopiesTypes` (`TypeOK`), `EditorsStayInPlace` (`EditorsInPlace`), `TextsStayAgreed`
(`TextsAgree`) and `RecordsSurvive` (`RecordSurvives`), from one inductive invariant, `IInv`.
It is stated of a page as a record, because most of it must hold in the middle of a
gesture, after every call on the page, and a little of it only between gestures.

- `Registered`: no more workers than the cap, each of a copy that is held; the last
  build posted is of the text of record (of a λ copy perhaps the first build's); a worker
  with nothing to answer holds that text's build or none; views show only what is awake.
- `Seated`: one editor on a view, and in custody one for a copy; a mounted editor
  is of the copy its view shows, or that view has just gone back to the program; of a
  copy's editors only one is on a view of it, and its copy has a home then; a machine
  copy's editor is on a view and the only one.
- `Documented`: what a format took off the debounce is still the document. Of a
  machine copy, an editor that owes has the text its user means, one that owes
  nothing has the record's, and what the user means is recorded or owed.
- Between gestures: no view of the program has an editor (`Resolved`), the claim of
  a copy names the view that has its editor (`AtHome`), a copy on view has an editor in
  reach (`AllReached`), the storage is a snapshot of the page, and what an undo would bring
  back is what was meant (`UndoFits`).

`EditorsInPlace` alone is not inductive. That a machine copy gets no second editor
needs that `HasEditor` finds the first, so that it sits at its home; that
deleting a view's copy loses no text needs that the editor removed owes nothing but its user's
text; and that a reload brings back the record needs that the storage follows every
event.

The argument. A handler is a chain of calls, so each call has one lemma that says what of
the invariant it keeps and how the page after it is related to the page
before: `Along` (calls that hand over what is owed), `Across` (editors that move),
`Onward` (whole steps of a gesture), `Kept` (what is owed and recorded comes from the
page before) and `Aged` (no record gets older). Each relation is closed under
chaining (`AlongChains`, `AcrossChains`, `OnwardChains`, `KeptChains`), and an action's
lemma (one `…Step` for each) puts its chain together. The sweeps visit views or copies in
turn: `InTurn` is a function on the number visited, and `Turns` does its induction once,
over a set of naturals: if each visit leads from one set of pages into the next, the last page is
in the last set. What a visit must know of earlier ones is in that set:
after the claims of some copies are swept those copies' editors are at home, and after the
views up to l are drawn none of them has an editor left over. `IInv` was checked by TLC
as an invariant of the `copies` run first.

### The language client

In `LspProofs`, for every set of documents, every bound, and any number of messages under
way; no assumption is used. Every safety property the `lsp_client` run checks is proved.

`NoticesStayTrue` (`NoticesAreTrue`). Its invariant has four parts beside the
notices themselves. `LifeInv`: a thread is alive exactly if it is the one the
client talks to, and the second is started only by the death of the first.
`PostInv`: a thread that is loading has posted nothing, and one that failed nothing but
its failure, so that a client that is ready has a server that is up. `ErrorInv`: only a worker that threw has error events. `NoticeInv`: which notices go
with which state of the client. The heart is that `Deliver` and `DeliverError` of
a worker other than the one in use change nothing. `OneWorkerAtATime` is read off
`LifeInv`.

`ServerGetsDocuments` (`ServerHasDocuments`) and `AnswersStayCurrent`
(`AnswersAreCurrent`), from that invariant and one more, `TellInv`:

- `ServerInv`: what a worker in service has yet to handle, in the three places it can be
  (waiting for its wasm module, posted, held back by the client until it is ready),
  brings its server to the page's documents, initialised; and each question among it
  gets, when its turn comes, the answer that was due when it was asked (`Brings`,
  `AllRight`). A worker that threw is out of service: it is about to be replaced;
- `OutInv`, `AnswersInv`: every answer posted or taken is the one due to its id,
  and ids are given out once (`NewQuestions`), so a later question changes no
  earlier one's due;
- `FreshInv`: a worker that was not started, or that loads, has handled nothing, and
  one that is up holds nothing back. Without it a load, a restart or the
  queue's release could handle messages out of order or twice.

The argument. `Handled` is a function on the number of messages
handled, and handling two sequences one after the other is handling them joined
(`HandledParts`), by induction on that number. With it each step moves messages
from one of the three places to the next and leaves what they come to as it was:
`Loads` handles all that waited (`BringsLoaded`), ready puts the queue after the inbox
(`BringsReady`), `Receive` handles one message (`BringsTaken`). The editors' actions add one message
at the end, and what it does to the documents is what the page did to its own
(`AfterOpen`, `AfterChange`, `AfterClose`). A restart's replay opens every
document once, in any order (`BringsFresh`): an order is an injection of as many
numbers as there are documents, so by cardinality it leaves none out.

Induction is not stated over an operator, which none of the provers could
instantiate, but over a set of naturals (`AllNaturals` in `DataLemmas`): the set of
the numbers the statement is true of is a value like any other. It holds by the least
number of the complement, from the library's well-foundedness of the naturals.

### Turing machines

In `ReductionProofs`, for every table of jobs the assumptions admit: machines, inputs,
stage lists and caps. They are `JobsAssumption` (a machine has passed `validate`, caps
and raises are numbers of their type), `ImagesAssumption` (rules and inputs are vectors
and moves are one of three, as Rust's types have it) and `RowsAssumption` (a row of
the table is what its job's stages build). TLC evaluates them in the `reductions` run.
Each invariant contains the one before it (`CellsInv` only `ViewInv`).

`ViewsStayExact` (`ViewsAgree`, and `EveryViewAgrees`, which says the same of all
positions and radii where the run samples those around the ends): `CapsInv` says of the
cursor that steps and caps are numbers in their type, and what a capped run has
used up (`StopsAtItsCaps`). `ViewInv` adds `TapesFit`, that every tape is two
sequences and a cell, which a step keeps whatever a rule writes (`SteppedTapes`).
The rest is the arithmetic of a slice: it takes a part of the left stack, maybe the head,
and a reversed part of the right one, and which parts depends on where
it begins and ends (`Slices`; `RightNumbers` is the counting from the other end).

`CapsStayTight` (`CapsAreTight`): that a raise only grows a cap, also at the top of
its type (`SaturatingFacts`), is why what was used up stays within it. The cells are
counted before a step, so the cap of cells does not hold of a run, only the cap and a cell
more for each tape (`PassesCellsOnce`, of a run that took a step: the input itself may
have more). That is `CellsInv`: the sum over the tapes, whatever their number, grows by at most one
for each tape (`CellsGrow`), since a step makes at most one new cell of each
(`AppliedTapes`). The theorem also says how an ending stands: an ended
run keeps its state, tapes and steps, and only a raise takes its ending back, when a
cap was the reason and the run was not refused for its tape count (`EndedRunsStand`).

`RaisedRunsStayTogether` (`RaisedRunsAgree`): `CourseInv` says that the cursor is at every
moment where a run with a cap it never meets was after as many steps (`OnCourse`), so where one
has its table stop it, so does the other. The run it is compared with is itself given `enough`
steps by its job; a cursor raised beyond them goes further than that run, and the theorem
speaks of those that did not. In the `reductions` run
none that halts did, or the property would fail there. For a run that halts `enough` may
be taken as large as it needs: it is any natural of the job.

`PlainRunsFollowTheTable` (`FollowsTheTable`) is the refinement of `TextbookTM` for the
empty stage list: the cursor, with stacks that grow only where a head goes, and an
origin that moves when the left one grows, against tapes infinite both ways.
`SeenInv` says that what is seen is the cursor's state, with each head counted from its
origin and the marks of each tape (`Watched`), unless the run was refused for
its tape count. A move to the left of a tape's first cell shifts all cells of the tape and
its origin by one, so no mark moves (`Shifted`, `WalkedLeft`); one to the right may add a blank,
which is no mark (`WalkedRight`); then one step of the tapes is one step of the marks
(`TapeStep`, `SameSteps`), the rule that fires being the same (`SameMatches`).
`PlainRunsHaltTogether`, from the same invariant, is
`ReadableAndHaltsTogether`, the first half of `ImagesOrRefusals`, for these runs.

### The zipper

In `ZipperProofs`, of `ZipperSpec` alone. `ContextStaysSound` (`ContextIsSound`) holds for every contraction
whatever it makes of a redex, given a set of terms `T` that a contraction does not lead
out of (`Closed(T)`) and that has the starting terms. `IInv` is the
property with the types of the frames, and with where in its search the cursor is:
a push extends what the context accounts for (`PushKeepsSound`), a pop goes back to a
shorter context whose account the frame kept (`PopKeepsSound`), and a binder is
entered only where its parent was just seen not to apply it (`PushKeepsOrder`).
One lemma per action.

### Only model-checked

`RunsAgree` and `CountersAreTapes`. `FollowsTheTable` and `ImagesOrRefusals` of a machine
that went through stages, and `Finishes`: that an image does what its original does takes,
beside what is proved of the tapes, the correctness of each translation for every
machine. `OneRun` and `FollowsNormalOrder`, which compare with terms written by
recursive operators, and those the provers cannot expand. All
liveness: fairness and ENABLED are beyond them too.

## Not modelled, and why

- *Playback, drawing, link positions, layout, panes.*
  The moves a tick makes, and a continue, are in the modules above. What
  is left is timers by wall clock and edits of a layout
  tree that run to their end in one event.
- *Of the copies*: the collapsed flag and a refusal already reported, views parked off the
  screen, copies and workspaces opened from a link, storage that does not parse.
- *λ-tree requests and their store*: read-only for the recording. What a tree of a
  past step is taken from, the rebuilt cursor, is `CursorAt` in `LambdaLeg`.
- *In the session*: a wasm module that fails to instantiate and a `free` that throws
  (the first is reported as any error, the second swallowed); `SessionPool`'s spawn
  and terminate (a session's worker lives as long as the session); the debounce of
  a copy's editor (its edit is the recompile it posts).
- *In λ*: sharing of allocations, `drop`, α-equality, name hints, encoding, printing.
- *In the reductions*: reading and printing machine files, and state names beyond what
  tells states apart.
- *In the counter machine*: the Gödel coding of a program as one number, which is
  beyond what TLC can hold.
- *Front end, defunctionalisation, the lowerings to rxm and TM, the interpreter*:
  sequential translations of whole programs, whose correctness is about what programs
  mean. They are checked in Rust by property tests against each other; a model
  would be a second compiler with inputs too small to say more.
- *The native back end*: compiled code polls the runtime's latched caps; which polls
  it makes is decided by the code generator, and their meaning by LLVM.
- *Command line, tests, grammars, plugin, scripts, docs*: sequential I/O around the above.

## Where to go on

1. Proofs: `FollowsTheTable` for one stage, the folding to a one-way tape first, over the
   refinement proved for none.
2. `ScratchCopies`: views parked by a stage, and the undo of an opened link.
3. The player's ticks and a link's continues over the leg of `SessionPage`.
