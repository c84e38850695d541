---------------------------- MODULE SessionProofs ----------------------------
(***************************************************************************)
(* Proofs about a session's page and worker, for every kind of session,     *)
(* every set of programs, every bound on edits, rewinds, continues and      *)
(* throws, and queues of any length.                                        *)
(*                                                                         *)
(* First the handles and the builds of the page; then the calls of the      *)
(* worker: the types of everything the page and the worker keep and send,   *)
(* and that each cursor is stepped by one loop at a time.                   *)
(***************************************************************************)
EXTENDS SessionRuntime, DataLemmas, FiniteSetTheorems

-----------------------------------------------------------------------------
(* Handles.  What is live has the fields a build gave it, so it is never    *)
(* taken for "nothing is live".                                             *)
LiveFields == {"gen", "prog", "chunks", "cursor"}
LiveShape == live # NoLive => DOMAIN live = LiveFields

HandleInv == NoLeakedHandle /\ LiveShape

(* A step of a cursor or of a value run: what is live stays the build it    *)
(* was, and no handle is made or freed.                                     *)
SameBuild ==
    /\ handles' = handles
    /\ \/ live' = live
       \/ /\ live # NoLive
          /\ DOMAIN live' = DOMAIN live
          /\ live'.gen = live.gen

(* A build that failed or was superseded, or a call that threw.             *)
DropsLive == handles' = Dropped /\ live' = NoLive

(* A build that succeeded takes the place of what was live.                 *)
Replaces(g) ==
    /\ handles' = Dropped \cup {g}
    /\ DOMAIN live' = LiveFields
    /\ live'.gen = g

(* Freeing what is live leaves nothing allocated.                           *)
LEMMA DroppedIsEmpty == HandleInv => Dropped = {}
  BY DEF HandleInv, NoLeakedHandle, Dropped

(* A record with the fields of a live session is not "nothing is live".     *)
LEMMA LiveIsSomething ==
  ASSUME NEW r, DOMAIN r = LiveFields PROVE r # NoLive
<1>1. DOMAIN NoLive = {"gen"}
  BY DEF NoLive
<1>2. "prog" \in LiveFields /\ "prog" \notin {"gen"}
  BY DEF LiveFields
<1> QED BY <1>1, <1>2

(* Each of the three ways a worker step may treat what is live keeps the    *)
(* invariant.                                                               *)
LEMMA HandleStep ==
  ASSUME HandleInv, NEW g, SameBuild \/ DropsLive \/ Replaces(g)
  PROVE  HandleInv'
<1>1. CASE SameBuild
  <2>1. CASE live' = live
    BY <1>1, <2>1 DEF HandleInv, NoLeakedHandle, LiveShape, SameBuild, NoLive
  <2>2. CASE live' # live
    <3>1. /\ live # NoLive /\ handles' = handles
          /\ DOMAIN live' = LiveFields /\ live'.gen = live.gen
      BY <1>1, <2>2 DEF SameBuild, HandleInv, LiveShape
    <3>2. live' # NoLive
      BY <3>1, LiveIsSomething
    <3> QED BY <3>1, <3>2 DEF HandleInv, NoLeakedHandle, LiveShape, NoLive
  <2> QED BY <2>1, <2>2
<1>2. CASE DropsLive
  BY <1>2, DroppedIsEmpty DEF DropsLive, HandleInv, NoLeakedHandle, LiveShape, NoLive
<1>3. CASE Replaces(g)
  <2>1. live' # NoLive
    BY <1>3, LiveIsSomething DEF Replaces
  <2>2. handles' = {live'.gen}
    BY <1>3, DroppedIsEmpty DEF Replaces
  <2> QED BY <1>3, <2>1, <2>2 DEF Replaces, HandleInv, NoLeakedHandle, LiveShape, NoLive
<1> QED BY <1>1, <1>2, <1>3

(* Updating a live session's cursors or its value run keeps the build.      *)
LEMMA CursorUpdated ==
  ASSUME LiveShape, live # NoLive, NEW c, NEW n
  PROVE  /\ DOMAIN [live EXCEPT !.cursor = c] = DOMAIN live
         /\ [live EXCEPT !.cursor = c].gen = live.gen
         /\ DOMAIN [live EXCEPT !.chunks = n] = DOMAIN live
         /\ [live EXCEPT !.chunks = n].gen = live.gen
<1>1. "gen" \in DOMAIN live
  BY DEF LiveShape, LiveFields
<1> QED BY <1>1

-----------------------------------------------------------------------------
(* What each piece of a handler does to what is live: only a build makes    *)
(* something new live, every other piece moves a cursor or drops it.        *)
KeepsOrDrops == SameBuild \/ DropsLive

(* A build drops what was live, and holds what it built if that is new.     *)
LEMMA BuildHandles ==
  ASSUME NEW g, Build(g) PROVE DropsLive \/ Replaces(g)
  BY DEF Build, DropsLive, Replaces, LiveFields

(* A throw drops what is live.                                              *)
LEMMA ThrowHandles ==
  ASSUME NEW call, NEW others, Throw(call, others) PROVE KeepsOrDrops
  BY DEF Throw, DropsLive, KeepsOrDrops

(* A chunk of a recording moves a cursor of what is live.                   *)
LEMMA ChunkHandles ==
  ASSUME LiveShape, live # NoLive, NEW call, NEW first, NEW others,
         Chunk(call, first, others)
  PROVE  KeepsOrDrops
<1>1. PICK c : live' = [live EXCEPT !.cursor = c]
  BY DEF Chunk
<1>2. handles' = handles
  BY DEF Chunk
<1> QED BY <1>1, <1>2, CursorUpdated DEF SameBuild, KeepsOrDrops

(* An answer reads, or throws.                                              *)
LEMMA AnswerHandles ==
  ASSUME NEW call, NEW P, Answer(call, P) PROVE KeepsOrDrops
  BY DEF Answer, SameBuild, DropsLive, KeepsOrDrops

(* A step that leaves what is live alone.                                   *)
LEMMA UntouchedHandles ==
  ASSUME UNCHANGED <<live, handles>> PROVE KeepsOrDrops
  BY DEF SameBuild, KeepsOrDrops

(* A continue raises a cap at most.                                         *)
LEMMA ExtendHandles == LiveShape /\ ReceiveExtend => KeepsOrDrops
<1> SUFFICES ASSUME LiveShape, ReceiveExtend PROVE KeepsOrDrops
  OBVIOUS
<1>1. handles' = handles
  BY DEF ReceiveExtend
<1>2. CASE live' = live
  BY <1>1, <1>2, UntouchedHandles
<1>3. CASE live' # live
  <2>1. live # NoLive
    BY <1>3 DEF ReceiveExtend, Owns
  <2>2. PICK c : live' = [live EXCEPT !.cursor = c]
    BY <1>3 DEF ReceiveExtend
  <2> QED BY <1>1, <2>1, <2>2, CursorUpdated DEF SameBuild, KeepsOrDrops
<1> QED BY <1>2, <1>3

(* A rewind opens one cursor again.                                         *)
LEMMA RewindHandles == LiveShape /\ ReceiveRewind => KeepsOrDrops
<1> SUFFICES ASSUME LiveShape, ReceiveRewind PROVE KeepsOrDrops
  OBVIOUS
<1>1. handles' = handles
  BY DEF ReceiveRewind
<1>2. CASE live' = live
  BY <1>1, <1>2, UntouchedHandles
<1>3. CASE live' # live
  <2>1. live # NoLive
    BY <1>3 DEF ReceiveRewind, Holds, Owns
  <2>2. PICK c : live' = [live EXCEPT !.cursor = c]
    BY <1>3 DEF ReceiveRewind
  <2> QED BY <1>1, <2>1, <2>2, CursorUpdated DEF SameBuild, KeepsOrDrops
<1> QED BY <1>2, <1>3

(* A loop starts: a call turned away, a chunk of what is live, or a throw.  *)
LEMMA EnterHandles == LiveShape /\ EnterRecord => KeepsOrDrops
<1> SUFFICES ASSUME LiveShape, EnterRecord PROVE KeepsOrDrops
  OBVIOUS
<1> DEFINE call == [running.call EXCEPT !.epoch = epoch[running.call.leg]]
<1>1. \/ UNCHANGED <<live, handles>>
      \/ live # NoLive /\ Chunk(call, First(call), suspended)
      \/ Throw(call, suspended)
  BY DEF EnterRecord, TurnedAway, Holds, Owns
<1> QED BY <1>1, UntouchedHandles, ChunkHandles, ThrowHandles

(* A loop that yielded wakes.                                               *)
LEMMA ResumeHandles ==
  ASSUME LiveShape, NEW l \in Legs, ResumeRecord(l) PROVE KeepsOrDrops
<1>1. PICK i \in DOMAIN suspended :
        LET call   == suspended[i]
            others == RemoveAt(suspended, i)
        IN  \/ UNCHANGED <<live, handles>>
            \/ live # NoLive /\ Chunk(call, FALSE, others)
            \/ Throw(call, others)
  BY DEF ResumeRecord, Owns
<1> QED BY <1>1, UntouchedHandles, ChunkHandles, ThrowHandles

(* A request's loop has returned, and it answers.                           *)
LEMMA AfterHandles == AfterRun \/ AfterExtend \/ AfterRewind => KeepsOrDrops
<1>1. ASSUME AfterRun PROVE KeepsOrDrops
  <2>1. \/ UNCHANGED <<live, handles>>
        \/ Answer(running.call, PostResult(running.call.gen))
    BY <1>1 DEF AfterRun, NoAnswer
  <2> QED BY <2>1, UntouchedHandles, AnswerHandles
<1>2. ASSUME AfterExtend PROVE KeepsOrDrops
  <2>1. \/ UNCHANGED <<live, handles>>
        \/ Answer(running.call, PostResult(running.call.gen))
        \/ Answer(running.call,
                  /\ Post([kind |-> "rxm-value", gen |-> running.call.gen,
                           value |-> Value("rxm")])
                  /\ UNCHANGED parts)
    BY <1>2 DEF AfterExtend, NoAnswer
  <2> QED BY <2>1, UntouchedHandles, AnswerHandles
<1>3. ASSUME AfterRewind PROVE KeepsOrDrops
  BY <1>3, UntouchedHandles DEF AfterRewind, NoAnswer
<1> QED BY <1>1, <1>2, <1>3

(* A value run takes a chunk.                                               *)
LEMMA ValueHandles == LiveShape /\ RunValue => KeepsOrDrops
<1> SUFFICES ASSUME LiveShape, RunValue PROVE KeepsOrDrops
  OBVIOUS
<1>1. PICK call, others : ValueChunk(call, others)
  BY DEF RunValue
<1>2. CASE UNCHANGED <<live, handles>>
  BY <1>2, UntouchedHandles
<1>3. CASE HasValueRun(call.gen) /\ Throw(call, others)
  BY <1>3, ThrowHandles
<1>4. CASE /\ HasValueRun(call.gen) /\ handles' = handles
           /\ live' = [live EXCEPT !.chunks = @ - 1]
  <2>1. live # NoLive
    BY <1>4 DEF HasValueRun, Owns
  <2> QED BY <1>4, <2>1, CursorUpdated DEF SameBuild, KeepsOrDrops
<1> QED BY <1>1, <1>2, <1>3, <1>4 DEF ValueChunk

(* The steps that take no message and start no build.                       *)
Proceeds == \/ EnterRecord \/ AfterRun \/ AfterExtend \/ AfterRewind
            \/ RunValue \/ \E l \in Legs : ResumeRecord(l)

(* The steps of the two threads, by what they do to what is live.           *)
LEMMA NextByCases ==
  ASSUME [Next]_vars
  PROVE  \/ ReceiveBuild /\ UNCHANGED pageVars
         \/ (ReceiveExtend \/ ReceiveRewind) /\ UNCHANGED pageVars
         \/ BuildWaiting /\ UNCHANGED pageVars
         \/ Proceeds /\ UNCHANGED pageVars
         \/ Instantiated /\ UNCHANGED pageVars
         \/ PageNext /\ UNCHANGED workerVars
         \/ UNCHANGED vars
  BY DEF Next, WorkerStep, PageStep, WorkerNext, Receive, Continue, Proceeds

(* What is live after a step that starts no build.                          *)
LEMMA ProceedsHandles == LiveShape /\ Proceeds => KeepsOrDrops
  BY EnterHandles, AfterHandles, ValueHandles, ResumeHandles DEF Proceeds

(* No step of either thread leaves a handle behind or frees one in use.     *)
LEMMA NextHandles == HandleInv /\ [Next]_vars => HandleInv'
<1> SUFFICES ASSUME HandleInv, [Next]_vars PROVE HandleInv'
  OBVIOUS
<1>0. LiveShape
  BY DEF HandleInv
<1>1. CASE ReceiveBuild
  <2>1. CASE ready
    <3>1. Build(Head(toWorker).gen)
      BY <1>1, <2>1 DEF ReceiveBuild
    <3> QED BY <3>1, BuildHandles, HandleStep
  <2>2. CASE ~ready
    BY <1>1, <2>2, UntouchedHandles, HandleStep DEF ReceiveBuild, KeepsOrDrops
  <2> QED BY <2>1, <2>2
<1>2. CASE ReceiveExtend \/ ReceiveRewind
  BY <1>0, <1>2, ExtendHandles, RewindHandles, HandleStep DEF KeepsOrDrops
<1>3. CASE BuildWaiting
  <2>1. Build(Head(waiting))
    BY <1>3 DEF BuildWaiting
  <2> QED BY <2>1, BuildHandles, HandleStep
<1>4. CASE Proceeds
  BY <1>0, <1>4, ProceedsHandles, HandleStep DEF KeepsOrDrops
<1>5. CASE Instantiated \/ UNCHANGED workerVars \/ UNCHANGED vars
  <2>1. UNCHANGED <<live, handles>>
    BY <1>5 DEF Instantiated, vars, workerVars
  <2> QED BY <2>1, UntouchedHandles, HandleStep DEF KeepsOrDrops
<1> QED BY <1>1, <1>2, <1>3, <1>4, <1>5, NextByCases

(* Every wasm handle but that of what is live has been freed, whichever way *)
(* builds, throws and replies interleave (session-worker.ts, dropLive).     *)
THEOREM HandlesAreFreed == Spec => []NoLeakedHandle
<1>1. Init => HandleInv
  BY DEF Init, WorkerInit, HandleInv, NoLeakedHandle, LiveShape
<1>2. HandleInv => NoLeakedHandle
  BY DEF HandleInv
<1> QED BY <1>1, <1>2, NextHandles, PTL DEF Spec

-----------------------------------------------------------------------------
(* Builds are taken up in the order of their generations: those that wait   *)
(* for the module are older than those still in the queue, each is older    *)
(* than the next, and one the debounce holds back is the newest edit.       *)
IsBuild(i) == toWorker[i].kind = "build"
Builds == {i \in DOMAIN toWorker : IsBuild(i)}

QueuesAreSeqs == IsSeq(toWorker) /\ IsSeq(waiting)

(* A generation of the page: the newest only once its build is posted.      *)
Issued(g) == g \in Nat /\ g <= gen /\ (timer # 0 => g < gen)

GensAreIssued ==
    /\ gen \in Nat /\ timer \in {0, gen}
    /\ Kind # "session" => timer = 0
    /\ \A i \in DOMAIN waiting : Issued(waiting[i])
    /\ \A i \in Builds : Issued(toWorker[i].gen)

BuildsInOrder ==
    /\ \A i, j \in DOMAIN waiting : i < j => waiting[i] < waiting[j]
    /\ \A i \in DOMAIN waiting, j \in Builds : waiting[i] < toWorker[j].gen
    /\ \A i, j \in Builds : i < j => toWorker[i].gen < toWorker[j].gen

QueueInv == QueuesAreSeqs /\ GensAreIssued /\ BuildsInOrder

(* A generation whose build was taken up: older than every build to come.   *)
Old(g) ==
    /\ Issued(g)
    /\ \A i \in DOMAIN waiting : g < waiting[i]
    /\ \A i \in Builds : g < toWorker[i].gen

(* What was taken up stays so.                                              *)
StillOld == \A g : Old(g) => Old(g)'

(* What is live was taken up.                                               *)
GenInv == QueueInv /\ Old(live.gen) /\ IsSeq(toPage) /\ throws \in Nat

(* What is live stays the same build or is dropped.                         *)
LEMMA KeepsOrDropsGen ==
  ASSUME HandleInv, KeepsOrDrops PROVE live'.gen = live.gen \/ live'.gen = 0
  BY DEF KeepsOrDrops, SameBuild, DropsLive, NoLive

(* What a step may do to the queues and to the newest generation, apart     *)
(* from what it does to what is live.                                       *)
SameQueues == UNCHANGED <<toWorker, waiting, gen, timer>>
TakesRequest == /\ toWorker # <<>> /\ toWorker' = Tail(toWorker)
                /\ UNCHANGED <<waiting, gen, timer>>

(* Queues that nobody touches stay in order.                                *)
LEMMA OrderKept == ASSUME QueueInv, SameQueues PROVE QueueInv' /\ StillOld
<1>1. Builds' = Builds
  BY DEF SameQueues, Builds, IsBuild
<1>2. QueueInv'
  BY <1>1 DEF SameQueues, QueueInv, QueuesAreSeqs, GensAreIssued, Issued, BuildsInOrder
<1>3. StillOld
  BY <1>1 DEF SameQueues, StillOld, Old, Issued
<1> QED BY <1>2, <1>3

(* Taking the oldest request leaves the others, one place further up.       *)
LEMMA TakenRequest ==
  ASSUME QueueInv, TakesRequest
  PROVE  /\ IsSeq(toWorker')
         /\ Head(toWorker) = toWorker[1] /\ 1 \in DOMAIN toWorker
         /\ DOMAIN toWorker' \subseteq Nat \ {0}
         /\ \A i \in DOMAIN toWorker' :
               i + 1 \in DOMAIN toWorker /\ toWorker'[i] = toWorker[i + 1]
         /\ \A i \in Builds' :
               /\ i \in Nat \ {0} /\ i + 1 \in Builds
               /\ toWorker'[i] = toWorker[i + 1]
         /\ IsBuild(1) => 1 \in Builds
<1>1. IsSeq(toWorker)
  BY DEF QueueInv, QueuesAreSeqs
<1>2. /\ IsSeq(toWorker') /\ DOMAIN toWorker' \subseteq Nat \ {0}
      /\ \A i \in DOMAIN toWorker' :
            i + 1 \in DOMAIN toWorker /\ toWorker'[i] = toWorker[i + 1]
      /\ Head(toWorker) = toWorker[1] /\ 1 \in DOMAIN toWorker
  BY <1>1, Taken DEF TakesRequest
<1>3. \A i \in Builds' : i \in Nat \ {0} /\ i + 1 \in Builds /\ toWorker'[i] = toWorker[i + 1]
  BY <1>2 DEF Builds, IsBuild
<1>4. IsBuild(1) => 1 \in Builds
  BY <1>2 DEF Builds
<1> QED BY <1>2, <1>3, <1>4

(* The requests left are in order, and what was taken up stays so.          *)
LEMMA OrderTaken ==
  ASSUME QueueInv, TakesRequest
  PROVE  /\ QueueInv' /\ StillOld
         /\ IsBuild(1) => \A i \in Builds' : toWorker[1].gen < toWorker'[i].gen
<1>0. UNCHANGED <<waiting, gen, timer>>
  BY DEF TakesRequest
<1>1. \A i \in Builds' :
         i \in Nat \ {0} /\ i + 1 \in Builds /\ toWorker'[i] = toWorker[i + 1]
  BY TakenRequest
<1>2. QueuesAreSeqs'
  BY <1>0, TakenRequest DEF QueuesAreSeqs, QueueInv
<1>3. GensAreIssued'
  BY <1>0, <1>1 DEF GensAreIssued, Issued, QueueInv
<1>4. BuildsInOrder'
  <2>1. ASSUME NEW i \in Builds', NEW j \in Builds', i < j
        PROVE  toWorker'[i].gen < toWorker'[j].gen
    <3>1. i + 1 \in Builds /\ j + 1 \in Builds /\ i + 1 < j + 1
      BY <1>1, <2>1
    <3>2. toWorker[i + 1].gen < toWorker[j + 1].gen
      BY <3>1 DEF BuildsInOrder, QueueInv
    <3> QED BY <1>1, <3>2
  <2>2. \A i \in DOMAIN waiting, j \in Builds' : waiting[i] < toWorker'[j].gen
    BY <1>1 DEF BuildsInOrder, QueueInv
  <2> QED BY <1>0, <2>1, <2>2 DEF BuildsInOrder, QueueInv
<1>5. StillOld
  BY <1>0, <1>1 DEF StillOld, Old, Issued
<1>6. ASSUME IsBuild(1), NEW i \in Builds' PROVE toWorker[1].gen < toWorker'[i].gen
  <2>1. 1 \in Builds /\ i + 1 \in Builds /\ 1 < i + 1
    BY <1>1, <1>6, TakenRequest
  <2>2. toWorker[1].gen < toWorker[i + 1].gen
    BY <2>1 DEF BuildsInOrder, QueueInv
  <2> QED BY <1>1, <2>2
<1> QED BY <1>2, <1>3, <1>4, <1>5, <1>6 DEF QueueInv

(* A build received with the module there is taken up: none waits.          *)
LEMMA OrderBuilt ==
  ASSUME QueueInv, TakesRequest, IsBuild(1), waiting = <<>>, NEW g, g = toWorker[1].gen
  PROVE  Old(g)'
<1>1. Issued(g)'
  BY TakenRequest DEF QueueInv, GensAreIssued, Issued, TakesRequest
<1>2. DOMAIN waiting' = {}
  BY DEF TakesRequest
<1> QED BY <1>1, <1>2, OrderTaken DEF Old

(* A build received before the module is there joins those that wait.       *)
LEMMA OrderWaits ==
  ASSUME QueueInv, toWorker # <<>>, IsBuild(1), toWorker' = Tail(toWorker),
         waiting' = Append(waiting, toWorker[1].gen), UNCHANGED <<gen, timer>>
  PROVE  QueueInv' /\ StillOld
<1> DEFINE g == toWorker[1].gen
           n == Len(waiting) + 1
<1>1. /\ IsSeq(toWorker') /\ 1 \in Builds
      /\ \A i \in Builds' :
            i \in Nat \ {0} /\ i + 1 \in Builds /\ toWorker'[i] = toWorker[i + 1]
  <2>1. IsSeq(toWorker)
    BY DEF QueueInv, QueuesAreSeqs
  <2>2. /\ IsSeq(toWorker') /\ 1 \in DOMAIN toWorker
        /\ DOMAIN toWorker' \subseteq Nat \ {0}
        /\ \A i \in DOMAIN toWorker' :
              i + 1 \in DOMAIN toWorker /\ toWorker'[i] = toWorker[i + 1]
    BY <2>1, Taken
  <2> QED BY <2>2 DEF Builds, IsBuild
<1>2. /\ IsSeq(waiting') /\ Len(waiting) \in Nat
      /\ DOMAIN waiting = 1..Len(waiting) /\ DOMAIN waiting' = 1..n
      /\ \A i \in DOMAIN waiting : waiting'[i] = waiting[i]
      /\ waiting'[n] = g
  BY Appended DEF QueueInv, QueuesAreSeqs
<1>3. \A i \in DOMAIN waiting' : i = n \/ i \in DOMAIN waiting
  BY <1>2
<1>4. \A i \in Builds' : Issued(toWorker'[i].gen) /\ g < toWorker'[i].gen
  <2>1. ASSUME NEW i \in Builds' PROVE g < toWorker'[i].gen
    <3>1. i + 1 \in Builds /\ 1 < i + 1
      BY <1>1
    <3>2. g < toWorker[i + 1].gen
      BY <1>1, <3>1 DEF QueueInv, BuildsInOrder
    <3> QED BY <1>1, <3>2
  <2> QED BY <1>1, <2>1 DEF QueueInv, GensAreIssued
<1>5. Issued(g) /\ \A i \in DOMAIN waiting : Issued(waiting[i]) /\ waiting[i] < g
  BY <1>1 DEF QueueInv, GensAreIssued, BuildsInOrder
<1> HIDE DEF g, n
<1>6. \A i \in DOMAIN waiting' : Issued(waiting'[i]) /\ (i = n \/ waiting'[i] < g)
  BY <1>2, <1>3, <1>5
<1>7. QueuesAreSeqs'
  BY <1>1, <1>2 DEF QueuesAreSeqs
<1>8. GensAreIssued'
  BY <1>4, <1>6 DEF GensAreIssued, Issued, QueueInv
<1>9. BuildsInOrder'
  <2>1. ASSUME NEW i \in DOMAIN waiting', NEW j \in DOMAIN waiting', i < j
        PROVE  waiting'[i] < waiting'[j]
    <3>1. i \in DOMAIN waiting
      BY <1>2, <2>1 DEF n
    <3>2. CASE j = n
      BY <1>2, <1>5, <3>1, <3>2
    <3>3. CASE j \in DOMAIN waiting
      <4>1. waiting[i] < waiting[j]
        BY <2>1, <3>1, <3>3 DEF QueueInv, BuildsInOrder
      <4> QED BY <1>2, <3>1, <3>3, <4>1
    <3> QED BY <1>3, <3>2, <3>3
  <2>2. ASSUME NEW i \in DOMAIN waiting', NEW j \in Builds'
        PROVE  waiting'[i] < toWorker'[j].gen
    <3>1. g \in Nat /\ waiting'[i] \in Nat /\ toWorker'[j].gen \in Nat
      BY <1>4, <1>5, <1>6 DEF Issued
    <3>2. g < toWorker'[j].gen
      BY <1>4
    <3>3. waiting'[i] = g \/ waiting'[i] < g
      BY <1>2, <1>6
    <3>4. \A x, y, z \in Nat : y < z /\ (x = y \/ x < y) => x < z
      OBVIOUS
    <3> QED BY <3>1, <3>2, <3>3, <3>4
  <2>3. ASSUME NEW i \in Builds', NEW j \in Builds', i < j
        PROVE  toWorker'[i].gen < toWorker'[j].gen
    <3>1. i + 1 \in Builds /\ j + 1 \in Builds /\ i + 1 < j + 1
      BY <1>1, <2>3
    <3>2. toWorker[i + 1].gen < toWorker[j + 1].gen
      BY <3>1 DEF BuildsInOrder, QueueInv
    <3> QED BY <1>1, <3>2
  <2> QED BY <2>1, <2>2, <2>3 DEF BuildsInOrder
<1>10. ASSUME NEW x, Old(x) PROVE Old(x)'
  <2>1. x < g
    BY <1>1, <1>10 DEF Old, g
  <2>2. \A i \in DOMAIN waiting' : x < waiting'[i]
    BY <1>2, <1>3, <1>10, <2>1 DEF Old
  <2>3. \A i \in Builds' : x < toWorker'[i].gen
    BY <1>1, <1>10 DEF Old
  <2> QED BY <1>10, <2>2, <2>3 DEF Old, Issued
<1> QED BY <1>7, <1>8, <1>9, <1>10 DEF QueueInv, StillOld

(* A build that waited is taken up.                                         *)
LEMMA OrderResumed ==
  ASSUME QueueInv, waiting # <<>>, waiting' = Tail(waiting),
         UNCHANGED <<toWorker, gen, timer>>, NEW g, g = Head(waiting)
  PROVE  QueueInv' /\ StillOld /\ Old(g)'
<1>1. /\ IsSeq(waiting') /\ 1 \in DOMAIN waiting /\ g = waiting[1]
      /\ DOMAIN waiting' \subseteq Nat \ {0}
      /\ \A i \in DOMAIN waiting' : i + 1 \in DOMAIN waiting /\ waiting'[i] = waiting[i + 1]
  BY Taken DEF QueueInv, QueuesAreSeqs
<1>2. Builds' = Builds
  BY DEF Builds, IsBuild
<1>3. QueuesAreSeqs'
  BY <1>1 DEF QueuesAreSeqs, QueueInv
<1>4. GensAreIssued'
  BY <1>1, <1>2 DEF GensAreIssued, Issued, QueueInv
<1>5. ASSUME NEW i \in DOMAIN waiting', NEW j \in DOMAIN waiting', i < j
      PROVE  waiting'[i] < waiting'[j]
  <2>1. i + 1 \in DOMAIN waiting /\ j + 1 \in DOMAIN waiting /\ i + 1 < j + 1
    BY <1>1, <1>5
  <2>2. waiting[i + 1] < waiting[j + 1]
    BY <2>1 DEF QueueInv, BuildsInOrder
  <2> QED BY <1>1, <2>2
<1>6. BuildsInOrder'
  BY <1>1, <1>2, <1>5 DEF QueueInv, BuildsInOrder
<1>7. StillOld
  BY <1>1, <1>2 DEF StillOld, Old, Issued
<1>8. Old(g)'
  <2>1. Issued(g)'
    BY <1>1 DEF QueueInv, GensAreIssued, Issued
  <2>2. ASSUME NEW i \in DOMAIN waiting' PROVE g < waiting'[i]
    <3>1. i + 1 \in DOMAIN waiting /\ 1 < i + 1
      BY <1>1
    <3>2. waiting[1] < waiting[i + 1]
      BY <1>1, <3>1 DEF QueueInv, BuildsInOrder
    <3> QED BY <1>1, <3>2
  <2>3. \A i \in Builds' : g < toWorker'[i].gen
    BY <1>1, <1>2 DEF QueueInv, BuildsInOrder
  <2> QED BY <1>1, <2>1, <2>2, <2>3 DEF Old
<1> QED BY <1>3, <1>4, <1>6, <1>7, <1>8 DEF QueueInv

(* A request of the page: a build it posts is that of the newest edit.      *)
LEMMA OrderPosted ==
  ASSUME QueueInv, NEW m, toWorker' = Append(toWorker, m), UNCHANGED waiting,
         gen' \in Nat,
         \/ m.kind # "build" /\ UNCHANGED <<gen, timer>>
         \/ m.kind = "build" /\ m.gen = gen' /\ timer' = 0 /\ gen < gen'
         \/ m.kind = "build" /\ m.gen = gen' /\ timer' = 0 /\ gen' = gen /\ timer # 0
  PROVE  QueueInv' /\ StillOld
<1> DEFINE n == Len(toWorker) + 1
           b == m.kind = "build"
<1>1. /\ IsSeq(toWorker') /\ Len(toWorker) \in Nat
      /\ DOMAIN toWorker = 1..Len(toWorker) /\ DOMAIN toWorker' = 1..(Len(toWorker) + 1)
      /\ \A i \in DOMAIN toWorker : toWorker'[i] = toWorker[i]
      /\ toWorker'[n] = m
  BY Appended DEF QueueInv, QueuesAreSeqs
<1>2. \A i \in Builds' : \/ i \in Builds /\ i < n /\ toWorker'[i] = toWorker[i]
                         \/ i = n /\ b /\ toWorker'[i].gen = gen'
  <2>1. ASSUME NEW i \in Builds'
        PROVE  \/ i \in Builds /\ i < n /\ toWorker'[i] = toWorker[i]
               \/ i = n /\ b /\ toWorker'[i].gen = gen'
    <3>1. i \in DOMAIN toWorker' /\ toWorker'[i].kind = "build"
      BY DEF Builds, IsBuild
    <3>2. CASE i \in DOMAIN toWorker
      BY <1>1, <3>1, <3>2 DEF Builds, IsBuild
    <3>3. CASE i = n
      BY <1>1, <3>1, <3>3
    <3> QED BY <1>1, <3>1, <3>2, <3>3
  <2> QED BY <2>1
<1>3. gen \in Nat /\ gen <= gen'
  BY DEF QueueInv, GensAreIssued
<1> HIDE DEF n
<1>4. \A g : Issued(g) => Issued(g)' /\ (b => g < gen')
  BY <1>3 DEF Issued
<1>5. b => gen' \in Nat /\ gen' <= gen' /\ timer' = 0
  OBVIOUS
<1>6. timer' \in {0, gen'} /\ (Kind # "session" => timer' = 0)
  BY DEF QueueInv, GensAreIssued
<1> HIDE DEF b
<1>7. \A i \in Builds : Issued(toWorker[i].gen)
  BY DEF QueueInv, GensAreIssued
<1>8. \A i \in DOMAIN waiting : Issued(waiting[i])
  BY DEF QueueInv, GensAreIssued
<1>9. QueuesAreSeqs'
  BY <1>1 DEF QueuesAreSeqs, QueueInv
<1>10. GensAreIssued'
  <2>1. (\A i \in Builds : Issued(toWorker[i].gen))'
    BY <1>2, <1>4, <1>5, <1>7 DEF Issued
  <2>2. (\A i \in DOMAIN waiting : Issued(waiting[i]))'
    BY <1>4, <1>8 DEF Issued
  <2> QED BY <1>6, <2>1, <2>2 DEF GensAreIssued
<1>11. BuildsInOrder'
  <2>1. ASSUME NEW i \in Builds', NEW j \in Builds', i < j
        PROVE  toWorker'[i].gen < toWorker'[j].gen
    <3>1. i \in Builds /\ i < n /\ toWorker'[i] = toWorker[i]
      BY <1>1, <1>2, <2>1 DEF Builds, n
    <3>2. CASE j \in Builds /\ toWorker'[j] = toWorker[j]
      BY <2>1, <3>1, <3>2 DEF QueueInv, BuildsInOrder
    <3>3. CASE b /\ toWorker'[j].gen = gen'
      BY <1>4, <1>7, <3>1, <3>3
    <3> QED BY <1>2, <3>2, <3>3
  <2>2. ASSUME NEW i \in DOMAIN waiting, NEW j \in Builds'
        PROVE  waiting[i] < toWorker'[j].gen
    <3>1. CASE j \in Builds /\ toWorker'[j] = toWorker[j]
      BY <3>1 DEF QueueInv, BuildsInOrder
    <3>2. CASE b /\ toWorker'[j].gen = gen'
      BY <1>4, <1>8, <3>2
    <3> QED BY <1>2, <3>1, <3>2
  <2> QED BY <2>1, <2>2 DEF QueueInv, BuildsInOrder
<1>12. ASSUME NEW g, Old(g) PROVE Old(g)'
  <2>1. Issued(g) /\ Issued(g)'
    BY <1>4, <1>12 DEF Old
  <2>2. \A i \in Builds' : g < toWorker'[i].gen
    BY <1>2, <1>4, <1>12, <2>1 DEF Old
  <2> QED BY <1>12, <2>1, <2>2 DEF Old
<1> QED BY <1>9, <1>10, <1>11, <1>12 DEF QueueInv, StillOld

(* An edit whose build the debounce holds back.                             *)
LEMMA OrderHeldBack ==
  ASSUME QueueInv, UNCHANGED <<toWorker, waiting>>, gen' = gen + 1, timer' = gen',
         Kind = "session"
  PROVE  QueueInv' /\ StillOld
<1>1. Builds' = Builds
  BY DEF Builds, IsBuild
<1>2. gen \in Nat /\ \A g : Issued(g) => Issued(g)'
  BY DEF QueueInv, GensAreIssued, Issued
<1>3. QueueInv'
  BY <1>1, <1>2 DEF QueueInv, QueuesAreSeqs, GensAreIssued, BuildsInOrder
<1>4. StillOld
  BY <1>1, <1>2 DEF StillOld, Old
<1> QED BY <1>3, <1>4

-----------------------------------------------------------------------------
(* What a worker step tells the page: at most one reply, and an error only  *)
(* in the name of the call that threw.                                      *)
Posts == toPage' = toPage \/ \E r : toPage' = Append(toPage, r)
NoError == throws' = throws
ErrorOf(g) == throws' = throws + 1 /\ \E r : r.gen = g /\ toPage' = Append(toPage, r)

(* A build's error is of the generation it builds.                          *)
LEMMA BuildTells ==
  ASSUME NEW g, Build(g) PROVE Posts /\ (NoError \/ ErrorOf(g))
<1>1. Posts
  BY DEF Build, Post, Posts
<1>2. NoError \/ ErrorOf(g)
  <2>1. CASE UNCHANGED throws
    BY <2>1 DEF NoError
  <2>2. CASE /\ throws' = throws + 1
             /\ Post([kind |-> "worker-error", gen |-> g])
    BY <2>2 DEF ErrorOf, Post
  <2> QED BY <2>1, <2>2 DEF Build
<1> QED BY <1>1, <1>2

(* A throw's error is of the generation of the call.                        *)
LEMMA ThrowTells ==
  ASSUME NEW call, NEW others, Throw(call, others) PROVE Posts /\ ErrorOf(call.gen)
<1>1. /\ throws' = throws + 1
      /\ toPage' = Append(toPage, [kind |-> "worker-error", gen |-> call.gen])
  BY DEF Throw, Post
<1> QED BY <1>1 DEF Posts, ErrorOf

(* A chunk tells its frames.                                                *)
LEMMA ChunkTells ==
  ASSUME NEW call, NEW first, NEW others, Chunk(call, first, others)
  PROVE  Posts /\ NoError
  BY DEF Chunk, Post, Posts, NoError

(* An answer is one reply, or an error of the call that answers.            *)
LEMMA AnswerTells ==
  ASSUME NEW call, NEW P, Answer(call, P), P => Posts
  PROVE  Posts /\ (NoError \/ ErrorOf(call.gen))
<1>1. CASE P /\ UNCHANGED throws
  BY <1>1 DEF NoError
<1>2. CASE /\ throws' = throws + 1
           /\ Post([kind |-> "worker-error", gen |-> call.gen])
  BY <1>2 DEF Post, Posts, ErrorOf
<1> QED BY <1>1, <1>2 DEF Answer

(* A call that goes on throws only while what is live is its own.           *)
OwnError == NoError \/ (live # NoLive /\ ErrorOf(live.gen))

(* A loop that starts.                                                      *)
LEMMA EnterTells == EnterRecord => Posts /\ OwnError
<1> SUFFICES ASSUME EnterRecord PROVE Posts /\ OwnError
  OBVIOUS
<1> DEFINE call == [running.call EXCEPT !.epoch = epoch[running.call.leg]]
<1>1. CASE UNCHANGED <<toPage, throws>>
  BY <1>1 DEF Posts, OwnError, NoError
<1>2. CASE Chunk(call, First(call), suspended)
  BY <1>2, ChunkTells DEF OwnError
<1>3. CASE live # NoLive /\ live.gen = call.gen /\ Throw(call, suspended)
  BY <1>3, ThrowTells DEF OwnError
<1> QED BY <1>1, <1>2, <1>3 DEF EnterRecord, TurnedAway, Holds, Owns

(* A loop that wakes.                                                       *)
LEMMA ResumeTells == ASSUME NEW l \in Legs, ResumeRecord(l) PROVE Posts /\ OwnError
<1>1. PICK i \in DOMAIN suspended :
        LET call   == suspended[i]
            others == RemoveAt(suspended, i)
        IN  \/ UNCHANGED <<toPage, throws>>
            \/ Chunk(call, FALSE, others)
            \/ live # NoLive /\ live.gen = call.gen /\ Throw(call, others)
  BY DEF ResumeRecord, Owns
<1> DEFINE call == suspended[i]
           others == RemoveAt(suspended, i)
<1>2. CASE UNCHANGED <<toPage, throws>>
  BY <1>2 DEF Posts, OwnError, NoError
<1>3. CASE Chunk(call, FALSE, others)
  BY <1>3, ChunkTells DEF OwnError
<1>4. CASE live # NoLive /\ live.gen = call.gen /\ Throw(call, others)
  BY <1>4, ThrowTells DEF OwnError
<1> QED BY <1>1, <1>2, <1>3, <1>4

(* A request that answers.                                                  *)
LEMMA AfterTells == AfterRun \/ AfterExtend \/ AfterRewind => Posts /\ OwnError
<1> DEFINE call == running.call
           RxmAnswer == /\ Post([kind |-> "rxm-value", gen |-> call.gen,
                              value |-> Value("rxm")])
                     /\ UNCHANGED parts
<1>1. PostResult(call.gen) => Posts
  BY DEF PostResult, Post, Posts
<1>2. RxmAnswer => Posts
  BY DEF Post, Posts
<1>3. ASSUME UNCHANGED <<toPage, throws>> PROVE Posts /\ OwnError
  BY <1>3 DEF Posts, OwnError, NoError
<1>4. ASSUME live # NoLive, live.gen = call.gen, Answer(call, PostResult(call.gen))
      PROVE  Posts /\ OwnError
  BY <1>1, <1>4, AnswerTells DEF OwnError
<1>5. ASSUME live # NoLive, live.gen = call.gen, Answer(call, RxmAnswer)
      PROVE  Posts /\ OwnError
  BY <1>2, <1>5, AnswerTells DEF OwnError
<1>6. ASSUME AfterRun PROVE Posts /\ OwnError
  <2>1. \/ UNCHANGED <<toPage, throws>>
        \/ live # NoLive /\ live.gen = call.gen /\ Answer(call, PostResult(call.gen))
    BY <1>6 DEF AfterRun, NoAnswer, Answers, Owns
  <2> QED BY <2>1, <1>3, <1>4
<1>7. ASSUME AfterExtend PROVE Posts /\ OwnError
  <2>1. \/ UNCHANGED <<toPage, throws>>
        \/ live # NoLive /\ live.gen = call.gen /\ Answer(call, PostResult(call.gen))
        \/ live # NoLive /\ live.gen = call.gen /\ Answer(call, RxmAnswer)
    BY <1>7 DEF AfterExtend, NoAnswer, Owns
  <2> QED BY <2>1, <1>3, <1>4, <1>5
<1>8. ASSUME AfterRewind PROVE Posts /\ OwnError
  BY <1>8, <1>3 DEF AfterRewind, NoAnswer
<1> QED BY <1>6, <1>7, <1>8

(* A value run.                                                             *)
LEMMA ValueTells == RunValue => Posts /\ OwnError
<1> SUFFICES ASSUME RunValue PROVE Posts /\ OwnError
  OBVIOUS
<1>1. PICK call, others : ValueChunk(call, others)
  BY DEF RunValue
<1>2. CASE UNCHANGED throws /\ (UNCHANGED toPage \/ \E r : Post(r))
  BY <1>2 DEF Posts, Post, OwnError, NoError
<1>3. CASE HasValueRun(call.gen) /\ Throw(call, others)
  <2>1. live # NoLive /\ live.gen = call.gen
    BY <1>3 DEF HasValueRun, Owns
  <2> QED BY <1>3, <2>1, ThrowTells DEF OwnError
<1> QED BY <1>1, <1>2, <1>3 DEF ValueChunk

(* The four together.                                                       *)
LEMMA ProceedsTells == Proceeds => Posts /\ OwnError
  BY EnterTells, ResumeTells, AfterTells, ValueTells DEF Proceeds

(* A call that goes on leaves the requests and the waiting builds alone.    *)
LEMMA ProceedsAside == Proceeds => UNCHANGED <<toWorker, waiting>>
  BY DEF Proceeds, EnterRecord, ResumeRecord, AfterRun, AfterExtend, AfterRewind,
         Returned, RunValue

(* A reply more, or none, is still a queue.                                 *)
LEMMA PostsSeq == GenInv /\ Posts => IsSeq(toPage')
<1> SUFFICES ASSUME GenInv, Posts PROVE IsSeq(toPage')
  OBVIOUS
<1>1. IsSeq(toPage)
  BY DEF GenInv
<1>2. CASE toPage' = toPage
  BY <1>1, <1>2
<1>3. ASSUME NEW r, toPage' = Append(toPage, r) PROVE IsSeq(toPage')
  BY <1>1, <1>3, Appended
<1> QED BY <1>2, <1>3 DEF Posts

(* The count of throws stays a number.                                      *)
LEMMA ThrowsNat ==
  ASSUME GenInv, NEW g, NoError \/ ErrorOf(g) PROVE throws' \in Nat
  BY DEF GenInv, NoError, ErrorOf

(* What a build leaves live is its own generation, or nothing.              *)
LEMMA BuildGen == ASSUME NEW g, Build(g) PROVE live'.gen = 0 \/ live'.gen = g
  BY BuildHandles DEF DropsLive, Replaces, NoLive

(* The page's steps keep the order of builds.                               *)
LEMMA PageOrder ==
  ASSUME QueueInv, PageNext, UNCHANGED waiting PROVE QueueInv' /\ StillOld
<1>1. gen \in Nat /\ timer \in {0, gen}
  BY DEF QueueInv, GensAreIssued
<1>2. ASSUME NEW m, toWorker' = Append(toWorker, m), m.kind # "build",
             UNCHANGED <<gen, timer>>
      PROVE  QueueInv' /\ StillOld
  BY <1>1, <1>2, OrderPosted
<1>3. ASSUME toWorker' = Append(toWorker, BuildRequest(gen')), gen' \in Nat, timer' = 0,
             gen < gen' \/ (gen' = gen /\ timer # 0)
      PROVE  QueueInv' /\ StillOld
  <2>1. BuildRequest(gen').kind = "build" /\ BuildRequest(gen').gen = gen'
    BY DEF BuildRequest
  <2> QED BY <1>3, <2>1, OrderPosted
<1>4. CASE Edit
  <2>1. gen' = gen + 1 /\ gen' \in Nat /\ gen < gen'
    BY <1>1, <1>4 DEF Edit
  <2>2. CASE Kind = "session"
    BY <1>4, <2>1, <2>2, OrderHeldBack DEF Edit
  <2>3. CASE Kind # "session"
    <3>1. toWorker' = Append(toWorker, BuildRequest(gen')) /\ timer' = timer
      BY <1>4, <2>3 DEF Edit, Send
    <3>2. timer = 0
      BY <2>3 DEF QueueInv, GensAreIssued
    <3> QED BY <1>3, <2>1, <3>1, <3>2
  <2> QED BY <2>2, <2>3
<1>5. CASE TimerFires
  <2>1. timer # 0 /\ timer = gen /\ timer' = 0 /\ gen' = gen
    BY <1>1, <1>5 DEF TimerFires
  <2>2. toWorker' = Append(toWorker, BuildRequest(gen'))
    BY <1>5, <2>1 DEF TimerFires, Send
  <2> QED BY <1>1, <1>3, <2>1, <2>2
<1>6. CASE Deliver
  BY <1>6, OrderKept DEF Deliver, SameQueues
<1>7. ASSUME NEW l \in Legs, PressContinue(l) PROVE QueueInv' /\ StillOld
  <2>1. /\ toWorker' = Append(toWorker, ExtendRequest(gen, l, legEpoch[l]))
        /\ UNCHANGED <<gen, timer>>
    BY <1>7 DEF PressContinue, Send, clientVars
  <2>2. ExtendRequest(gen, l, legEpoch[l]).kind # "build"
    BY DEF ExtendRequest
  <2> QED BY <1>2, <2>1, <2>2
<1>8. ASSUME NEW l \in Legs, PressRestart(l) PROVE QueueInv' /\ StillOld
  <2>1. /\ toWorker' = Append(toWorker, RewindRequest(gen, l, legEpoch'[l]))
        /\ UNCHANGED <<gen, timer>>
    BY <1>8 DEF PressRestart, Send, clientVars
  <2>2. RewindRequest(gen, l, legEpoch'[l]).kind # "build"
    BY DEF RewindRequest
  <2> QED BY <1>2, <2>1, <2>2
<1> QED BY <1>4, <1>5, <1>6, <1>7, <1>8 DEF PageNext

(* The page's replies stay a queue.                                         *)
LEMMA PageReplies ==
  ASSUME IsSeq(toPage), PageNext PROVE IsSeq(toPage')
<1>1. toPage' = toPage \/ (toPage # <<>> /\ toPage' = Tail(toPage))
  BY DEF PageNext, Edit, TimerFires, Deliver, PressContinue, PressRestart
<1> QED BY <1>1, Taken

(* The error a step tells is of no older a generation than what was live.   *)
LEMMA ErrorIsNoOlder ==
  ASSUME GenInv, NEW g, g \in Nat, live.gen <= g, NoError \/ ErrorOf(g)
  PROVE  throws' > throws => Last(toPage').gen >= live.gen
<1>0. throws \in Nat /\ live.gen \in Nat
  BY DEF GenInv, Old, Issued
<1>1. CASE NoError
  BY <1>0, <1>1 DEF NoError
<1>2. CASE ErrorOf(g)
  <2>1. PICK r : r.gen = g /\ toPage' = Append(toPage, r)
    BY <1>2 DEF ErrorOf
  <2>2. Last(toPage') = r
    BY <2>1, Appended DEF GenInv
  <2>3. Last(toPage').gen = g
    BY <2>1, <2>2
  <2> QED BY <1>0, <2>3
<1> QED BY <1>1, <1>2

(* ErrorSparesNewer, of one step.                                            *)
ErrorStep == throws' > throws /\ live # NoLive => Last(toPage').gen >= live.gen

(* Every step keeps builds in order, and no error comes from an older       *)
(* generation than what it drops.                                           *)
LEMMA NextGen ==
  ASSUME HandleInv, GenInv, [Next]_vars PROVE GenInv' /\ StillOld /\ ErrorStep
<1>0. /\ LiveShape /\ throws \in Nat /\ live.gen \in Nat /\ live.gen <= live.gen
      /\ QueueInv /\ IsSeq(toPage)
  BY DEF HandleInv, GenInv, Old, Issued
<1>a. ASSUME UNCHANGED throws PROVE ErrorStep /\ throws' \in Nat
  BY <1>0, <1>a DEF ErrorStep
<1>b. ASSUME QueueInv', StillOld, live'.gen = live.gen \/ live'.gen = 0,
             IsSeq(toPage'), throws' \in Nat
      PROVE  GenInv'
  <2>1. ASSUME live'.gen = live.gen PROVE Old(live.gen)'
    <3>1. ASSUME NEW g, g = live.gen PROVE Old(live.gen)'
      <4>1. Old(g)'
        BY <1>b, <3>1 DEF StillOld, GenInv
      <4> QED BY <2>1, <3>1, <4>1 DEF Old, Issued
    <3> QED BY <3>1
  <2>2. ASSUME live'.gen = 0 PROVE Old(live.gen)'
    <3>1. ASSUME NEW g, g = live.gen PROVE Old(live.gen)'
      <4>1. Old(g)'
        BY <1>b, <3>1 DEF StillOld, GenInv
      <4>2. Issued(0)'
        BY <1>b, <4>1, <3>1, <1>0 DEF Old, Issued, QueueInv, GensAreIssued
      <4>3. \A i \in DOMAIN waiting' : 0 < waiting'[i]
        BY <1>0, <1>b, <3>1, <4>1 DEF Old, Issued, QueueInv, GensAreIssued
      <4>4. \A i \in Builds' : 0 < toWorker'[i].gen
        BY <1>0, <1>b, <3>1, <4>1 DEF Old, Issued, QueueInv, GensAreIssued
      <4> QED BY <2>2, <4>2, <4>3, <4>4 DEF Old, Issued
    <3> QED BY <3>1
  <2> QED BY <1>b, <2>1, <2>2 DEF GenInv
<1>c. ASSUME NEW g, Build(g), Old(g)', QueueInv', live.gen < g, g \in Nat
      PROVE  GenInv' /\ ErrorStep
  <2>1. Posts /\ (NoError \/ ErrorOf(g)) /\ (live'.gen = 0 \/ live'.gen = g)
    BY <1>c, BuildTells, BuildGen
  <2>2. IsSeq(toPage') /\ throws' \in Nat
    BY <2>1, PostsSeq, ThrowsNat
  <2>3. Old(live.gen)'
    <3>1. CASE live'.gen = g
      BY <1>c, <3>1 DEF Old, Issued
    <3>2. CASE live'.gen = 0
      <4>1. Issued(0)'
        BY <1>c DEF Old, Issued, QueueInv, GensAreIssued
      <4>2. \A i \in DOMAIN waiting' : 0 < waiting'[i]
        BY <1>c DEF Old, Issued, QueueInv, GensAreIssued
      <4>3. \A i \in Builds' : 0 < toWorker'[i].gen
        BY <1>c DEF Old, Issued, QueueInv, GensAreIssued
      <4> QED BY <3>2, <4>1, <4>2, <4>3 DEF Old, Issued
    <3> QED BY <2>1, <3>1, <3>2
  <2>4. ErrorStep
    BY <1>0, <1>c, <2>1, ErrorIsNoOlder DEF ErrorStep
  <2> QED BY <1>c, <2>2, <2>3, <2>4 DEF GenInv
<1>1. CASE ReceiveBuild /\ UNCHANGED pageVars
  <2>1. TakesRequest \/ (~ready /\ toWorker # <<>> /\ toWorker' = Tail(toWorker))
    BY <1>1 DEF ReceiveBuild, Received, pageVars, clientVars, TakesRequest
  <2>2. IsSeq(toWorker) /\ toWorker # <<>> /\ Head(toWorker).kind = "build"
    BY <1>0, <1>1 DEF ReceiveBuild, Received, QueueInv, QueuesAreSeqs
  <2>3. IsBuild(1) /\ 1 \in Builds /\ Head(toWorker) = toWorker[1]
    BY <2>2, Taken DEF IsBuild, Builds
  <2>4. toWorker[1].gen \in Nat /\ live.gen < toWorker[1].gen
    BY <1>0, <2>3 DEF QueueInv, GensAreIssued, Issued, GenInv, Old
  <2>5. CASE ready
    <3>1. Build(toWorker[1].gen) /\ waiting = <<>> /\ TakesRequest
      BY <1>1, <2>3, <2>5 DEF ReceiveBuild, Received, Free, TakesRequest, pageVars, clientVars
    <3>2. ASSUME NEW g, g = toWorker[1].gen PROVE GenInv' /\ StillOld /\ ErrorStep
      <4>1. Old(g)' /\ QueueInv' /\ StillOld
        BY <1>0, <2>3, <3>1, <3>2, OrderBuilt, OrderTaken
      <4> QED BY <1>c, <2>4, <3>1, <3>2, <4>1
    <3> QED BY <3>2
  <2>6. CASE ~ready
    <3>1. /\ waiting' = Append(waiting, toWorker[1].gen)
          /\ UNCHANGED <<toPage, live, throws, gen, timer>>
          /\ toWorker' = Tail(toWorker)
      BY <1>1, <2>3, <2>6 DEF ReceiveBuild, Received, pageVars, clientVars
    <3>2. QueueInv' /\ StillOld
      BY <1>0, <2>2, <2>3, <3>1, OrderWaits
    <3> QED BY <1>0, <1>a, <1>b, <3>1, <3>2
  <2> QED BY <2>5, <2>6
<1>2. CASE (ReceiveExtend \/ ReceiveRewind) /\ UNCHANGED pageVars
  <2>1. TakesRequest
    BY <1>2 DEF ReceiveExtend, ReceiveRewind, Received, TakesRequest, pageVars, clientVars
  <2>2. UNCHANGED <<toPage, throws>>
    BY <1>2 DEF ReceiveExtend, ReceiveRewind
  <2>3. live'.gen = live.gen \/ live'.gen = 0
    BY <1>0, <1>2, ExtendHandles, RewindHandles, KeepsOrDropsGen
  <2>4. QueueInv' /\ StillOld
    BY <1>0, <2>1, OrderTaken
  <2> QED BY <1>0, <1>a, <1>b, <2>2, <2>3, <2>4
<1>3. CASE BuildWaiting /\ UNCHANGED pageVars
  <2>1. /\ waiting # <<>> /\ waiting' = Tail(waiting) /\ Build(Head(waiting))
        /\ UNCHANGED <<toWorker, gen, timer>>
    BY <1>3 DEF BuildWaiting, pageVars, clientVars
  <2>2. ASSUME NEW g, g = Head(waiting) PROVE GenInv' /\ StillOld /\ ErrorStep
    <3>1. g = waiting[1] /\ 1 \in DOMAIN waiting
      BY <1>0, <2>1, <2>2, Taken DEF QueueInv, QueuesAreSeqs
    <3>2. g \in Nat /\ live.gen < g
      BY <3>1 DEF GenInv, Old, QueueInv, GensAreIssued, Issued
    <3>3. QueueInv' /\ StillOld /\ Old(g)'
      BY <1>0, <2>1, <2>2, OrderResumed
    <3> QED BY <1>c, <2>1, <2>2, <3>2, <3>3
  <2> QED BY <2>2
<1>4. CASE Proceeds /\ UNCHANGED pageVars
  <2>1. SameQueues
    BY <1>4, ProceedsAside DEF SameQueues, pageVars, clientVars
  <2>2. Posts /\ OwnError /\ KeepsOrDrops
    BY <1>0, <1>4, ProceedsTells, ProceedsHandles
  <2>3. live'.gen = live.gen \/ live'.gen = 0
    BY <2>2, KeepsOrDropsGen
  <2>4. IsSeq(toPage') /\ throws' \in Nat
    BY <2>2, PostsSeq, ThrowsNat DEF OwnError
  <2>5. ErrorStep
    <3>1. NoError \/ ErrorOf(live.gen)
      BY <2>2 DEF OwnError
    <3> QED BY <1>0, <3>1, ErrorIsNoOlder DEF ErrorStep
  <2>6. QueueInv' /\ StillOld
    BY <1>0, <2>1, OrderKept
  <2> QED BY <1>b, <2>3, <2>4, <2>5, <2>6
<1>5. CASE (Instantiated /\ UNCHANGED pageVars) \/ UNCHANGED vars
  <2>1. UNCHANGED <<toWorker, toPage, waiting, gen, timer, live, throws>>
    BY <1>5 DEF Instantiated, vars, channels, workerVars, pageVars, clientVars
  <2>2. QueueInv' /\ StillOld
    BY <1>0, <2>1, OrderKept DEF SameQueues
  <2> QED BY <1>0, <1>a, <1>b, <2>1, <2>2
<1>6. CASE PageNext /\ UNCHANGED workerVars
  <2>1. UNCHANGED <<waiting, live, throws>>
    BY <1>6 DEF workerVars
  <2>2. QueueInv' /\ StillOld /\ IsSeq(toPage')
    BY <1>0, <1>6, <2>1, PageOrder, PageReplies
  <2> QED BY <1>0, <1>a, <1>b, <2>1, <2>2
<1> QED BY <1>1, <1>2, <1>3, <1>4, <1>5, <1>6, NextByCases

(* Nothing is queued at first.                                              *)
LEMMA InitGen == Init => GenInv
<1> SUFFICES ASSUME Init PROVE GenInv
  OBVIOUS
<1>1. /\ toWorker = <<>> /\ toPage = <<>> /\ waiting = <<>>
      /\ gen = 0 /\ timer = 0 /\ live.gen = 0 /\ throws = 0
  BY DEF Init, WorkerInit, PageInit, NoLive
<1>2. IsSeq(<<>>)
  <2>1. <<>> \in Seq(Nat)
    OBVIOUS
  <2> QED BY <2>1, SeqIsSeq
<1>3. Builds = {} /\ DOMAIN waiting = {}
  BY <1>1 DEF Builds
<1> QED BY <1>1, <1>2, <1>3 DEF GenInv, QueueInv, QueuesAreSeqs, GensAreIssued,
                               BuildsInOrder, Old, Issued

(* The worker's catch drops whatever is live, and that is never a newer     *)
(* build than the one whose call threw (session-worker.ts, the message      *)
(* listener).                                                               *)
THEOREM ErrorsSpareNewerBuilds == Spec => ErrorSparesNewer
<1>1. Init => HandleInv /\ GenInv
  BY InitGen DEF Init, WorkerInit, HandleInv, NoLeakedHandle, LiveShape
<1>2. HandleInv /\ GenInv /\ [Next]_vars => (HandleInv /\ GenInv)'
  BY NextHandles, NextGen
<1>3. HandleInv /\ GenInv /\ [Next]_vars => [ErrorStep]_vars
  BY NextGen
<1>4. ErrorStep <=> (throws' > throws /\ live # NoLive => Last(toPage').gen >= live.gen)
  BY DEF ErrorStep
<1> QED BY <1>1, <1>2, <1>3, <1>4, PTL DEF Spec, ErrorSparesNewer

-----------------------------------------------------------------------------
(* Numbers and sequences.                                                   *)

(* The least of three numbers is one of them.                               *)
LEMMA LeastOfThree ==
  ASSUME NEW a \in Int, NEW b \in Int, NEW c \in Int
  PROVE  /\ Min({a, b, c}) \in {a, b, c}
         /\ Min({a, b, c}) <= a /\ Min({a, b, c}) <= b /\ Min({a, b, c}) <= c
<1>1. \E x \in {a, b, c} : \A y \in {a, b, c} : x <= y
  OBVIOUS
<1> QED BY <1>1 DEF Min

(* The least of two numbers is one of them.                                 *)
LEMMA LeastOfTwo ==
  ASSUME NEW a \in Int, NEW b \in Int
  PROVE  /\ Min({a, b}) \in {a, b} /\ Min({a, b}) <= a /\ Min({a, b}) <= b
<1>1. \E x \in {a, b} : \A y \in {a, b} : x <= y
  OBVIOUS
<1> QED BY <1>1 DEF Min

(* The greatest of two numbers is one of them.                              *)
LEMMA GreatestOfTwo ==
  ASSUME NEW a \in Int, NEW b \in Int
  PROVE  /\ Max({a, b}) \in {a, b} /\ Max({a, b}) >= a /\ Max({a, b}) >= b
<1>1. \E x \in {a, b} : \A y \in {a, b} : x >= y
  OBVIOUS
<1> QED BY <1>1 DEF Max

(* A function on the first n numbers is a sequence.                         *)
LEMMA FunctionIsSeq ==
  ASSUME NEW S, NEW n \in Nat, NEW f \in [1..n -> S]
  PROVE  f \in Seq(S) /\ Len(f) = n
<1>1. f \in Seq(S)
  OBVIOUS
<1>2. DOMAIN f = 1..n /\ DOMAIN f = 1..Len(f) /\ Len(f) \in Nat
  BY <1>1
<1> QED BY <1>1, <1>2

(* Where the j-th element stood before the i-th was taken out.              *)
Before(i, j) == IF j < i THEN j ELSE j + 1

(* Taking an element out of a sequence moves up those after it.             *)
LEMMA Removed ==
  ASSUME NEW T, NEW s \in Seq(T), NEW i \in DOMAIN s
  PROVE  /\ RemoveAt(s, i) \in Seq(T)
         /\ Len(s) \in Nat \ {0} /\ DOMAIN s = 1..Len(s)
         /\ Len(RemoveAt(s, i)) = Len(s) - 1
         /\ DOMAIN RemoveAt(s, i) = 1..(Len(s) - 1)
         /\ \A j \in 1..(Len(s) - 1) : RemoveAt(s, i)[j] = s[Before(i, j)]
<1> DEFINE a == SubSeq(s, 1, i - 1)
           b == SubSeq(s, i + 1, Len(s))
<1>1. Len(s) \in Nat \ {0} /\ DOMAIN s = 1..Len(s) /\ i \in 1..Len(s)
  OBVIOUS
<1>2. /\ a \in Seq(T) /\ Len(a) = i - 1
      /\ \A j \in 1..(i - 1) : a[j] = s[j]
  BY <1>1
<1>3. /\ b \in Seq(T) /\ Len(b) = Len(s) - i
      /\ \A j \in 1..(Len(s) - i) : b[j] = s[i + j]
  BY <1>1
<1> HIDE DEF a, b
<1>4. /\ a \o b \in Seq(T) /\ Len(a \o b) = Len(s) - 1
      /\ \A j \in 1..(Len(s) - 1) :
            (a \o b)[j] = IF j <= Len(a) THEN a[j] ELSE b[j - Len(a)]
  <2>1. Len(a) + Len(b) = Len(s) - 1
    BY <1>1, <1>2, <1>3
  <2>2. /\ a \o b \in Seq(T) /\ Len(a \o b) = Len(a) + Len(b)
        /\ \A j \in 1..(Len(a) + Len(b)) :
              (a \o b)[j] = IF j <= Len(a) THEN a[j] ELSE b[j - Len(a)]
    BY <1>2, <1>3, ConcatProperties
  <2> QED BY <2>1, <2>2
<1>5. \A j \in 1..(Len(s) - 1) : (a \o b)[j] = s[Before(i, j)]
  <2>1. ASSUME NEW j \in 1..(Len(s) - 1) PROVE (a \o b)[j] = s[Before(i, j)]
    <3>1. CASE j < i
      BY <1>1, <1>2, <1>4, <3>1 DEF Before
    <3>2. CASE ~(j < i)
      <4>1. j - (i - 1) \in 1..(Len(s) - i) /\ i + (j - (i - 1)) = j + 1
        BY <1>1, <3>2
      <4>2. b[j - (i - 1)] = s[j + 1]
        BY <1>3, <4>1
      <4> QED BY <1>1, <1>2, <1>4, <3>2, <4>2 DEF Before
    <3> QED BY <3>1, <3>2
  <2> QED BY <2>1
<1>6. RemoveAt(s, i) = a \o b
  BY DEF RemoveAt, a, b
<1>7. DOMAIN (a \o b) = 1..(Len(s) - 1)
  BY <1>4
<1> QED BY <1>1, <1>4, <1>5, <1>6, <1>7
-----------------------------------------------------------------------------
(* Types.  What is live, what is kept of a leg's answer, and the messages,  *)
(* each with the fields its kind has.                                       *)
LiveType == [gen : 1..MaxGen, prog : Programs \ {NoSession}, chunks : Nat,
             cursor : [Legs -> CursorType]]
ReadType == [value : {None, Unfinished, Decided}, lap : 0..MaxEpoch,
             filling : BOOLEAN]
KeptType == {NoPart} \cup ReadType
RunningType == [pc : {"record", "after", "value"}, call : CallType, ran : BOOLEAN]

IsRequest(m) ==
    /\ m.kind \in {"build", "extend", "rewind"} /\ m.gen \in 1..MaxGen
    /\ m.kind # "build" => m.leg \in Legs /\ m.epoch \in 0..MaxEpoch

IsReply(r) ==
    /\ r.gen \in 1..MaxGen
    /\ r.kind \in {"compiled", "no-session", "worker-error", "frames", "result",
                    "tm-value", "rxm-value"}
    /\ r.kind = "compiled" => /\ r.present \in [Legs -> BOOLEAN]
                              /\ r.value \in {None, Unfinished, Decided}
    /\ r.kind = "frames" => /\ r.leg \in Legs /\ r.epoch \in 0..MaxEpoch
                            /\ r.frames \in Seq(FrameType) /\ r.done \in DoneType
    /\ r.kind = "result" =>
          \A l \in Legs : r.part[l].value \in {None, Unfinished, Decided}
    /\ r.kind = "tm-value" => r.value \in {None, Unfinished, Decided}
    /\ r.kind = "rxm-value" => /\ Kind = "rxm-scratch"
                               /\ r.value \in {None, Unfinished, Decided}

(* What a step of a call may change.                                        *)
CallTypes ==
    /\ live = NoLive \/ live \in LiveType
    /\ recorded \in [Legs -> Nat] /\ allowance \in [Legs -> Nat]
    /\ recording \in [Legs -> BOOLEAN] /\ epoch \in [Legs -> 0..MaxEpoch]
    /\ suspended \in Seq(CallType)
    /\ running = Idle \/ running \in RunningType
    /\ throws \in 0..MaxThrows

PartTypes == posted \in [Legs -> KeptType] /\ rewoundFrom \in [Legs -> KeptType]

WorkerTypes ==
    /\ CallTypes /\ PartTypes
    /\ ready \in BOOLEAN /\ latest \in 0..MaxGen /\ waiting \in Seq(1..MaxGen)

PageTypes ==
    /\ gen \in 0..MaxGen /\ timer \in 0..MaxGen
    /\ awaitingRun \in BOOLEAN /\ results \in {"idle", "running"}
    /\ ring \in [Legs -> [frames : Seq(FrameType), first : Nat]]
    /\ done \in [Legs -> DoneType] /\ available \in [Legs -> BOOLEAN]
    /\ legEpoch \in [Legs -> 0..MaxEpoch] /\ legGen \in [Legs -> 0..MaxGen]
    /\ continues \in [Legs -> 0..MaxContinues]
    /\ readout \in [gen : 0..MaxGen, value : [Legs -> {None, Unfinished, Decided}]]
    /\ reported \in BOOLEAN
    /\ gen = 0 => \A l \in Legs : ~available[l]

QueueTypes ==
    /\ IsSeq(toWorker) /\ \A i \in DOMAIN toWorker : IsRequest(toWorker[i])
    /\ IsSeq(toPage) /\ \A i \in DOMAIN toPage : IsReply(toPage[i])

(* A cursor stands within its run and its cap, and took no more laps than   *)
(* its leg's epoch counts.                                                  *)
CursorFits(l) ==
    LET c == live.cursor[l]
    IN  c.pos <= c.cap /\ c.pos <= RunLength(l) /\ c.lap <= epoch[l]

CursorsFit == live # NoLive => \A l \in Legs : CursorFits(l)

(* The types of the run's invariant are these, less what they say of the    *)
(* messages.                                                                *)
LEMMA TypesImply ==
  WorkerTypes /\ PageTypes /\ NoLeakedHandle => TypeOK
<1> SUFFICES ASSUME WorkerTypes, PageTypes, NoLeakedHandle PROVE TypeOK
  OBVIOUS
<1>1. KeptType \subseteq PartType
  <2>1. ReadType \subseteq PartType
    BY DEF ReadType, PartType
  <2>2. 0 \in 0..MaxEpoch
    BY BoundsAssumption
  <2>3. NoPart \in PartType
    BY <2>2 DEF NoPart, PartType
  <2> QED BY <2>1, <2>3 DEF KeptType
<1>2. handles \subseteq 1..MaxGen
  BY DEF NoLeakedHandle, WorkerTypes, CallTypes, LiveType
<1>3. posted \in [Legs -> PartType] /\ rewoundFrom \in [Legs -> PartType]
  BY <1>1 DEF WorkerTypes, PartTypes
<1>4. \/ live = NoLive
      \/ /\ live.gen \in 1..MaxGen
         /\ live.prog \in Programs \ {NoSession} /\ live.chunks \in Nat
         /\ live.cursor \in [Legs -> CursorType]
  BY DEF WorkerTypes, CallTypes, LiveType
<1>5. /\ recorded \in [Legs -> Nat] /\ allowance \in [Legs -> Nat]
      /\ recording \in [Legs -> BOOLEAN] /\ epoch \in [Legs -> 0..MaxEpoch]
      /\ suspended \in Seq(CallType)
      /\ running = Idle \/ running \in RunningType
      /\ throws \in 0..MaxThrows
      /\ ready \in BOOLEAN /\ latest \in 0..MaxGen /\ waiting \in Seq(1..MaxGen)
  BY DEF WorkerTypes, CallTypes
<1> QED BY <1>2, <1>3, <1>4, <1>5 DEF TypeOK, PageTypes, RunningType

(* A leg that is there has a program.                                       *)
LEMMA PresentProgram ==
  ASSUME live \in LiveType, NEW l \in Legs
  PROVE  /\ RunLength(l) \in Nat
         /\ Present(l) => RunEnd(l) \in LegEnds
<1>1. live.prog.leg[l] \in LegProgram \cup {Absent}
  BY ProtocolAssumption DEF LiveType
<1> QED BY <1>1 DEF RunLength, RunEnd, Present, LegProgram, Absent

(* What a cursor reaches in n steps.                                        *)
LEMMA AdvancedCursor ==
  ASSUME live \in LiveType, NEW l \in Legs, CursorFits(l), Present(l),
         NEW n \in Nat, n <= Reach(l), NEW tried \in BOOLEAN
  PROVE  LET c == live.cursor[l]
             a == Advanced(l, n, tried)
         IN  /\ a \in CursorType
             /\ a.pos = c.pos + n /\ a.cap = c.cap /\ a.lap = c.lap
             /\ a.pos <= a.cap /\ a.pos <= RunLength(l)
             /\ a.status = "Running" => ~tried
<1> DEFINE c == live.cursor[l]
           a == Advanced(l, n, tried)
<1>1. c \in CursorType /\ c.pos \in Nat /\ c.cap \in Nat /\ c.pos <= c.cap
  BY DEF LiveType, CursorType, CursorFits
<1>2. RunLength(l) \in Nat /\ RunEnd(l) \in LegEnds /\ c.pos <= RunLength(l)
  BY PresentProgram DEF CursorFits
<1>3. c.pos + n <= c.cap /\ c.pos + n <= RunLength(l)
  <2>1. CASE c.status # "Running"
    BY <1>1, <1>2, <2>1 DEF Reach
  <2>2. CASE c.status = "Running"
    <3>1. n <= Min({RunLength(l), c.cap}) - c.pos
      BY <2>2 DEF Reach
    <3>2. /\ Min({RunLength(l), c.cap}) \in {RunLength(l), c.cap}
          /\ Min({RunLength(l), c.cap}) <= RunLength(l)
          /\ Min({RunLength(l), c.cap}) <= c.cap
      <4>1. RunLength(l) \in Int /\ c.cap \in Int
        BY <1>1, <1>2
      <4> QED BY <4>1, LeastOfTwo
    <3> QED BY <1>1, <1>2, <3>1, <3>2
  <2> QED BY <2>1, <2>2
<1>4. c.pos + n \in Nat
  BY <1>1, <1>2, <1>3
<1>5. StopStatus(l, c.pos + n) \in {"capped"} \cup LegEnds
  BY <1>2 DEF StopStatus
<1> DEFINE s == IF c.status # "Running" THEN c.status
                ELSE IF n > 0 /\ HaltsInStep(l, c.pos + n) THEN "ended"
                ELSE IF tried THEN StopStatus(l, c.pos + n) ELSE "Running"
<1>6. a = [c EXCEPT !.pos = c.pos + n, !.status = s]
  BY DEF Advanced
<1>7. s \in {"Running", "capped"} \cup LegEnds /\ (s = "Running" => ~tried)
  BY <1>1, <1>5 DEF CursorType, LegEnds
<1> HIDE DEF a, s
<1>8. a \in CursorType /\ a.pos = c.pos + n /\ a.cap = c.cap /\ a.lap = c.lap /\ a.status = s
  BY <1>1, <1>4, <1>6, <1>7 DEF CursorType
<1> QED BY <1>3, <1>7, <1>8 DEF a

(* A chunk in full: leg l's cursor came n steps further, as c, and its      *)
(* recording stopped for d.                                                 *)
Had(l, first) == recorded[l] + (IF first THEN 1 ELSE 0)

ChunkOf(call, first, others, n, c, d) ==
    LET l   == call.leg
        was == live.cursor[l]
    IN  /\ c.pos = was.pos + n /\ c.cap = was.cap /\ c.lap = was.lap
        /\ c.pos <= c.cap /\ c.pos <= RunLength(l)
        /\ n = 0 \/ Had(l, first) + n <= allowance[l]
        /\ live' = [live EXCEPT !.cursor[l] = c]
        /\ recorded' = [recorded EXCEPT ![l] = Had(l, first) + n]
        /\ Post([kind |-> "frames", gen |-> call.gen, leg |-> l, epoch |-> call.epoch,
                 frames |-> Frames(l, IF first THEN was.pos ELSE was.pos + 1,
                                   was.pos + n),
                 done |-> d])
        /\ recording' = [recording EXCEPT ![l] = (d = NotDone)]
        /\ running' = IF d = NotDone THEN Idle ELSE AtAfter(call, TRUE)
        /\ suspended' = IF d = NotDone THEN Append(others, call) ELSE others
        /\ UNCHANGED <<allowance, epoch, handles, throws>>

(* Every chunk of what is live is one of these.                             *)
LEMMA ChunkInFull ==
  ASSUME CallTypes, CursorsFit, live # NoLive, NEW call, call.leg \in Legs,
         Present(call.leg), NEW first \in BOOLEAN, NEW others,
         Chunk(call, first, others)
  PROVE  \E n \in Nat, c \in CursorType, d \in DoneType :
            ChunkOf(call, first, others, n, c, d)
<1> DEFINE l == call.leg
           was == live.cursor[l]
           had == Had(l, first)
           room == IF allowance[l] > had THEN allowance[l] - had ELSE 0
           n == Min({RecordChunk, room, Reach(l)})
           over == n < RecordChunk
           c == Advanced(l, n, over /\ n < room)
           d == IF ~over THEN NotDone
                ELSE IF n = room THEN "budget" ELSE c.status
<1>1. live \in LiveType /\ CursorFits(l)
  BY DEF CallTypes, CursorsFit
<1>2. had \in Nat /\ allowance[l] \in Nat
  BY DEF CallTypes, Had
<1>3. room \in Nat /\ (room = 0 \/ had + room = allowance[l])
  BY <1>2
<1>4. Reach(l) \in Nat
  <2>1. was \in CursorType /\ was.pos \in Nat /\ was.cap \in Nat
    BY <1>1 DEF LiveType, CursorType
  <2>2. RunLength(l) \in Nat
    BY <1>1, PresentProgram
  <2>3. was.pos <= was.cap /\ was.pos <= RunLength(l)
    BY <1>1 DEF CursorFits
  <2>4. Min({RunLength(l), was.cap}) \in {RunLength(l), was.cap}
    <3>1. RunLength(l) \in Int /\ was.cap \in Int
      BY <2>1, <2>2
    <3> QED BY <3>1, LeastOfTwo
  <2> QED BY <2>1, <2>2, <2>3, <2>4 DEF Reach
<1>5. RecordChunk \in Nat
  BY ProtocolAssumption
<1>6. n \in Nat /\ n <= room /\ n <= Reach(l) /\ n <= RecordChunk
  <2>1. RecordChunk \in Int /\ room \in Int /\ Reach(l) \in Int
    BY <1>3, <1>4, <1>5
  <2>2. n \in {RecordChunk, room, Reach(l)} /\ n <= room /\ n <= Reach(l) /\ n <= RecordChunk
    BY <2>1, LeastOfThree
  <2> QED BY <1>3, <1>4, <1>5, <2>2
<1>7. Chunk(call, first, others) <=>
        /\ live' = [live EXCEPT !.cursor[l] = c]
        /\ recorded' = [recorded EXCEPT ![l] = had + n]
        /\ Post([kind |-> "frames", gen |-> call.gen, leg |-> l, epoch |-> call.epoch,
                 frames |-> Frames(l, IF first THEN was.pos ELSE was.pos + 1,
                                   was.pos + n),
                 done |-> d])
        /\ recording' = [recording EXCEPT ![l] = (d = NotDone)]
        /\ running' = IF d = NotDone THEN Idle ELSE AtAfter(call, TRUE)
        /\ suspended' = IF d = NotDone THEN Append(others, call) ELSE others
        /\ UNCHANGED <<allowance, epoch, handles, throws>>
  BY DEF Chunk, Had
<1> HIDE DEF room, n
<1>8. /\ c \in CursorType
      /\ c.pos = was.pos + n /\ c.cap = was.cap /\ c.lap = was.lap
      /\ c.pos <= c.cap /\ c.pos <= RunLength(l)
      /\ c.status = "Running" => ~(over /\ n < room)
  <2>1. (over /\ n < room) \in BOOLEAN
    OBVIOUS
  <2> QED BY <1>1, <1>6, <2>1, AdvancedCursor
<1> HIDE DEF c
<1>9. d \in DoneType
  BY <1>3, <1>6, <1>8 DEF DoneType, CursorType
<1>10. n = 0 \/ had + n <= allowance[l]
  BY <1>2, <1>3, <1>6
<1> HIDE DEF d
<1>11. ChunkOf(call, first, others, n, c, d)
  BY <1>7, <1>8, <1>10 DEF ChunkOf
<1> QED BY <1>6, <1>8, <1>9, <1>11

(* The frames of a chunk are the steps it recorded.                         *)
LEMMA FramesOfChunk ==
  ASSUME live \in LiveType, NEW l \in Legs, NEW from \in Nat, NEW to \in Nat,
         from <= to + 1
  PROVE  /\ Frames(l, from, to) \in Seq(FrameType)
         /\ Len(Frames(l, from, to)) = to - from + 1
         /\ \A i \in 1..(to - from + 1) :
               Frames(l, from, to)[i] = [gen |-> live.gen, lap |-> live.cursor[l].lap,
                                         step |-> from + i - 1]
<1> DEFINE n == to - from + 1
           f == Frames(l, from, to)
<1>1. n \in Nat /\ to \in Nat
  OBVIOUS
<1>2. f = [i \in 1..n |-> [gen |-> live.gen, lap |-> live.cursor[l].lap,
                           step |-> from + i - 1]]
  BY DEF Frames
<1>3. live.gen \in 1..MaxGen /\ live.cursor[l].lap \in 0..MaxEpoch
  BY DEF LiveType, CursorType
<1>4. \A i \in 1..n : from + i - 1 \in Nat
  BY <1>1
<1>5. \A i \in 1..n : [gen |-> live.gen, lap |-> live.cursor[l].lap,
                       step |-> from + i - 1] \in FrameType
  BY <1>3, <1>4 DEF FrameType
<1> HIDE DEF f, n
<1>6. f \in Seq(FrameType) /\ Len(f) = n
  <2>1. f \in [1..n -> FrameType]
    BY <1>2, <1>5
  <2> QED BY <1>1, <2>1, FunctionIsSeq
<1> QED BY <1>2, <1>6 DEF f, n

(* A reply of generation g is posted, if any is.                            *)
PostsOf(g) ==
    \/ toPage' = toPage
    \/ \E r : IsReply(r) /\ r.gen = g /\ toPage' = Append(toPage, r)

(* What a handler leaves behind is of the types that it found.              *)
CallsFit == CallTypes /\ CursorsFit

(* A chunk.                                                                 *)
LEMMA ChunkTypes ==
  ASSUME CallsFit, live # NoLive, NEW call \in CallType, Present(call.leg),
         NEW first \in BOOLEAN, NEW others \in Seq(CallType), Chunk(call, first, others)
  PROVE  CallsFit' /\ PostsOf(call.gen)
<1> DEFINE l == call.leg
           was == live.cursor[l]
<1>0. /\ l \in Legs /\ call.gen \in 1..MaxGen /\ call.epoch \in 0..MaxEpoch
      /\ live \in LiveType
  BY DEF CallType, CallsFit, CallTypes
<1>1. PICK n \in Nat, c \in CursorType, d \in DoneType :
         ChunkOf(call, first, others, n, c, d)
  BY <1>0, ChunkInFull DEF CallsFit
<1>2. live' = [live EXCEPT !.cursor[l] = c]
  BY <1>1 DEF ChunkOf
<1>3. /\ live' \in LiveType /\ live'.prog = live.prog
      /\ live'.cursor = [live.cursor EXCEPT ![l] = c]
  BY <1>0, <1>2 DEF LiveType
<1>4. CallTypes'
  <2>1. Had(l, first) + n \in Nat
    BY <1>0 DEF Had, CallsFit, CallTypes
  <2>2. recorded' \in [Legs -> Nat] /\ recording' \in [Legs -> BOOLEAN]
    BY <1>0, <1>1, <2>1 DEF ChunkOf, CallsFit, CallTypes
  <2>3. suspended' \in Seq(CallType)
    BY <1>1 DEF ChunkOf
  <2>4. running' = Idle \/ running' \in RunningType
    BY <1>1 DEF ChunkOf, AtAfter, RunningType
  <2>5. UNCHANGED <<allowance, epoch, throws>>
    BY <1>1 DEF ChunkOf
  <2> QED BY <1>3, <2>2, <2>3, <2>4, <2>5 DEF CallsFit, CallTypes
<1>5. CursorsFit'
  <2>1. live' # NoLive => live \in LiveType /\ epoch' = epoch
    BY <1>0, <1>1 DEF ChunkOf
  <2>2. ASSUME NEW k \in Legs PROVE CursorFits(k)'
    <3>1. RunLength(k)' = RunLength(k) /\ epoch'[k] = epoch[k]
      BY <1>1, <1>3 DEF RunLength, ChunkOf
    <3>2. CursorFits(k)
      BY DEF CallsFit, CursorsFit
    <3>3. CASE k # l
      <4>1. live'.cursor[k] = live.cursor[k]
        BY <1>0, <1>3, <3>3 DEF LiveType
      <4> QED BY <3>1, <3>2, <4>1 DEF CursorFits
    <3>4. CASE k = l
      <4>1. live'.cursor[k] = c
        BY <1>0, <1>3, <3>4 DEF LiveType
      <4>2. c.pos <= c.cap /\ c.pos <= RunLength(k) /\ c.lap = was.lap
        BY <1>1, <3>4 DEF ChunkOf
      <4> QED BY <3>1, <3>2, <3>4, <4>1, <4>2 DEF CursorFits
    <3> QED BY <3>3, <3>4
  <2> QED BY <2>2 DEF CursorsFit
<1>6. PostsOf(call.gen)
  <2> DEFINE from == IF first THEN was.pos ELSE was.pos + 1
             fs == Frames(l, from, was.pos + n)
             r == [kind |-> "frames", gen |-> call.gen, leg |-> l, epoch |-> call.epoch,
                   frames |-> fs, done |-> d]
  <2>1. was.pos \in Nat /\ c.pos = was.pos + n /\ c.pos \in Nat
    <3>1. was \in CursorType
      BY <1>0 DEF LiveType
    <3>2. c.pos = was.pos + n
      BY <1>1 DEF ChunkOf
    <3>3. was.pos \in Nat /\ c.pos \in Nat
      BY <3>1 DEF CursorType
    <3> QED BY <3>2, <3>3
  <2>2. fs \in Seq(FrameType)
    <3>1. from \in Nat /\ was.pos + n \in Nat /\ from <= was.pos + n + 1
      <4>1. \A p \in Nat : /\ p + n \in Nat /\ p + 1 \in Nat
                           /\ p <= p + n + 1 /\ p + 1 <= p + n + 1
        OBVIOUS
      <4> QED BY <2>1, <4>1
    <3> QED BY <1>0, <3>1, FramesOfChunk
  <2>3. toPage' = Append(toPage, r)
    BY <1>1 DEF ChunkOf, Post
  <2> HIDE DEF fs
  <2>4. IsReply(r) /\ r.gen = call.gen
    BY <1>0, <2>2 DEF IsReply
  <2> HIDE DEF r
  <2> QED BY <2>3, <2>4 DEF PostsOf
<1> QED BY <1>4, <1>5, <1>6 DEF CallsFit

(* A build: new books, and a cursor for each leg if it succeeds.            *)
LEMMA BuildTypes ==
  ASSUME CallsFit, NEW g \in 1..MaxGen, Build(g)
  PROVE  CallsFit' /\ PartTypes' /\ PostsOf(g)
<1>0. {History, RecordChunk, InitialCap} \subseteq Nat /\ 0 \in 0..MaxEpoch
      /\ FillOrder[1] \in Legs
  <2>1. Len(FillOrder) \in Nat \ {0} /\ DOMAIN FillOrder = 1..Len(FillOrder)
    BY ProtocolAssumption
  <2>2. 1 \in DOMAIN FillOrder
    BY <2>1
  <2>3. FillOrder[1] \in Legs
    BY <2>2 DEF Legs, ToSet
  <2> QED BY <2>3, ProtocolAssumption, BoundsAssumption
<1>1. /\ recorded' \in [Legs -> Nat] /\ allowance' \in [Legs -> Nat]
      /\ recording' \in [Legs -> BOOLEAN] /\ epoch' = [l \in Legs |-> 0]
      /\ PartTypes'
  BY <1>0 DEF Build, NewBooks, PartTypes, KeptType
<1>2. suspended' \in Seq(CallType)
  BY DEF Build, CallsFit, CallTypes
<1>3. throws' \in 0..MaxThrows
  BY ThrowsAssumption DEF Build, CallsFit, CallTypes
<1>4. running' = Idle \/ running' = AtRecord(Call("run", g, FillOrder[1], 0))
  BY DEF Build
<1>5. running' = Idle \/ running' \in RunningType
  <2>1. Call("run", g, FillOrder[1], 0) \in CallType
    BY <1>0 DEF Call, CallType
  <2>2. AtRecord(Call("run", g, FillOrder[1], 0)) \in RunningType
    BY <2>1 DEF AtRecord, RunningType
  <2> QED BY <1>4, <2>2
<1>6. \/ live' = NoLive
      \/ \E p \in Programs \ {NoSession} :
            live' = [gen |-> g, prog |-> p, chunks |-> p.chunks,
                     cursor |-> [l \in Legs |-> OpenCursor(0)]]
  BY DEF Build
<1>7. OpenCursor(0) \in CursorType
  BY <1>0 DEF OpenCursor, CursorType
<1>8. live' = NoLive \/ (live' \in LiveType /\ live'.cursor = [l \in Legs |-> OpenCursor(0)])
  <2>1. CASE live' = NoLive
    BY <2>1
  <2>2. ASSUME NEW p \in Programs \ {NoSession},
               live' = [gen |-> g, prog |-> p, chunks |-> p.chunks,
                        cursor |-> [l \in Legs |-> OpenCursor(0)]]
        PROVE  live' \in LiveType /\ live'.cursor = [l \in Legs |-> OpenCursor(0)]
    <3>1. p.chunks \in Nat
      BY ProtocolAssumption
    <3>2. [l \in Legs |-> OpenCursor(0)] \in [Legs -> CursorType]
      BY <1>7
    <3> QED BY <2>2, <3>1, <3>2 DEF LiveType
  <2> QED BY <1>6, <2>1, <2>2
<1>9. CallTypes'
  BY <1>0, <1>1, <1>2, <1>3, <1>5, <1>8 DEF CallTypes
<1>10. CursorsFit'
  <2>1. ASSUME live' # NoLive, NEW l \in Legs PROVE CursorFits(l)'
    <3>1. live' \in LiveType /\ live'.cursor[l] = OpenCursor(0)
      BY <1>8, <2>1
    <3>2. (live \in LiveType => RunLength(l) \in Nat)'
      BY PresentProgram, PTL
    <3> QED BY <1>0, <1>1, <3>1, <3>2 DEF CursorFits, OpenCursor
  <2> QED BY <2>1 DEF CursorsFit
<1>11. PostsOf(g)
  <2>1. \/ toPage' = toPage
        \/ toPage' = Append(toPage, [kind |-> "no-session", gen |-> g])
        \/ \E p \in Programs : toPage' = Append(toPage, CompiledReply(g, p))
        \/ toPage' = Append(toPage, [kind |-> "worker-error", gen |-> g])
    BY DEF Build, Post
  <2>2. \A p : IsReply(CompiledReply(g, p)) /\ CompiledReply(g, p).gen = g
    BY DEF IsReply, CompiledReply
  <2>3. /\ IsReply([kind |-> "no-session", gen |-> g])
        /\ IsReply([kind |-> "worker-error", gen |-> g])
    BY DEF IsReply
  <2> QED BY <2>1, <2>2, <2>3 DEF PostsOf
<1> QED BY <1>1, <1>9, <1>10, <1>11 DEF CallsFit

(* What is live goes.                                                       *)
LEMMA ThrowTypes ==
  ASSUME CallsFit, NEW call \in CallType, NEW others \in Seq(CallType), Throw(call, others)
  PROVE  CallsFit' /\ PostsOf(call.gen)
<1>1. CallTypes'
  <2>1. throws' \in 0..MaxThrows
    BY ThrowsAssumption DEF Throw, CallsFit, CallTypes
  <2>2. recording' \in [Legs -> BOOLEAN]
    BY DEF Throw, CallsFit, CallTypes
  <2>3. UNCHANGED <<recorded, allowance, epoch>> /\ running' = Idle /\ suspended' = others
    BY DEF Throw
  <2>4. live' = NoLive
    BY DEF Throw
  <2> QED BY <2>1, <2>2, <2>3, <2>4 DEF CallsFit, CallTypes
<1>2. live' = NoLive
  BY DEF Throw
<1>3. IsReply([kind |-> "worker-error", gen |-> call.gen])
  BY DEF IsReply, CallType
<1> QED BY <1>1, <1>2, <1>3 DEF CallsFit, CursorsFit, PostsOf, Throw, Post

(* What a leg answers is a reading.                                         *)
LEMMA ReadingTypes ==
  ASSUME live \in LiveType, NEW l \in Legs PROVE ReadPart(l) \in ReadType
<1>1. Value(l) \in {None, Unfinished, Decided}
  BY DEF Value
<1>2. 0 \in 0..MaxEpoch /\ live.cursor[l].lap \in 0..MaxEpoch
  BY BoundsAssumption DEF LiveType, CursorType
<1>3. Refilling(l) \in BOOLEAN
  BY DEF Refilling
<1> QED BY <1>1, <1>2, <1>3 DEF ReadPart, Part, ReadType

(* A reading posted in place of those before.                               *)
LEMMA ResultTypes ==
  ASSUME live \in LiveType, CallTypes, PartTypes, NEW g \in 1..MaxGen, PostResult(g)
  PROVE  PartTypes' /\ PostsOf(g)
<1> DEFINE read == [l \in Legs |-> ReadPart(l)]
           held == IF \E l \in Legs : posted[l] # NoPart THEN posted ELSE rewoundFrom
           next == KeepInFlight(held, read, recording)
           new == KeepDecided(posted, next)
<1>1. read \in [Legs -> ReadType]
  BY ReadingTypes
<1>2. held \in [Legs -> KeptType]
  BY DEF PartTypes
<1> HIDE DEF read, held
<1>3. next \in [Legs -> ReadType]
  BY <1>1, <1>2 DEF KeepInFlight, KeptType
<1> HIDE DEF next
<1>4. new \in [Legs -> ReadType]
  <2>1. ASSUME NEW l \in Legs
        PROVE (IF posted[l] = NoPart THEN next[l]
               ELSE KeepDecidedPart(posted[l], next[l])) \in ReadType
    BY <1>3 DEF PartTypes, KeptType, KeepDecidedPart
  <2> QED BY <2>1 DEF KeepDecided
<1> DEFINE r == [kind |-> "result", gen |-> g, part |-> new]
<1>5. posted' = new /\ toPage' = Append(toPage, r) /\ UNCHANGED rewoundFrom
  BY DEF PostResult, Post, read, held, next
<1> HIDE DEF new
<1>6. PartTypes'
  BY <1>4, <1>5 DEF PartTypes, KeptType
<1>7. \A l \in Legs : new[l].value \in {None, Unfinished, Decided}
  BY <1>4 DEF ReadType
<1>8. IsReply(r) /\ r.gen = g
  BY <1>7 DEF IsReply
<1> HIDE DEF r
<1> QED BY <1>5, <1>6, <1>8 DEF PostsOf

-----------------------------------------------------------------------------
(* The generations of the calls, and of the replies on their way, are of    *)
(* builds already taken up.                                                 *)
CallsOld ==
    /\ \A i \in DOMAIN suspended : Old(suspended[i].gen)
    /\ running # Idle => Old(running.call.gen)
RepliesOld == \A i \in DOMAIN toPage : Old(toPage[i].gen)

(* A loop of what is live is a leg's that is there, and of an epoch the leg *)
(* has reached; a rewind's is never the first.                              *)
LoopFits(c) ==
    /\ c.by = "rewind" => c.epoch > 0
    /\ c.by # "value" /\ Owns(c.gen) => Present(c.leg) /\ c.epoch <= epoch[c.leg]
LoopsFit == \A i \in DOMAIN suspended : LoopFits(suspended[i])

(* Only a value run is a value's call, and a rewind's call finds its leg    *)
(* under an epoch of its own.                                               *)
RunningFits ==
    running # Idle =>
        /\ running.pc = "value" <=> running.call.by = "value"
        /\ running.pc = "record" /\ running.call.by = "rewind" =>
              epoch[running.call.leg] > 0

(* What calls are proved to keep, apart from whose turn it is.              *)
CallInv == CallsFit /\ PartTypes /\ CallsOld /\ LoopsFit /\ RunningFits

(* A reply, if one is posted, is of a build taken up.                       *)
TellsOld == \E g : Old(g) /\ PostsOf(g)

(* The call that holds the thread.                                          *)
LEMMA RunningCall ==
  ASSUME CallInv, running # Idle
  PROVE  /\ running \in RunningType /\ running.call \in CallType
         /\ Old(running.call.gen)
         /\ running.pc # "value" => running.call.by # "value"
  BY DEF CallInv, CallsFit, CallTypes, CallsOld, RunningFits, RunningType

(* A step that moves no cursor and writes no book.                          *)
LEMMA CallsFitKept ==
  ASSUME CallsFit, UNCHANGED <<live, recorded, allowance, recording, epoch, throws>>,
         suspended' \in Seq(CallType), running' = Idle \/ running' \in RunningType
  PROVE  CallsFit'
<1>1. CallTypes'
  BY DEF CallsFit, CallTypes
<1>2. CursorsFit'
  BY DEF CallsFit, CursorsFit, CursorFits, RunLength
<1> QED BY <1>1, <1>2 DEF CallsFit

(* A loop starts.                                                           *)
LEMMA EnterTypes ==
  ASSUME CallInv, EnterRecord PROVE CallsFit' /\ PartTypes' /\ TellsOld
<1> DEFINE asked == running.call
           call == [asked EXCEPT !.epoch = epoch[asked.leg]]
<1>1. running # Idle
  BY DEF EnterRecord, Idle
<1>2. asked \in CallType /\ Old(asked.gen)
  BY <1>1, RunningCall
<1>3. call \in CallType /\ call.gen = asked.gen /\ call.leg = asked.leg /\ call.by = asked.by
  <2>1. epoch[asked.leg] \in 0..MaxEpoch
    BY <1>2 DEF CallInv, CallsFit, CallTypes, CallType
  <2> QED BY <1>2, <2>1 DEF CallType
<1>4. UNCHANGED parts
  BY DEF EnterRecord
<1>5. PartTypes'
  BY <1>4 DEF parts, CallInv, PartTypes
<1>6. CASE /\ running' = AtAfter(call, FALSE)
           /\ UNCHANGED <<toPage, live, handles, books, suspended, throws>>
  <2>1. running' \in RunningType
    BY <1>3, <1>6 DEF AtAfter, RunningType
  <2>2. UNCHANGED <<live, recorded, allowance, recording, epoch, suspended, throws, toPage>>
    BY <1>6 DEF books
  <2>3. CallsFit'
    BY <2>1, <2>2, CallsFitKept DEF CallInv, CallsFit, CallTypes
  <2>4. TellsOld
    BY <1>2, <2>2 DEF TellsOld, PostsOf
  <2> QED BY <1>5, <2>3, <2>4
<1>7. CASE ~TurnedAway(call) /\ Chunk(call, First(call), suspended)
  <2>1. live # NoLive /\ Present(call.leg)
    BY <1>7 DEF TurnedAway, Holds, Owns
  <2>2. First(call) \in BOOLEAN /\ suspended \in Seq(CallType)
    BY DEF First, CallInv, CallsFit, CallTypes
  <2>3. CallsFit' /\ PostsOf(call.gen)
    BY <1>3, <1>7, <2>1, <2>2, ChunkTypes DEF CallInv
  <2> QED BY <1>2, <1>3, <1>5, <2>3 DEF TellsOld
<1>8. CASE Throw(call, suspended)
  <2>1. CallsFit' /\ PostsOf(call.gen)
    BY <1>3, <1>8, ThrowTypes DEF CallInv, CallsFit, CallTypes
  <2> QED BY <1>2, <1>3, <1>5, <2>1 DEF TellsOld
<1> QED BY <1>6, <1>7, <1>8 DEF EnterRecord

(* A suspended call, and those that stay when it is taken up.               *)
LEMMA SuspendedCall ==
  ASSUME CallInv, NEW i \in DOMAIN suspended
  PROVE  /\ suspended[i] \in CallType /\ Old(suspended[i].gen) /\ LoopFits(suspended[i])
         /\ RemoveAt(suspended, i) \in Seq(CallType)
         /\ suspended \in Seq(CallType)
<1>1. suspended \in Seq(CallType)
  BY DEF CallInv, CallsFit, CallTypes
<1>2. suspended[i] \in CallType
  BY <1>1
<1> QED BY <1>1, <1>2, Removed DEF CallInv, CallsOld, LoopsFit

(* A loop wakes.                                                            *)
LEMMA ResumeTypes ==
  ASSUME CallInv, NEW l \in Legs, ResumeRecord(l) PROVE CallsFit' /\ PartTypes' /\ TellsOld
<1>1. PICK i \in DOMAIN suspended :
        LET call   == suspended[i]
            others == RemoveAt(suspended, i)
        IN  /\ call.by # "value" /\ call.leg = l
            /\ IF Owns(call.gen) /\ epoch[l] = call.epoch
               THEN Chunk(call, FALSE, others) \/ Throw(call, others)
               ELSE /\ suspended' = others
                    /\ running' = AtAfter(call, TRUE)
                    /\ UNCHANGED <<toPage, live, handles, books, throws>>
  BY DEF ResumeRecord
<1> DEFINE call == suspended[i]
           others == RemoveAt(suspended, i)
<1>2. /\ call \in CallType /\ Old(call.gen) /\ LoopFits(call)
      /\ others \in Seq(CallType)
  BY SuspendedCall
<1> HIDE DEF call, others
<1>3. PartTypes'
  BY DEF ResumeRecord, parts, CallInv, PartTypes
<1>4. CASE Owns(call.gen) /\ Chunk(call, FALSE, others)
  <2>1. live # NoLive /\ Present(call.leg)
    BY <1>1, <1>2, <1>4 DEF Owns, LoopFits, call
  <2>2. CallsFit' /\ PostsOf(call.gen)
    BY <1>2, <1>4, <2>1, ChunkTypes DEF CallInv
  <2> QED BY <1>2, <1>3, <2>2 DEF TellsOld
<1>5. CASE Throw(call, others)
  <2>1. CallsFit' /\ PostsOf(call.gen)
    BY <1>2, <1>5, ThrowTypes DEF CallInv
  <2> QED BY <1>2, <1>3, <2>1 DEF TellsOld
<1>6. CASE /\ suspended' = others
           /\ running' = AtAfter(call, TRUE)
           /\ UNCHANGED <<toPage, live, handles, books, throws>>
  <2>1. running' \in RunningType
    BY <1>2, <1>6 DEF AtAfter, RunningType
  <2>2. UNCHANGED <<live, recorded, allowance, recording, epoch, throws, toPage>>
    BY <1>6 DEF books
  <2>3. CallsFit'
    BY <1>2, <1>6, <2>1, <2>2, CallsFitKept DEF CallInv
  <2>4. TellsOld
    BY <1>2, <2>2 DEF TellsOld, PostsOf
  <2> QED BY <1>3, <2>3, <2>4
<1> QED BY <1>1, <1>4, <1>5, <1>6 DEF call, others

(* A call answers, or throws in the attempt.                                *)
LEMMA AnswerTypes ==
  ASSUME CallInv, NEW call \in CallType, Old(call.gen), NEW P, Answer(call, P),
         P => PartTypes' /\ PostsOf(call.gen), UNCHANGED books
  PROVE  CallsFit' /\ PartTypes' /\ TellsOld
<1>0. UNCHANGED <<recorded, allowance, recording, epoch>> /\ suspended' \in Seq(CallType)
  BY DEF books, Answer, CallInv, CallsFit, CallTypes
<1>1. CASE P /\ running' = Idle /\ UNCHANGED <<live, throws>>
  <2>1. CallsFit'
    BY <1>0, <1>1, CallsFitKept DEF CallInv
  <2> QED BY <1>1, <2>1 DEF TellsOld
<1>2. CASE /\ throws < MaxThrows /\ throws' = throws + 1 /\ live' = NoLive
           /\ Post([kind |-> "worker-error", gen |-> call.gen])
           /\ running' = Idle /\ UNCHANGED <<parts, suspended>>
  <2>1. throws' \in 0..MaxThrows
    BY <1>2, ThrowsAssumption DEF CallInv, CallsFit, CallTypes
  <2>2. CallTypes'
    BY <1>0, <1>2, <2>1 DEF CallInv, CallsFit, CallTypes
  <2>3. CursorsFit'
    BY <1>2 DEF CursorsFit
  <2>4. IsReply([kind |-> "worker-error", gen |-> call.gen])
    BY DEF IsReply, CallType
  <2>5. PostsOf(call.gen)
    BY <1>2, <2>4 DEF PostsOf, Post
  <2>6. PartTypes'
    BY <1>2 DEF parts, CallInv, PartTypes
  <2> QED BY <2>2, <2>3, <2>5, <2>6 DEF CallsFit, TellsOld
<1> QED BY <1>1, <1>2 DEF Answer

(* The leg after another of a run.                                          *)
LEMMA NextLeg ==
  ASSUME NEW l \in Legs
  PROVE  LET at == CHOOSE i \in DOMAIN FillOrder : FillOrder[i] = l
         IN  /\ at \in DOMAIN FillOrder /\ FillOrder[at] = l
             /\ at < Len(FillOrder) => /\ at + 1 \in DOMAIN FillOrder
                                       /\ FillOrder[at + 1] \in Legs
<1> DEFINE at == CHOOSE i \in DOMAIN FillOrder : FillOrder[i] = l
<1>1. \E i \in DOMAIN FillOrder : FillOrder[i] = l
  BY DEF Legs, ToSet
<1>2. at \in DOMAIN FillOrder /\ FillOrder[at] = l
  BY <1>1
<1> HIDE DEF at
<1>3. DOMAIN FillOrder = 1..Len(FillOrder) /\ Len(FillOrder) \in Nat
  BY ProtocolAssumption
<1>4. at < Len(FillOrder) => at + 1 \in DOMAIN FillOrder
  BY <1>2, <1>3
<1> QED BY <1>2, <1>4 DEF Legs, ToSet, at

(* A call whose turn it is goes on with nothing posted.                     *)
LEMMA GoesOnTypes ==
  ASSUME CallInv, running # Idle, running' = Idle \/ running' \in RunningType,
         UNCHANGED <<toPage, live, books, parts, suspended, throws>>
  PROVE  CallsFit' /\ PartTypes' /\ TellsOld
<1>1. UNCHANGED <<recorded, allowance, recording, epoch>> /\ suspended' \in Seq(CallType)
  BY DEF books, CallInv, CallsFit, CallTypes
<1>2. CallsFit'
  BY <1>1, CallsFitKept DEF CallInv
<1>3. PartTypes'
  BY DEF parts, CallInv, PartTypes
<1>4. TellsOld
  BY RunningCall DEF TellsOld, PostsOf
<1> QED BY <1>2, <1>3, <1>4

(* A run's call goes on to its next leg, to the value run or to its answer. *)
LEMMA AfterRunTypes ==
  ASSUME CallInv, AfterRun PROVE CallsFit' /\ PartTypes' /\ TellsOld
<1> DEFINE call == running.call
           at == CHOOSE i \in DOMAIN FillOrder : FillOrder[i] = call.leg
<1>1. running # Idle /\ UNCHANGED books
  BY DEF AfterRun, Returned, Idle
<1>2. call \in CallType /\ Old(call.gen)
  BY <1>1, RunningCall
<1>3. CASE /\ at < Len(FillOrder)
           /\ running' = AtRecord([call EXCEPT !.leg = FillOrder[at + 1]])
           /\ UNCHANGED <<toPage, live, handles, parts, suspended, throws>>
  <2>1. FillOrder[at + 1] \in Legs
    BY <1>2, <1>3, NextLeg DEF CallType
  <2>2. [call EXCEPT !.leg = FillOrder[at + 1]] \in CallType
    BY <1>2, <2>1 DEF CallType
  <2>3. running' \in RunningType
    BY <1>3, <2>2 DEF AtRecord, RunningType
  <2> QED BY <1>1, <1>3, <2>3, GoesOnTypes
<1>4. CASE /\ running' = AtValue([call EXCEPT !.by = "value"])
           /\ UNCHANGED <<toPage, live, handles, parts, suspended, throws>>
  <2>1. [call EXCEPT !.by = "value"] \in CallType
    BY <1>2 DEF CallType
  <2>2. running' \in RunningType
    BY <1>4, <2>1 DEF AtValue, RunningType
  <2> QED BY <1>1, <1>4, <2>2, GoesOnTypes
<1>5. CASE Answers(call.gen) /\ Answer(call, PostResult(call.gen))
  <2>1. live \in LiveType /\ call.gen \in 1..MaxGen
    BY <1>2, <1>5 DEF Answers, Owns, CallInv, CallsFit, CallTypes, CallType
  <2>2. PostResult(call.gen) => PartTypes' /\ PostsOf(call.gen)
    BY <2>1, ResultTypes DEF CallInv, CallsFit
  <2> QED BY <1>1, <1>2, <1>5, <2>2, AnswerTypes
<1>6. CASE NoAnswer
  BY <1>1, <1>6, GoesOnTypes DEF NoAnswer
<1> QED BY <1>3, <1>4, <1>5, <1>6 DEF AfterRun

(* A continue's call answers, or posts nothing.                             *)
LEMMA AfterExtendTypes ==
  ASSUME CallInv, AfterExtend PROVE CallsFit' /\ PartTypes' /\ TellsOld
<1> DEFINE call == running.call
           RxmAnswer == /\ Post([kind |-> "rxm-value", gen |-> call.gen,
                              value |-> Value("rxm")])
                     /\ UNCHANGED parts
<1>1. running # Idle /\ UNCHANGED books
  BY DEF AfterExtend, Returned, Idle
<1>2. call \in CallType /\ Old(call.gen) /\ call.gen \in 1..MaxGen
  BY <1>1, RunningCall DEF CallType
<1>3. CASE Owns(call.gen) /\ Answer(call, PostResult(call.gen))
  <2>1. live \in LiveType
    BY <1>3 DEF Owns, CallInv, CallsFit, CallTypes
  <2>2. PostResult(call.gen) => PartTypes' /\ PostsOf(call.gen)
    BY <1>2, <2>1, ResultTypes DEF CallInv, CallsFit
  <2> QED BY <1>1, <1>2, <1>3, <2>2, AnswerTypes
<1>4. CASE Kind = "rxm-scratch" /\ Answer(call, RxmAnswer)
  <2>1. RxmAnswer => PartTypes' /\ PostsOf(call.gen)
    <3>1. Value("rxm") \in {None, Unfinished, Decided}
      BY DEF Value
    <3> DEFINE r == [kind |-> "rxm-value", gen |-> call.gen, value |-> Value("rxm")]
    <3>2. IsReply(r) /\ r.gen = call.gen
      BY <1>2, <1>4, <3>1 DEF IsReply
    <3>3. RxmAnswer => toPage' = Append(toPage, r) /\ UNCHANGED parts
      BY DEF Post
    <3> HIDE DEF r, RxmAnswer
    <3> QED BY <3>2, <3>3 DEF PostsOf, parts, CallInv, PartTypes
  <2> HIDE DEF RxmAnswer
  <2> QED BY <1>1, <1>2, <1>4, <2>1, AnswerTypes
<1>5. CASE NoAnswer
  BY <1>1, <1>5, GoesOnTypes DEF NoAnswer
<1> QED BY <1>3, <1>4, <1>5 DEF AfterExtend

(* A rewind's call posts nothing.                                           *)
LEMMA AfterRewindTypes ==
  ASSUME CallInv, AfterRewind PROVE CallsFit' /\ PartTypes' /\ TellsOld
<1>1. running # Idle /\ UNCHANGED books /\ NoAnswer
  BY DEF AfterRewind, Returned, Idle
<1> QED BY <1>1, GoesOnTypes DEF NoAnswer

(* A chunk of a value run.                                                  *)
LEMMA ValueChunkTypes ==
  ASSUME CallInv, NEW call \in CallType, Old(call.gen), NEW others \in Seq(CallType),
         ValueChunk(call, others), UNCHANGED parts
  PROVE  CallsFit' /\ PartTypes' /\ TellsOld
<1>0. PartTypes' /\ call.gen \in 1..MaxGen
  BY DEF parts, CallInv, PartTypes, CallType
<1>1. CASE /\ suspended' = others /\ running' = Idle
           /\ UNCHANGED <<toPage, live, books, throws>>
  <2>1. CallsFit'
    BY <1>1, CallsFitKept DEF CallInv, books
  <2> QED BY <1>0, <1>1, <2>1 DEF TellsOld, PostsOf
<1>2. CASE /\ HasValueRun(call.gen)
           /\ live' = [live EXCEPT !.chunks = @ - 1]
           /\ Post([kind |-> "tm-value", gen |-> call.gen,
                    value |-> IF live.chunks = 1 THEN Decided ELSE Unfinished])
           /\ suspended' = IF live.chunks = 1 THEN others ELSE Append(others, call)
           /\ running' = Idle
           /\ UNCHANGED <<handles, books, throws>>
  <2>1. live \in LiveType /\ live.chunks > 0
    BY <1>2 DEF HasValueRun, Owns, CallInv, CallsFit, CallTypes
  <2>2. live' \in LiveType /\ live'.prog = live.prog /\ live'.cursor = live.cursor
    BY <1>2, <2>1 DEF LiveType
  <2>3. suspended' \in Seq(CallType)
    BY <1>2
  <2>4. UNCHANGED <<recorded, allowance, recording, epoch>>
    BY <1>2 DEF books
  <2>5. CallTypes'
    BY <1>2, <2>2, <2>3, <2>4 DEF CallInv, CallsFit, CallTypes
  <2>6. CursorsFit'
    BY <2>1, <2>2, <2>4 DEF CallInv, CallsFit, CursorsFit, CursorFits, RunLength, LiveType, NoLive
  <2>7. PostsOf(call.gen)
    <3> DEFINE r == [kind |-> "tm-value", gen |-> call.gen,
                     value |-> IF live.chunks = 1 THEN Decided ELSE Unfinished]
    <3>1. IsReply(r) /\ r.gen = call.gen
      BY <1>0 DEF IsReply
    <3>2. toPage' = Append(toPage, r)
      BY <1>2 DEF Post
    <3> HIDE DEF r
    <3> QED BY <3>1, <3>2 DEF PostsOf
  <2> QED BY <1>0, <2>5, <2>6, <2>7 DEF CallsFit, TellsOld
<1>3. CASE Throw(call, others)
  <2>1. CallsFit' /\ PostsOf(call.gen)
    BY <1>3, ThrowTypes DEF CallInv
  <2> QED BY <1>0, <2>1 DEF TellsOld
<1> QED BY <1>1, <1>2, <1>3 DEF ValueChunk

(* A value run's turn.                                                      *)
LEMMA ValueTypes ==
  ASSUME CallInv, RunValue PROVE CallsFit' /\ PartTypes' /\ TellsOld
<1>1. UNCHANGED parts
  BY DEF RunValue
<1>2. CASE running.pc = "value" /\ ValueChunk(running.call, suspended)
  <2>1. running # Idle
    BY <1>2 DEF Idle
  <2>2. suspended \in Seq(CallType)
    BY DEF CallInv, CallsFit, CallTypes
  <2> QED BY <1>1, <1>2, <2>1, <2>2, RunningCall, ValueChunkTypes
<1>3. ASSUME NEW i \in DOMAIN suspended, ValueChunk(suspended[i], RemoveAt(suspended, i))
      PROVE  CallsFit' /\ PartTypes' /\ TellsOld
  BY <1>1, <1>3, SuspendedCall, ValueChunkTypes
<1> QED BY <1>2, <1>3 DEF RunValue

(* The steps that take no message and start no build.                       *)
LEMMA ProceedsTypes ==
  CallInv /\ Proceeds => CallsFit' /\ PartTypes' /\ TellsOld
  BY EnterTypes, ResumeTypes, AfterRunTypes, AfterExtendTypes, AfterRewindTypes,
     ValueTypes DEF Proceeds

(* A continue raises a leg's allowance, and its cap if that stopped it.     *)
LEMMA ExtendTypes ==
  ASSUME CallInv, ReceiveExtend, IsRequest(Head(toWorker)) PROVE CallsFit' /\ PartTypes'
<1> DEFINE m == Head(toWorker)
           l == m.leg
<1>1. PartTypes' /\ UNCHANGED <<recorded, recording, epoch, suspended, throws>>
  BY DEF ReceiveExtend, parts, CallInv, PartTypes
<1>2. l \in Legs /\ m.epoch \in 0..MaxEpoch /\ m.gen \in 1..MaxGen /\ running = Idle
  BY DEF ReceiveExtend, Received, IsRequest, Free
<1>3. CASE UNCHANGED <<live, allowance, running>>
  BY <1>1, <1>3, CallsFitKept DEF CallInv, CallsFit, CallTypes
<1>4. CASE /\ Owns(m.gen)
           /\ allowance' = [allowance EXCEPT ![l] = recorded[l] + History]
           /\ live' = IF Present(l) /\ live.cursor[l].status = "capped"
                      THEN [live EXCEPT !.cursor[l] = Raised(@)] ELSE live
           /\ running' = AtRecord(Call("extend", m.gen, l, m.epoch))
  <2>1. allowance' \in [Legs -> Nat]
    <3>1. recorded[l] + History \in Nat
      BY <1>2, ProtocolAssumption DEF CallInv, CallsFit, CallTypes
    <3> QED BY <1>4, <3>1 DEF CallInv, CallsFit, CallTypes
  <2>2. running' \in RunningType
    BY <1>2, <1>4 DEF AtRecord, Call, RunningType, CallType
  <2>3. live \in LiveType
    BY <1>4 DEF Owns, CallInv, CallsFit, CallTypes
  <2>4. CASE live' = live
    <3>1. CallTypes'
      BY <1>1, <2>1, <2>2, <2>4 DEF CallInv, CallsFit, CallTypes
    <3>2. CursorsFit'
      BY <1>1, <2>4 DEF CallInv, CallsFit, CursorsFit, CursorFits, RunLength
    <3> QED BY <1>1, <3>1, <3>2 DEF CallsFit
  <2>5. CASE live' = [live EXCEPT !.cursor[l] = Raised(@)]
    <3> DEFINE was == live.cursor[l]
               c == Raised(was)
    <3>1. was \in CursorType /\ ExtendSteps \in Nat
      BY <1>2, <2>3, ProtocolAssumption DEF LiveType
    <3>2. c \in CursorType /\ c.pos = was.pos /\ c.cap = was.cap + ExtendSteps /\ c.lap = was.lap
      <4>1. was.cap + ExtendSteps \in Nat
        BY <3>1 DEF CursorType
      <4>2. c = [was EXCEPT !.cap = was.cap + ExtendSteps, !.status = "Running"]
        BY <3>1 DEF Raised, CursorType
      <4> HIDE DEF c, was
      <4> QED BY <3>1, <4>1, <4>2 DEF CursorType
    <3>3. c.pos \in Nat /\ was.cap \in Nat /\ was.cap <= c.cap
      BY <3>1, <3>2 DEF CursorType
    <3>4. live' = [live EXCEPT !.cursor[l] = c]
      BY <2>5
    <3> HIDE DEF c
    <3>5. live' \in LiveType /\ live'.prog = live.prog
          /\ live'.cursor = [live.cursor EXCEPT ![l] = c]
      BY <1>2, <2>3, <3>2, <3>4 DEF LiveType
    <3>6. CallTypes'
      BY <1>1, <2>1, <2>2, <3>5 DEF CallInv, CallsFit, CallTypes
    <3>7. ASSUME NEW k \in Legs PROVE CursorFits(k)'
      <4>1. CursorFits(k) /\ RunLength(k)' = RunLength(k) /\ epoch' = epoch
        BY <1>1, <1>4, <3>5 DEF Owns, CallInv, CallsFit, CursorsFit, RunLength
      <4>2. CASE k # l
        <5>1. live'.cursor[k] = live.cursor[k]
          BY <2>3, <3>5, <4>2 DEF LiveType
        <5> QED BY <4>1, <5>1 DEF CursorFits
      <4>3. CASE k = l
        <5>1. live'.cursor[k] = c
          BY <2>3, <3>5, <4>3 DEF LiveType
        <5>2. was.pos <= was.cap /\ was.pos <= RunLength(k) /\ was.lap <= epoch[k]
          BY <4>1, <4>3 DEF CursorFits
        <5>3. c.pos <= c.cap
          BY <3>1, <3>2, <3>3, <5>2
        <5> QED BY <3>2, <4>1, <5>1, <5>2, <5>3 DEF CursorFits
      <4> QED BY <4>2, <4>3
    <3>8. CursorsFit'
      BY <3>7 DEF CursorsFit
    <3> QED BY <1>1, <3>6, <3>8 DEF CallsFit
  <2> QED BY <1>4, <2>4, <2>5
<1> QED BY <1>3, <1>4 DEF ReceiveExtend

(* A rewind opens a leg's cursor again under the request's epoch.           *)
LEMMA RewindTypes ==
  ASSUME CallInv, ReceiveRewind, IsRequest(Head(toWorker)) PROVE CallsFit' /\ PartTypes'
<1> DEFINE m == Head(toWorker)
           l == m.leg
<1>1. UNCHANGED <<suspended, throws>> /\ running = Idle
  BY DEF ReceiveRewind, Received, Free
<1>2. l \in Legs /\ m.epoch \in 0..MaxEpoch /\ m.gen \in 1..MaxGen
  BY DEF ReceiveRewind, Received, IsRequest
<1>3. CASE UNCHANGED <<live, books, parts, running>>
  <2>1. PartTypes' /\ UNCHANGED <<recorded, allowance, recording, epoch>>
    BY <1>3 DEF books, parts, CallInv, PartTypes
  <2> QED BY <1>1, <1>3, <2>1, CallsFitKept DEF CallInv, CallsFit, CallTypes
<1>4. CASE /\ Holds(m.gen, l) /\ ~(m.epoch <= epoch[l])
           /\ epoch' = [epoch EXCEPT ![l] = m.epoch]
           /\ recording' = FlagHandedOver(l)
           /\ rewoundFrom' =
                 (IF Kind = "session" /\ \A k \in Legs : posted[k] = NoPart
                  THEN [rewoundFrom EXCEPT ![l] = ReadPart(l)] ELSE rewoundFrom)
           /\ live' = [live EXCEPT !.cursor[l] = OpenCursor(@.lap + 1)]
           /\ recorded' = [recorded EXCEPT ![l] = 0]
           /\ allowance' = [allowance EXCEPT ![l] = History]
           /\ running' = AtRecord(Call("rewind", m.gen, l, m.epoch))
           /\ UNCHANGED posted
  <2> DEFINE was == live.cursor[l]
             c == OpenCursor(was.lap + 1)
  <2>1. live \in LiveType /\ live # NoLive /\ Present(l)
    BY <1>4 DEF Holds, Owns, CallInv, CallsFit, CallTypes
  <2>2. PartTypes'
    <3>1. ReadPart(l) \in KeptType
      BY <1>2, <2>1, ReadingTypes DEF KeptType
    <3> QED BY <1>4, <3>1 DEF CallInv, PartTypes
  <2>3. /\ epoch' \in [Legs -> 0..MaxEpoch] /\ recorded' \in [Legs -> Nat]
        /\ allowance' \in [Legs -> Nat] /\ recording' \in [Legs -> BOOLEAN]
    <3>1. History \in Nat
      BY ProtocolAssumption
    <3> QED BY <1>2, <1>4, <3>1 DEF FlagHandedOver, CallInv, CallsFit, CallTypes
  <2>4. running' \in RunningType
    BY <1>2, <1>4 DEF AtRecord, Call, RunningType, CallType
  <2>5. CursorFits(l) /\ epoch[l] \in 0..MaxEpoch /\ was \in CursorType
    BY <1>2, <2>1 DEF CallInv, CallsFit, CallTypes, CursorsFit, LiveType
  <2>6. was.lap \in Nat /\ was.lap + 1 <= m.epoch /\ was.lap + 1 \in 0..MaxEpoch
    BY <1>2, <1>4, <2>5, BoundsAssumption DEF CursorFits, CursorType
  <2>7. /\ c \in CursorType /\ c.pos = 0 /\ c.cap = InitialCap /\ InitialCap \in Nat
        /\ c.lap = was.lap + 1
    BY <2>6, ProtocolAssumption DEF OpenCursor, CursorType
  <2>8. live' = [live EXCEPT !.cursor[l] = c]
    BY <1>4
  <2> HIDE DEF c
  <2>9. live' \in LiveType /\ live'.prog = live.prog
        /\ live'.cursor = [live.cursor EXCEPT ![l] = c]
    BY <1>2, <2>1, <2>7, <2>8 DEF LiveType
  <2>10. CallTypes'
    BY <1>1, <2>3, <2>4, <2>9 DEF CallInv, CallsFit, CallTypes
  <2>11. ASSUME NEW k \in Legs PROVE CursorFits(k)'
    <3>1. CursorFits(k) /\ RunLength(k)' = RunLength(k)
      BY <2>1, <2>9 DEF CallInv, CallsFit, CursorsFit, RunLength
    <3>2. CASE k # l
      <4>1. live'.cursor[k] = live.cursor[k]
        BY <2>1, <2>9, <3>2 DEF LiveType
      <4>2. epoch'[k] = epoch[k]
        BY <1>4, <3>2 DEF CallInv, CallsFit, CallTypes
      <4> QED BY <3>1, <4>1, <4>2 DEF CursorFits
    <3>3. CASE k = l
      <4>1. live'.cursor[k] = c
        BY <2>1, <2>9, <3>3 DEF LiveType
      <4>2. epoch'[k] = m.epoch
        BY <1>2, <1>4, <3>3 DEF CallInv, CallsFit, CallTypes
      <4>3. RunLength(k) \in Nat
        BY <2>1, PresentProgram
      <4>4. /\ c.pos <= c.cap /\ c.pos <= RunLength(k) /\ c.lap <= m.epoch
        BY <2>6, <2>7, <4>3
      <4> QED BY <3>1, <4>1, <4>2, <4>4 DEF CursorFits
    <3> QED BY <3>2, <3>3
  <2>12. CursorsFit'
    BY <2>11 DEF CursorsFit
  <2> QED BY <2>2, <2>10, <2>12 DEF CallsFit
<1> QED BY <1>3, <1>4 DEF ReceiveRewind

-----------------------------------------------------------------------------
(* Loops.  A call of a recording whose generation and epoch are current     *)
(* steps its leg's cursor when it wakes.                                    *)
Flies(c, l) == c.by # "value" /\ Owns(c.gen) /\ c.leg = l /\ c.epoch = epoch[l]
FlightsOf(s, l) == {i \in DOMAIN s : Flies(s[i], l)}

(* Of the calls in s at most one steps leg l's cursor, and one does if b.   *)
OneOf(s, l, b) ==
    /\ \A i, j \in FlightsOf(s, l) : i = j
    /\ b <=> FlightsOf(s, l) # {}

OneLoop == live # NoLive => \A l \in Legs : OneOf(suspended, l, recording[l])

(* The loops in flight are those whose calls fly.                           *)
LEMMA InFlightFlies == ASSUME NEW l PROVE InFlight(l) = FlightsOf(suspended, l)
  BY DEF InFlight, FlightsOf, Flies

(* A singleton has one element.                                             *)
LEMMA OneLoopCounted ==
  ASSUME OneLoop, suspended \in Seq(CallType), recording \in [Legs -> BOOLEAN]
  PROVE  OneLoopPerCursor
<1> SUFFICES ASSUME live # NoLive, NEW l \in Legs
             PROVE  Cardinality(InFlight(l)) = IF recording[l] THEN 1 ELSE 0
  BY DEF OneLoopPerCursor
<1>1. OneOf(suspended, l, recording[l]) /\ InFlight(l) = FlightsOf(suspended, l)
  BY InFlightFlies DEF OneLoop
<1>2. CASE recording[l]
  <2>1. PICK i \in InFlight(l) : TRUE
    BY <1>1, <1>2 DEF OneOf
  <2>2. InFlight(l) = {i}
    BY <1>1, <2>1 DEF OneOf
  <2> QED BY <1>2, <2>2, FS_Singleton
<1>3. CASE ~recording[l]
  <2>1. InFlight(l) = {}
    BY <1>1, <1>3 DEF OneOf
  <2> QED BY <1>3, <2>1, FS_EmptySet
<1> QED BY <1>2, <1>3

(* When a call is taken out, its leg's cursor has no loop left, and every   *)
(* other leg's has the one it had.                                          *)
LEMMA OthersLeft ==
  ASSUME NEW s \in Seq(CallType), NEW i \in DOMAIN s, NEW l, NEW b \in BOOLEAN,
         OneOf(s, l, b)
  PROVE  OneOf(RemoveAt(s, i), l, b /\ ~Flies(s[i], l))
<1> DEFINE t == RemoveAt(s, i)
<1>1. /\ Len(s) \in Nat \ {0} /\ DOMAIN s = 1..Len(s) /\ DOMAIN t = 1..(Len(s) - 1)
      /\ \A j \in 1..(Len(s) - 1) : t[j] = s[Before(i, j)]
  BY Removed
<1> HIDE DEF t
<1>2. \A j \in DOMAIN t : /\ Before(i, j) \in DOMAIN s /\ Before(i, j) # i
                          /\ t[j] = s[Before(i, j)]
  BY <1>1 DEF Before
<1>3. \A j, k \in DOMAIN t : Before(i, j) = Before(i, k) => j = k
  BY <1>1 DEF Before
<1>4. \A k \in DOMAIN s : k # i => \E j \in DOMAIN t : Before(i, j) = k
  <2>1. ASSUME NEW k \in DOMAIN s, k # i PROVE \E j \in DOMAIN t : Before(i, j) = k
    <3>1. CASE k < i
      <4>1. k \in DOMAIN t /\ Before(i, k) = k
        BY <1>1, <3>1 DEF Before
      <4> QED BY <4>1
    <3>2. CASE k > i
      <4>1. k - 1 \in DOMAIN t /\ Before(i, k - 1) = k
        BY <1>1, <3>2 DEF Before
      <4> QED BY <4>1
    <3> QED BY <1>1, <2>1, <3>1, <3>2
  <2> QED BY <2>1
<1>5. \A j \in FlightsOf(t, l) : Before(i, j) \in FlightsOf(s, l) /\ j \in DOMAIN t
  BY <1>2 DEF FlightsOf
<1>6. \A j, k \in FlightsOf(t, l) : j = k
  BY <1>3, <1>5 DEF OneOf
<1>7. CASE Flies(s[i], l)
  <2>1. i \in FlightsOf(s, l)
    BY <1>7 DEF FlightsOf
  <2>2. FlightsOf(t, l) = {}
    BY <1>2, <1>5, <2>1 DEF OneOf
  <2> QED BY <1>6, <1>7, <2>2 DEF OneOf, t
<1>8. CASE ~Flies(s[i], l)
  <2>1. \A k \in FlightsOf(s, l) : k \in DOMAIN s /\ k # i /\ Flies(s[k], l)
    BY <1>8 DEF FlightsOf
  <2>2. FlightsOf(s, l) # {} => FlightsOf(t, l) # {}
    <3>1. ASSUME NEW k \in FlightsOf(s, l) PROVE FlightsOf(t, l) # {}
      <4>1. PICK j \in DOMAIN t : Before(i, j) = k
        BY <1>4, <2>1, <3>1
      <4>2. j \in FlightsOf(t, l)
        BY <1>2, <2>1, <3>1, <4>1 DEF FlightsOf
      <4> QED BY <4>2
    <3> QED BY <3>1
  <2>3. FlightsOf(t, l) # {} => FlightsOf(s, l) # {}
    BY <1>5
  <2> QED BY <1>6, <1>8, <2>2, <2>3 DEF OneOf, t
<1> QED BY <1>7, <1>8

(* A call joins those that are suspended.                                   *)
LEMMA LoopJoins ==
  ASSUME NEW s \in Seq(CallType), NEW c \in CallType, NEW l, NEW b \in BOOLEAN,
         OneOf(s, l, b), ~(b /\ Flies(c, l))
  PROVE  OneOf(Append(s, c), l, b \/ Flies(c, l))
<1> DEFINE t == Append(s, c)
           n == Len(s) + 1
<1>1. /\ Len(s) \in Nat /\ DOMAIN s = 1..Len(s) /\ DOMAIN t = 1..n
      /\ \A i \in DOMAIN s : t[i] = s[i]
      /\ t[n] = c
  BY SeqIsSeq, Appended
<1> HIDE DEF t
<1>2. n \notin DOMAIN s /\ DOMAIN t = DOMAIN s \cup {n}
  BY <1>1
<1>3. FlightsOf(t, l) = FlightsOf(s, l) \cup (IF Flies(c, l) THEN {n} ELSE {})
  BY <1>1, <1>2 DEF FlightsOf
<1> HIDE DEF n
<1>4. CASE Flies(c, l)
  <2>1. FlightsOf(s, l) = {} /\ FlightsOf(t, l) = {n}
    BY <1>3, <1>4 DEF OneOf
  <2> QED BY <1>4, <2>1 DEF OneOf, t
<1>5. CASE ~Flies(c, l)
  <2>1. FlightsOf(t, l) = FlightsOf(s, l)
    BY <1>3, <1>5
  <2> QED BY <1>5, <2>1 DEF OneOf, t
<1> QED BY <1>4, <1>5

(* A step that starts no build and rewinds no leg, and what it makes of the *)
(* calls, told of the state it began in.                                    *)
SameFlight ==
    live' # NoLive =>
        /\ live # NoLive /\ live'.gen = live.gen /\ live'.prog = live.prog
        /\ epoch' = epoch

TurnFits ==
    running' # Idle =>
        /\ Old(running'.call.gen)
        /\ running'.pc = "value" <=> running'.call.by = "value"
        /\ running'.pc = "record" => running'.call.by # "rewind"

LoopsNext ==
    /\ \A i \in DOMAIN suspended' : Old(suspended'[i].gen) /\ LoopFits(suspended'[i])
    /\ TurnFits
    /\ live' # NoLive => \A l \in Legs : OneOf(suspended', l, recording'[l])

LoopsInv == CallsOld /\ LoopsFit /\ RunningFits /\ OneLoop

(* What it makes of them then holds of the state it ends in.                *)
LEMMA LoopsStay ==
  ASSUME StillOld, SameFlight, LoopsNext PROVE LoopsInv'
<1>1. CallsOld'
  BY DEF StillOld, LoopsNext, TurnFits, CallsOld, Old, Issued
<1>2. \A c : LoopFits(c) =>
         /\ c.by = "rewind" => c.epoch > 0
         /\ c.by # "value" /\ (live' # NoLive /\ live'.gen = c.gen) =>
               live'.prog.leg[c.leg] # Absent /\ c.epoch <= epoch'[c.leg]
  BY DEF SameFlight, LoopFits, Owns, Present
<1>3. LoopsFit'
  BY <1>2 DEF LoopsNext, LoopsFit, LoopFits, Owns, Present
<1>4. RunningFits'
  BY DEF LoopsNext, TurnFits, RunningFits
<1>5. OneLoop'
  <2>1. ASSUME live' # NoLive, NEW l \in Legs PROVE OneOf(suspended, l, recording[l])'
    <3>1. OneOf(suspended', l, recording'[l])
      BY <2>1 DEF LoopsNext
    <3>2. FlightsOf(suspended, l)' = FlightsOf(suspended', l)
      BY <2>1 DEF SameFlight, FlightsOf, Flies, Owns
    <3> QED BY <3>1, <3>2 DEF OneOf
  <2> QED BY <2>1 DEF OneLoop
<1> QED BY <1>1, <1>3, <1>4, <1>5 DEF LoopsInv

(* Calls that nobody takes up or adds to.                                   *)
LEMMA LoopsKept ==
  ASSUME CallInv, OneLoop, UNCHANGED <<suspended, recording>>, live # NoLive \/ live' = NoLive,
         TurnFits
  PROVE  LoopsNext
  BY DEF CallInv, CallsOld, LoopsFit, OneLoop, LoopsNext

(* The calls that stay when one is taken up.                                *)
LEMMA RestOfCalls ==
  ASSUME CallInv, NEW i \in DOMAIN suspended
  PROVE  \A j \in DOMAIN RemoveAt(suspended, i) :
            /\ \E k \in DOMAIN suspended : RemoveAt(suspended, i)[j] = suspended[k]
            /\ Old(RemoveAt(suspended, i)[j].gen) /\ LoopFits(RemoveAt(suspended, i)[j])
<1> DEFINE s == RemoveAt(suspended, i)
<1>1. suspended \in Seq(CallType)
  BY DEF CallInv, CallsFit, CallTypes
<1>2. /\ Len(suspended) \in Nat \ {0} /\ DOMAIN suspended = 1..Len(suspended)
      /\ DOMAIN s = 1..(Len(suspended) - 1)
      /\ \A j \in 1..(Len(suspended) - 1) : s[j] = suspended[Before(i, j)]
  BY <1>1, Removed
<1> HIDE DEF s
<1>3. \A j \in DOMAIN s : \E k \in DOMAIN suspended : s[j] = suspended[k]
  BY <1>2 DEF Before
<1> QED BY <1>3 DEF CallInv, CallsOld, LoopsFit, s

(* A call taken up of those suspended, which steps no cursor.               *)
LEMMA LoopsLeft ==
  ASSUME CallInv, OneLoop, NEW i \in DOMAIN suspended,
         \A l \in Legs : ~Flies(suspended[i], l),
         UNCHANGED recording, live # NoLive \/ live' = NoLive
  PROVE  LET s == RemoveAt(suspended, i)
         IN  /\ \A j \in DOMAIN s : Old(s[j].gen) /\ LoopFits(s[j])
             /\ live' # NoLive => \A l \in Legs : OneOf(s, l, recording[l])
<1> DEFINE s == RemoveAt(suspended, i)
<1>1. suspended \in Seq(CallType) /\ recording \in [Legs -> BOOLEAN]
  BY DEF CallInv, CallsFit, CallTypes
<1>3. \A j \in DOMAIN s : Old(s[j].gen) /\ LoopFits(s[j])
  BY RestOfCalls
<1>4. ASSUME live' # NoLive, NEW l \in Legs PROVE OneOf(s, l, recording[l])
  <2>1. OneOf(suspended, l, recording[l]) /\ recording[l] \in BOOLEAN
    BY <1>1, <1>4 DEF OneLoop
  <2>2. OneOf(s, l, recording[l] /\ ~Flies(suspended[i], l))
    BY <1>1, <2>1, OthersLeft
  <2> QED BY <2>2 DEF OneOf
<1> QED BY <1>3, <1>4

(* What is left of the calls once a step of leg l's cursor was taken from   *)
(* them, or begins beside them: none steps that cursor.                     *)
LeavesLeg(others, l) ==
    /\ others \in Seq(CallType)
    /\ \A j \in DOMAIN others : Old(others[j].gen) /\ LoopFits(others[j])
    /\ \A k \in Legs : OneOf(others, k, recording[k] /\ k # l)

(* A loop that wakes to record on leaves its leg.                           *)
LEMMA WokenLeaves ==
  ASSUME CallInv, OneLoop, NEW i \in DOMAIN suspended, live # NoLive,
         Flies(suspended[i], suspended[i].leg)
  PROVE  LeavesLeg(RemoveAt(suspended, i), suspended[i].leg)
<1> DEFINE s == RemoveAt(suspended, i)
           l == suspended[i].leg
<1>1. suspended \in Seq(CallType) /\ recording \in [Legs -> BOOLEAN]
  BY DEF CallInv, CallsFit, CallTypes
<1>3. \A j \in DOMAIN s : Old(s[j].gen) /\ LoopFits(s[j])
  BY RestOfCalls
<1>4. ASSUME NEW k \in Legs PROVE OneOf(s, k, recording[k] /\ k # l)
  <2>1. OneOf(suspended, k, recording[k]) /\ recording[k] \in BOOLEAN
    BY <1>1 DEF OneLoop
  <2>2. OneOf(s, k, recording[k] /\ ~Flies(suspended[i], k))
    BY <1>1, <2>1, OthersLeft
  <2>3. Flies(suspended[i], k) <=> k = l
    BY DEF Flies
  <2> QED BY <2>2, <2>3 DEF OneOf
<1> QED BY <1>1, <1>3, <1>4, Removed DEF LeavesLeg

(* One that starts finds its leg free.                                      *)
LEMMA StartedLeaves ==
  ASSUME CallInv, OneLoop, live # NoLive, NEW l \in Legs, ~recording[l]
  PROVE  LeavesLeg(suspended, l)
<1>1. suspended \in Seq(CallType) /\ recording \in [Legs -> BOOLEAN]
  BY DEF CallInv, CallsFit, CallTypes
<1>2. ASSUME NEW k \in Legs PROVE OneOf(suspended, k, recording[k] /\ k # l)
  <2>1. OneOf(suspended, k, recording[k])
    BY DEF OneLoop
  <2> QED BY <2>1 DEF OneOf
<1> QED BY <1>1, <1>2 DEF LeavesLeg, CallInv, CallsOld, LoopsFit

(* A chunk leaves its leg to its own call, or to none.                      *)
LEMMA ChunkLoops ==
  ASSUME CallInv, live # NoLive, NEW call \in CallType, Old(call.gen), LoopFits(call),
         Present(call.leg), Flies(call, call.leg), NEW first \in BOOLEAN, NEW others,
         LeavesLeg(others, call.leg), Chunk(call, first, others)
  PROVE  SameFlight /\ LoopsNext
<1> DEFINE l == call.leg
<1>0. l \in Legs /\ live \in LiveType /\ recording \in [Legs -> BOOLEAN]
  BY DEF CallType, CallInv, CallsFit, CallTypes
<1>1. PICK n \in Nat, c \in CursorType, d \in DoneType :
         ChunkOf(call, first, others, n, c, d)
  BY <1>0, ChunkInFull DEF CallInv, CallsFit
<1>2. SameFlight
  <2>1. live' = [live EXCEPT !.cursor[l] = c] /\ epoch' = epoch
    BY <1>1 DEF ChunkOf
  <2>2. live'.gen = live.gen /\ live'.prog = live.prog
    BY <1>0, <2>1 DEF LiveType
  <2> QED BY <2>1, <2>2 DEF SameFlight
<1>3. /\ recording' = [recording EXCEPT ![l] = (d = NotDone)]
      /\ running' = IF d = NotDone THEN Idle ELSE AtAfter(call, TRUE)
      /\ suspended' = IF d = NotDone THEN Append(others, call) ELSE others
  BY <1>1 DEF ChunkOf
<1>4. \A j \in DOMAIN others : Old(others[j].gen) /\ LoopFits(others[j])
  BY DEF LeavesLeg
<1>5. \A i \in DOMAIN suspended' : Old(suspended'[i].gen) /\ LoopFits(suspended'[i])
  <2>1. CASE d = NotDone
    <3>1. /\ DOMAIN others = 1..Len(others) /\ Len(others) \in Nat
          /\ DOMAIN Append(others, call) = 1..(Len(others) + 1)
          /\ \A i \in DOMAIN others : Append(others, call)[i] = others[i]
          /\ Append(others, call)[Len(others) + 1] = call
      BY SeqIsSeq, Appended DEF LeavesLeg
    <3>2. \A i \in DOMAIN suspended' : i \in DOMAIN others \/ i = Len(others) + 1
      BY <1>3, <2>1, <3>1
    <3> QED BY <1>3, <1>4, <2>1, <3>1, <3>2
  <2> QED BY <1>3, <1>4, <2>1
<1>6. TurnFits
  BY <1>3 DEF AtAfter, Flies, TurnFits
<1>7. ASSUME NEW k \in Legs PROVE OneOf(suspended', k, recording'[k])
  <2>1. OneOf(others, k, recording[k] /\ k # l) /\ others \in Seq(CallType)
    BY DEF LeavesLeg
  <2>2. Flies(call, k) <=> k = l
    BY DEF Flies
  <2>3. recording'[k] = IF k = l THEN d = NotDone ELSE recording[k]
    BY <1>0, <1>3
  <2>4. CASE d = NotDone
    <3>1. OneOf(Append(others, call), k, (recording[k] /\ k # l) \/ Flies(call, k))
      <4>1. (recording[k] /\ k # l) \in BOOLEAN
        OBVIOUS
      <4> QED BY <2>1, <2>2, <4>1, LoopJoins
    <3>2. recording'[k] <=> ((recording[k] /\ k # l) \/ Flies(call, k))
      BY <2>2, <2>3, <2>4
    <3> QED BY <1>3, <2>4, <3>1, <3>2 DEF OneOf
  <2>5. CASE d # NotDone
    <3>1. recording'[k] <=> (recording[k] /\ k # l)
      BY <2>3, <2>5
    <3> QED BY <1>3, <2>1, <2>5, <3>1 DEF OneOf
  <2> QED BY <2>4, <2>5
<1> QED BY <1>2, <1>5, <1>6, <1>7 DEF LoopsNext

(* A throw leaves nothing live.                                             *)
LEMMA ThrowLoops ==
  ASSUME NEW call, NEW others, Throw(call, others),
         \A j \in DOMAIN others : Old(others[j].gen) /\ LoopFits(others[j])
  PROVE  SameFlight /\ LoopsNext
  BY DEF Throw, SameFlight, LoopsNext, TurnFits

(* A loop starts.                                                           *)
LEMMA EnterLoops ==
  ASSUME CallInv, OneLoop, EnterRecord PROVE SameFlight /\ LoopsNext
<1> DEFINE asked == running.call
           call == [asked EXCEPT !.epoch = epoch[asked.leg]]
<1>1. running # Idle /\ running.pc = "record"
  BY DEF EnterRecord, Idle
<1>2. /\ asked \in CallType /\ Old(asked.gen) /\ asked.by # "value"
      /\ asked.by = "rewind" => epoch[asked.leg] > 0
      /\ epoch[asked.leg] \in 0..MaxEpoch
  BY <1>1, RunningCall DEF CallInv, RunningFits, CallsFit, CallTypes, CallType
<1>3. /\ call \in CallType /\ call.gen = asked.gen /\ call.leg = asked.leg
      /\ call.by = asked.by /\ call.epoch = epoch[call.leg] /\ call.leg \in Legs
  BY <1>2 DEF CallType
<1> HIDE DEF call
<1>4. \A j \in DOMAIN suspended : Old(suspended[j].gen) /\ LoopFits(suspended[j])
  BY DEF CallInv, CallsOld, LoopsFit
<1>5. CASE /\ running' = AtAfter(call, FALSE)
           /\ UNCHANGED <<toPage, live, handles, books, suspended, throws>>
  <2>1. SameFlight /\ UNCHANGED <<suspended, recording, live>>
    BY <1>5 DEF SameFlight, books
  <2>2. TurnFits
    BY <1>2, <1>3, <1>5 DEF TurnFits, AtAfter
  <2> QED BY <2>1, <2>2, LoopsKept
<1>6. CASE ~TurnedAway(call) /\ Chunk(call, First(call), suspended)
  <2>1. live # NoLive /\ Present(call.leg) /\ Owns(call.gen) /\ ~recording[call.leg]
    BY <1>6 DEF TurnedAway, Holds, Owns
  <2>2. First(call) \in BOOLEAN
    BY DEF First
  <2>3. LoopFits(call) /\ Flies(call, call.leg)
    BY <1>2, <1>3, <2>1 DEF LoopFits, Flies
  <2>4. LeavesLeg(suspended, call.leg)
    BY <1>3, <2>1, StartedLeaves
  <2> QED BY <1>2, <1>3, <1>6, <2>1, <2>2, <2>3, <2>4, ChunkLoops
<1>7. CASE Throw(call, suspended)
  BY <1>4, <1>7, ThrowLoops
<1> QED BY <1>5, <1>6, <1>7 DEF EnterRecord, call

(* A loop wakes.                                                            *)
LEMMA ResumeLoops ==
  ASSUME CallInv, OneLoop, NEW l \in Legs, ResumeRecord(l) PROVE SameFlight /\ LoopsNext
<1>1. PICK i \in DOMAIN suspended :
        LET call   == suspended[i]
            others == RemoveAt(suspended, i)
        IN  /\ call.by # "value" /\ call.leg = l
            /\ \/ /\ Owns(call.gen) /\ epoch[l] = call.epoch
                  /\ Chunk(call, FALSE, others) \/ Throw(call, others)
               \/ /\ ~(Owns(call.gen) /\ epoch[l] = call.epoch)
                  /\ suspended' = others
                  /\ running' = AtAfter(call, TRUE)
                  /\ UNCHANGED <<toPage, live, handles, books, throws>>
  BY DEF ResumeRecord
<1> DEFINE call == suspended[i]
           others == RemoveAt(suspended, i)
<1>2. call \in CallType /\ Old(call.gen) /\ LoopFits(call)
  BY SuspendedCall
<1>3. \A j \in DOMAIN others : Old(others[j].gen) /\ LoopFits(others[j])
  BY RestOfCalls
<1>4. CASE Owns(call.gen) /\ epoch[l] = call.epoch /\ Chunk(call, FALSE, others)
  <2>1. live # NoLive /\ Flies(call, call.leg) /\ Present(call.leg)
    BY <1>1, <1>2, <1>4 DEF Owns, Flies, LoopFits
  <2>2. LeavesLeg(others, call.leg)
    BY <2>1, WokenLeaves
  <2> HIDE DEF call, others
  <2> QED BY <1>2, <1>4, <2>1, <2>2, ChunkLoops
<1>5. CASE Throw(call, others)
  BY <1>3, <1>5, ThrowLoops
<1>6. CASE /\ ~(Owns(call.gen) /\ epoch[l] = call.epoch)
           /\ suspended' = others
           /\ running' = AtAfter(call, TRUE)
           /\ UNCHANGED <<toPage, live, handles, books, throws>>
  <2>1. \A k \in Legs : ~Flies(call, k)
    BY <1>1, <1>6 DEF Flies
  <2>2. SameFlight /\ UNCHANGED <<recording, live>>
    BY <1>6 DEF SameFlight, books
  <2>3. live' # NoLive => \A k \in Legs : OneOf(others, k, recording[k])
    <3>1. live # NoLive \/ live' = NoLive
      BY <2>2
    <3> QED BY <2>1, <2>2, <3>1, LoopsLeft
  <2>4. TurnFits
    BY <1>1, <1>2, <1>6 DEF TurnFits, AtAfter
  <2> HIDE DEF others
  <2> QED BY <1>3, <1>6, <2>2, <2>3, <2>4 DEF LoopsNext
<1> QED BY <1>1, <1>4, <1>5, <1>6

(* A call whose turn it is goes on, answers, or throws.                     *)
LEMMA AfterLoops ==
  ASSUME CallInv, OneLoop, AfterRun \/ AfterExtend \/ AfterRewind
  PROVE  SameFlight /\ LoopsNext
<1> DEFINE call == running.call
<1>1. running # Idle /\ UNCHANGED books
  <2>1. \E by : Returned(by)
    BY DEF AfterRun, AfterExtend, AfterRewind
  <2> QED BY <2>1 DEF Returned, Idle
<1>2. call \in CallType /\ Old(call.gen)
  BY <1>1, RunningCall
<1>3. \/ running' = Idle
      \/ /\ running' = AtValue([call EXCEPT !.by = "value"])
         /\ call.by = "run"
      \/ \E l \in Legs : running' = AtRecord([call EXCEPT !.leg = l]) /\ call.by = "run"
  <2>1. CASE AfterRun
    <3>1. ASSUME running' = AtRecord([call EXCEPT !.leg =
              FillOrder[(CHOOSE i \in DOMAIN FillOrder : FillOrder[i] = call.leg) + 1]]),
              (CHOOSE i \in DOMAIN FillOrder : FillOrder[i] = call.leg) < Len(FillOrder)
          PROVE \E l \in Legs : running' = AtRecord([call EXCEPT !.leg = l])
      BY <1>2, <3>1, NextLeg DEF CallType
    <3>2. call.by = "run"
      BY <2>1 DEF AfterRun, Returned
    <3> QED BY <2>1, <3>1, <3>2 DEF AfterRun, Answer, NoAnswer
  <2>2. CASE AfterExtend \/ AfterRewind
    BY <2>2 DEF AfterExtend, AfterRewind, Answer, NoAnswer
  <2> QED BY <2>1, <2>2
<1>4. TurnFits
  <2>1. CASE running' = Idle
    BY <2>1 DEF TurnFits
  <2>2. CASE running' = AtValue([call EXCEPT !.by = "value"])
    <3>1. [call EXCEPT !.by = "value"].gen = call.gen
          /\ [call EXCEPT !.by = "value"].by = "value"
      BY <1>2 DEF CallType
    <3> QED BY <1>2, <2>2, <3>1 DEF TurnFits, AtValue
  <2>3. ASSUME NEW l \in Legs, running' = AtRecord([call EXCEPT !.leg = l]), call.by = "run"
        PROVE  TurnFits
    <3>1. [call EXCEPT !.leg = l].gen = call.gen /\ [call EXCEPT !.leg = l].by = "run"
      BY <1>2, <2>3 DEF CallType
    <3> QED BY <1>2, <2>3, <3>1 DEF TurnFits, AtRecord
  <2> QED BY <1>3, <2>1, <2>2, <2>3
<1>5. UNCHANGED suspended /\ (live' = live \/ live' = NoLive)
  <2>1. CASE AfterRun
    BY <2>1 DEF AfterRun, Answer, NoAnswer
  <2>2. CASE AfterExtend
    BY <2>2 DEF AfterExtend, Answer, NoAnswer
  <2>3. CASE AfterRewind
    BY <2>3 DEF AfterRewind, NoAnswer
  <2> QED BY <2>1, <2>2, <2>3
<1>6. SameFlight /\ UNCHANGED recording
  BY <1>1, <1>5 DEF SameFlight, books
<1>7. live # NoLive \/ live' = NoLive
  BY <1>5
<1> QED BY <1>4, <1>5, <1>6, <1>7, LoopsKept

(* A value run steps no cursor.                                             *)
LEMMA ValueChunkLoops ==
  ASSUME CallInv, NEW call \in CallType, Old(call.gen), call.by = "value",
         NEW others \in Seq(CallType),
         \A j \in DOMAIN others : Old(others[j].gen) /\ LoopFits(others[j]),
         live # NoLive => \A l \in Legs : OneOf(others, l, recording[l]),
         ValueChunk(call, others)
  PROVE  SameFlight /\ LoopsNext
<1>1. CASE /\ suspended' = others /\ running' = Idle
           /\ UNCHANGED <<toPage, live, books, throws>>
  BY <1>1 DEF SameFlight, LoopsNext, TurnFits, books
<1>2. CASE /\ HasValueRun(call.gen)
           /\ live' = [live EXCEPT !.chunks = @ - 1]
           /\ suspended' = IF live.chunks = 1 THEN others ELSE Append(others, call)
           /\ running' = Idle
           /\ UNCHANGED <<handles, books, throws>>
  <2>1. live # NoLive /\ live \in LiveType
    BY <1>2 DEF HasValueRun, Owns, CallInv, CallsFit, CallTypes
  <2>2. live'.gen = live.gen /\ live'.prog = live.prog
    BY <1>2, <2>1 DEF LiveType
  <2>3. SameFlight /\ UNCHANGED recording
    BY <1>2, <2>1, <2>2 DEF SameFlight, books
  <2>4. LoopFits(call) /\ \A l \in Legs : ~Flies(call, l)
    BY DEF LoopFits, Flies
  <2>5. CASE live.chunks = 1
    BY <1>2, <2>1, <2>3, <2>5 DEF LoopsNext, TurnFits
  <2>6. CASE live.chunks # 1
    <3>1. suspended' = Append(others, call)
      BY <1>2, <2>6
    <3>2. /\ DOMAIN others = 1..Len(others) /\ Len(others) \in Nat
          /\ DOMAIN suspended' = 1..(Len(others) + 1)
          /\ \A i \in DOMAIN others : suspended'[i] = others[i]
          /\ suspended'[Len(others) + 1] = call
      BY <3>1, SeqIsSeq, Appended
    <3>3. \A i \in DOMAIN suspended' : i \in DOMAIN others \/ i = Len(others) + 1
      BY <3>2
    <3>4. \A i \in DOMAIN suspended' : Old(suspended'[i].gen) /\ LoopFits(suspended'[i])
      BY <2>4, <3>2, <3>3
    <3>5. ASSUME NEW l \in Legs PROVE OneOf(suspended', l, recording'[l])
      <4>1. OneOf(others, l, recording[l]) /\ recording[l] \in BOOLEAN
        BY <2>1 DEF CallInv, CallsFit, CallTypes
      <4>2. OneOf(suspended', l, recording[l] \/ Flies(call, l))
        BY <2>4, <3>1, <4>1, LoopJoins
      <4> QED BY <2>3, <2>4, <4>2 DEF OneOf
    <3> QED BY <1>2, <2>3, <3>4, <3>5 DEF LoopsNext, TurnFits
  <2> QED BY <2>5, <2>6
<1>3. CASE Throw(call, others)
  BY <1>3, ThrowLoops
<1> QED BY <1>1, <1>2, <1>3 DEF ValueChunk

(* A value run's turn.                                                      *)
LEMMA ValueLoops ==
  ASSUME CallInv, OneLoop, RunValue PROVE SameFlight /\ LoopsNext
<1>0. suspended \in Seq(CallType)
  BY DEF CallInv, CallsFit, CallTypes
<1>1. CASE running.pc = "value" /\ ValueChunk(running.call, suspended)
  <2>1. running # Idle
    BY <1>1 DEF Idle
  <2>2. running.call \in CallType /\ Old(running.call.gen) /\ running.call.by = "value"
    BY <1>1, <2>1, RunningCall DEF CallInv, RunningFits
  <2>3. /\ \A j \in DOMAIN suspended : Old(suspended[j].gen) /\ LoopFits(suspended[j])
        /\ live # NoLive => \A l \in Legs : OneOf(suspended, l, recording[l])
    BY DEF CallInv, CallsOld, LoopsFit, OneLoop
  <2> QED BY <1>0, <1>1, <2>2, <2>3, ValueChunkLoops
<1>2. ASSUME NEW i \in DOMAIN suspended, suspended[i].by = "value",
             ValueChunk(suspended[i], RemoveAt(suspended, i))
      PROVE  SameFlight /\ LoopsNext
  <2> DEFINE call == suspended[i]
             others == RemoveAt(suspended, i)
  <2>1. call \in CallType /\ Old(call.gen) /\ others \in Seq(CallType)
    BY SuspendedCall
  <2>2. \A j \in DOMAIN others : Old(others[j].gen) /\ LoopFits(others[j])
    BY RestOfCalls
  <2>3. ASSUME live # NoLive, NEW l \in Legs PROVE OneOf(others, l, recording[l])
    <3>1. OneOf(suspended, l, recording[l]) /\ recording[l] \in BOOLEAN
      BY <2>3 DEF OneLoop, CallInv, CallsFit, CallTypes
    <3>2. OneOf(others, l, recording[l] /\ ~Flies(suspended[i], l))
      BY <1>0, <3>1, OthersLeft
    <3>3. ~Flies(suspended[i], l)
      BY <1>2 DEF Flies
    <3> QED BY <3>2, <3>3 DEF OneOf
  <2> HIDE DEF others
  <2> QED BY <1>2, <2>1, <2>2, <2>3, ValueChunkLoops DEF others
<1> QED BY <1>1, <1>2 DEF RunValue

(* The steps that take no message and start no build.                       *)
LEMMA ProceedsLoops ==
  CallInv /\ OneLoop /\ Proceeds => SameFlight /\ LoopsNext
  BY EnterLoops, ResumeLoops, AfterLoops, ValueLoops DEF Proceeds

(* A continue leaves the calls as they are, and takes its turn.             *)
LEMMA ExtendLoops ==
  ASSUME CallInv, OneLoop, ReceiveExtend, IsRequest(Head(toWorker)), Old(live.gen)
  PROVE  SameFlight /\ LoopsNext
<1> DEFINE m == Head(toWorker)
           l == m.leg
<1>1. UNCHANGED <<suspended, recording, epoch>> /\ running = Idle
  BY DEF ReceiveExtend, Received, Free
<1>2. CASE UNCHANGED <<live, allowance, running>>
  <2>1. SameFlight /\ TurnFits
    BY <1>1, <1>2 DEF SameFlight, TurnFits
  <2> QED BY <1>1, <1>2, <2>1, LoopsKept
<1>3. CASE /\ Owns(m.gen)
           /\ live' = IF Present(l) /\ live.cursor[l].status = "capped"
                      THEN [live EXCEPT !.cursor[l] = Raised(@)] ELSE live
           /\ running' = AtRecord(Call("extend", m.gen, l, m.epoch))
  <2>1. live \in LiveType /\ live # NoLive /\ m.gen = live.gen
    BY <1>3 DEF Owns, CallInv, CallsFit, CallTypes
  <2>2. live'.gen = live.gen /\ live'.prog = live.prog
    <3>1. CASE live' = live
      BY <3>1
    <3>2. CASE live' = [live EXCEPT !.cursor[l] = Raised(@)]
      BY <2>1, <3>2 DEF LiveType
    <3> QED BY <1>3, <3>1, <3>2
  <2>3. SameFlight
    BY <1>1, <2>1, <2>2 DEF SameFlight
  <2>4. TurnFits
    BY <1>3, <2>1 DEF TurnFits, AtRecord, Call
  <2> QED BY <1>1, <2>1, <2>3, <2>4, LoopsKept
<1> QED BY <1>2, <1>3 DEF ReceiveExtend

(* A rewind takes its leg over: the loops in flight serve an older epoch.   *)
LEMMA RewindLoops ==
  ASSUME CallInv, OneLoop, ReceiveRewind, IsRequest(Head(toWorker)), Old(live.gen),
         StillOld
  PROVE  LoopsInv'
<1> DEFINE m == Head(toWorker)
           l == m.leg
<1>1. UNCHANGED suspended /\ running = Idle
  BY DEF ReceiveRewind, Received, Free
<1>2. CASE UNCHANGED <<live, books, parts, running>>
  <2>1. SameFlight /\ TurnFits /\ UNCHANGED recording
    BY <1>1, <1>2 DEF SameFlight, TurnFits, books
  <2> QED BY <1>1, <1>2, <2>1, LoopsKept, LoopsStay
<1>3. CASE /\ Holds(m.gen, l) /\ ~(m.epoch <= epoch[l])
           /\ epoch' = [epoch EXCEPT ![l] = m.epoch]
           /\ recording' = FlagHandedOver(l)
           /\ live' = [live EXCEPT !.cursor[l] = OpenCursor(@.lap + 1)]
           /\ running' = AtRecord(Call("rewind", m.gen, l, m.epoch))
  <2>1. /\ live \in LiveType /\ live # NoLive /\ m.gen = live.gen
        /\ l \in Legs /\ epoch \in [Legs -> 0..MaxEpoch] /\ epoch[l] \in 0..MaxEpoch
        /\ m.epoch \in 0..MaxEpoch /\ recording \in [Legs -> BOOLEAN]
    BY <1>3 DEF Holds, Owns, CallInv, CallsFit, CallTypes, IsRequest, ReceiveRewind, Received
  <2>2. live'.gen = live.gen /\ live'.prog = live.prog
    BY <1>3, <2>1 DEF LiveType
  <2>3. epoch[l] < m.epoch /\ epoch[l] \in Nat /\ m.epoch \in Nat
    BY <1>3, <2>1
  <2>4. \A k \in Legs : epoch[k] \in Nat /\ epoch'[k] = IF k = l THEN m.epoch ELSE epoch[k]
    BY <1>3, <2>1
  <2>5. CallsOld'
    BY <1>1, <1>3, <2>1 DEF StillOld, CallInv, CallsOld, Old, Issued, AtRecord, Call
  <2>6. RunningFits'
    BY <1>3, <2>1, <2>3, <2>4 DEF RunningFits, AtRecord, Call
  <2>7. \A i \in DOMAIN suspended :
           suspended[i] \in CallType /\ LoopFits(suspended[i])
    BY SuspendedCall
  <2>8. LoopsFit'
    <3>1. ASSUME NEW i \in DOMAIN suspended PROVE LoopFits(suspended[i])'
      <4> DEFINE c == suspended[i]
      <4>1. c \in CallType /\ LoopFits(c) /\ c.leg \in Legs /\ c.epoch \in Nat
        BY <2>7 DEF CallType
      <4>2. c' = c
        BY <1>1
      <4>3. c.by # "value" /\ Owns(c.gen) =>
               Present(c.leg) /\ c.epoch <= epoch'[c.leg]
        BY <2>3, <2>4, <4>1 DEF LoopFits
      <4>4. Owns(c.gen)' => Owns(c.gen)
        BY <2>1, <2>2, <4>2 DEF Owns
      <4>5. Present(c.leg)' <=> Present(c.leg)
        BY <2>2, <4>2 DEF Present
      <4> HIDE DEF c
      <4>6. LoopFits(c)'
        BY <4>1, <4>2, <4>3, <4>4, <4>5 DEF LoopFits
      <4> QED BY <4>6 DEF c
    <3> QED BY <1>1, <3>1 DEF LoopsFit
  <2>9. OneLoop'
    <3>1. ASSUME NEW k \in Legs PROVE OneOf(suspended, k, recording[k])'
      <4>1. OneOf(suspended, k, recording[k])
        BY <2>1 DEF OneLoop
      <4>2. recording'[k] = IF k = l THEN FALSE ELSE recording[k]
        BY <1>3, <2>1 DEF FlagHandedOver
      <4>3. CASE k # l
        <5>1. FlightsOf(suspended, k)' = FlightsOf(suspended, k)
          <6>1. epoch'[k] = epoch[k]
            BY <2>4, <4>3
          <6> QED BY <1>1, <1>3, <2>1, <2>2, <6>1 DEF FlightsOf, Flies, Owns, NoLive, LiveType
        <5> QED BY <4>1, <4>2, <4>3, <5>1 DEF OneOf
      <4>4. CASE k = l
        <5>1. FlightsOf(suspended, k)' = {}
          <6>1. ASSUME NEW i \in FlightsOf(suspended, k)' PROVE FALSE
            <7>1. /\ i \in DOMAIN suspended /\ suspended[i].by # "value"
                  /\ suspended[i].gen = live.gen /\ suspended[i].leg = l
                  /\ suspended[i].epoch = m.epoch
              BY <1>1, <2>1, <2>2, <2>4, <4>4, <6>1 DEF FlightsOf, Flies, Owns
            <7>2. suspended[i].epoch <= epoch[l]
              BY <2>1, <2>7, <7>1 DEF LoopFits, Owns
            <7> QED BY <2>3, <7>1, <7>2
          <6> QED BY <6>1
        <5> QED BY <4>2, <4>4, <5>1 DEF OneOf
      <4> QED BY <4>3, <4>4
    <3> QED BY <3>1 DEF OneLoop
  <2> QED BY <2>5, <2>6, <2>8, <2>9 DEF LoopsInv
<1> QED BY <1>2, <1>3 DEF ReceiveRewind

(* A build leaves no call in flight: all that are suspended are older.      *)
LEMMA BuildLoops ==
  ASSUME CallInv, NEW g \in 1..MaxGen, Build(g), StillOld, Old(g)',
         \A i \in DOMAIN suspended : suspended[i].gen < g
  PROVE  LoopsInv'
<1>1. UNCHANGED suspended
  BY DEF Build
<1>2. running' = Idle \/ running' = AtRecord(Call("run", g, FillOrder[1], 0))
  BY DEF Build
<1>3. recording' = [l \in Legs |-> FALSE] /\ (live' = NoLive \/ live'.gen = g)
  BY DEF Build, NewBooks
<1>4. CallsOld'
  BY <1>1, <1>2 DEF StillOld, CallInv, CallsOld, Old, Issued, AtRecord, Call
<1>5. RunningFits'
  BY <1>2 DEF RunningFits, AtRecord, Call
<1>6. \A i \in DOMAIN suspended :
         suspended[i].gen # g /\ (suspended[i].by = "rewind" => suspended[i].epoch > 0)
  <2>1. ASSUME NEW i \in DOMAIN suspended
        PROVE  suspended[i].gen # g /\ (suspended[i].by = "rewind" => suspended[i].epoch > 0)
    <3>1. suspended[i].gen \in Int /\ suspended[i].gen < g
      BY SuspendedCall DEF CallType
    <3> QED BY <3>1, SuspendedCall DEF LoopFits
  <2> QED BY <2>1
<1>7. LoopsFit'
  BY <1>1, <1>3, <1>6 DEF LoopsFit, LoopFits, Owns
<1>8. OneLoop'
  <2>1. ASSUME NEW l \in Legs PROVE OneOf(suspended, l, recording[l])'
    <3>1. FlightsOf(suspended, l)' = {}
      BY <1>1, <1>3, <1>6 DEF FlightsOf, Flies, Owns
    <3> QED BY <1>3, <3>1 DEF OneOf
  <2> QED BY <2>1 DEF OneLoop
<1> QED BY <1>4, <1>5, <1>7, <1>8 DEF LoopsInv

-----------------------------------------------------------------------------
(* The page.                                                                *)

(* A request posted.                                                        *)
PostsRequest ==
    toWorker' = toWorker \/ \E m : IsRequest(m) /\ toWorker' = Append(toWorker, m)

(* Pushing frames onto a ring gives a ring.                                 *)
LEMMA PushedTypes ==
  ASSUME NEW r \in [frames : Seq(FrameType), first : Nat], NEW fs \in Seq(FrameType)
  PROVE  LET all == r.frames \o fs
             gone == IF Len(all) - History - 1 > 0 THEN Len(all) - History - 1 ELSE 0
         IN  /\ Len(all) = Len(r.frames) + Len(fs) /\ all \in Seq(FrameType)
             /\ gone \in 0..Len(all)
             /\ Pushed(r, fs) = [frames |-> SubSeq(all, gone + 1, Len(all)),
                                 first |-> r.first + gone]
             /\ Pushed(r, fs) \in [frames : Seq(FrameType), first : Nat]
             /\ Len(SubSeq(all, gone + 1, Len(all))) = Len(all) - gone
             /\ \A i \in 1..(Len(all) - gone) :
                   SubSeq(all, gone + 1, Len(all))[i] = all[gone + i]
<1> DEFINE all == r.frames \o fs
           gone == IF Len(all) - History - 1 > 0 THEN Len(all) - History - 1 ELSE 0
           sub == SubSeq(all, gone + 1, Len(all))
<1>1. r.frames \in Seq(FrameType) /\ r.first \in Nat /\ History \in Nat
  BY ProtocolAssumption
<1>2. all \in Seq(FrameType) /\ Len(all) = Len(r.frames) + Len(fs) /\ Len(all) \in Nat
  BY <1>1, ConcatProperties
<1> HIDE DEF all
<1>3. gone = Max({0, Len(all) - History - 1})
  <2>1. 0 \in Int /\ Len(all) - History - 1 \in Int
    BY <1>1, <1>2
  <2>2. /\ Max({0, Len(all) - History - 1}) \in {0, Len(all) - History - 1}
        /\ Max({0, Len(all) - History - 1}) >= 0
        /\ Max({0, Len(all) - History - 1}) >= Len(all) - History - 1
    BY <2>1, GreatestOfTwo
  <2> QED BY <1>1, <1>2, <2>1, <2>2
<1>8. gone \in 0..Len(all)
  BY <1>1, <1>2
<1> HIDE DEF gone
<1>4. /\ sub \in Seq(FrameType) /\ Len(sub) = Len(all) - gone
      /\ \A i \in 1..(Len(all) - gone) : sub[i] = all[gone + i]
  <2> DEFINE low == gone + 1
             len == Len(all)
  <2>0. low \in Int /\ len \in Int /\ low = gone + 1 /\ gone \in 0..len /\ low \in 1..(len + 1)
    BY <1>2, <1>8
  <2>1. \A i \in low..len : all[i] \in FrameType
    <3>1. \A i \in 1..len : all[i] \in FrameType
      BY <1>2
    <3> HIDE DEF low, len
    <3> QED BY <2>0, <3>1
  <2>2. /\ sub \in Seq(FrameType)
        /\ Len(sub) = IF low <= len THEN len - low + 1 ELSE 0
        /\ \A i \in 1..(len - low + 1) : sub[i] = all[low + i - 1]
    <3>1. sub = SubSeq(all, low, len)
      OBVIOUS
    <3> HIDE DEF low, len, sub
    <3> QED BY <2>0, <2>1, <3>1, SubSeqProperties
  <2> HIDE DEF low, sub
  <2>3. /\ len - low + 1 = len - gone
        /\ \A i \in 1..(len - gone) : low + i - 1 = gone + i
        /\ (IF low <= len THEN len - low + 1 ELSE 0) = len - gone
    <3> HIDE DEF len
    <3> QED BY <2>0
  <2> QED BY <2>2, <2>3
<1>5. Pushed(r, fs) = [frames |-> sub, first |-> r.first + gone]
  BY <1>3 DEF Pushed, all
<1>6. r.first + gone \in Nat
  BY <1>1, <1>2, <1>8
<1> HIDE DEF sub
<1>7. Pushed(r, fs) \in [frames : Seq(FrameType), first : Nat]
  BY <1>4, <1>5, <1>6
<1> QED BY <1>2, <1>4, <1>5, <1>7, <1>8 DEF all, gone, sub

(* What the page shows of a leg, and what it reads.                         *)
ValueType == {None, Unfinished, Decided}
RingType == [frames : Seq(FrameType), first : Nat]
ReadoutType == [gen : 0..MaxGen, value : [Legs -> ValueType]]

LegTypes ==
    /\ ring \in [Legs -> RingType]
    /\ done \in [Legs -> DoneType] /\ available \in [Legs -> BOOLEAN]
    /\ legEpoch \in [Legs -> 0..MaxEpoch] /\ legGen \in [Legs -> 0..MaxGen]
    /\ continues \in [Legs -> 0..MaxContinues]

ClientTypes == /\ gen \in 0..MaxGen /\ timer \in 0..MaxGen
               /\ awaitingRun \in BOOLEAN

PanelTypes == results \in {"idle", "running"} /\ reported \in BOOLEAN

(* The page's types, apart.                                                 *)
LEMMA PageTypesApart ==
  PageTypes <=> /\ LegTypes /\ ClientTypes /\ PanelTypes /\ readout \in ReadoutType
                /\ gen = 0 => \A l \in Legs : ~available[l]
BY DEF PageTypes, LegTypes, ClientTypes, PanelTypes, ReadoutType, RingType, ValueType

(* The same of the next state.                                              *)
LEMMA PageTypesApartNext ==
  PageTypes' <=> /\ LegTypes' /\ ClientTypes' /\ PanelTypes' /\ readout' \in ReadoutType
                 /\ gen' = 0 => \A l \in Legs : ~available'[l]
BY DEF PageTypes, LegTypes, ClientTypes, PanelTypes, ReadoutType, RingType, ValueType

(* The bounds' numbers.                                                     *)
LEMMA Zeros == 0 \in 0..MaxGen /\ 0 \in 0..MaxEpoch /\ 0 \in 0..MaxContinues
BY BoundsAssumption

(* An empty ring is a ring.                                                 *)
LEMMA EmptyRingType == EmptyRing \in RingType
BY DEF EmptyRing, RingType

(* An edit.                                                                 *)
LEMMA EditTypes == PageTypes /\ Edit => PageTypes' /\ PostsRequest
<1> SUFFICES ASSUME PageTypes, Edit PROVE PageTypes' /\ PostsRequest
  OBVIOUS
<1>1. /\ LegTypes /\ ClientTypes /\ PanelTypes /\ readout \in ReadoutType
      /\ MaxGen \in Nat
  BY PageTypesApart, BoundsAssumption
<1>2. gen' \in 1..MaxGen /\ awaitingRun' = TRUE
  BY <1>1 DEF Edit, ClientTypes
<1>3. UNCHANGED <<ring, done, available, legEpoch, legGen, continues, readout, reported>>
  BY DEF Edit, legVars
<1>4. LegTypes' /\ readout' \in ReadoutType
  BY <1>1, <1>3 DEF LegTypes
<1>5. /\ timer' = gen' \/ timer' = timer
      /\ results' = "running" \/ results' = results
  BY DEF Edit
<1>6. ClientTypes' /\ PanelTypes' /\ gen' # 0
  BY <1>1, <1>2, <1>3, <1>5 DEF ClientTypes, PanelTypes
<1>7. PostsRequest
  <2>1. IsRequest(BuildRequest(gen'))
    BY <1>2 DEF IsRequest, BuildRequest
  <2> QED BY <2>1 DEF PostsRequest, Edit, Send
<1> QED BY <1>4, <1>6, <1>7, PageTypesApartNext

(* The debounce runs out.                                                   *)
LEMMA TimerTypes == PageTypes /\ TimerFires => PageTypes' /\ PostsRequest
<1> SUFFICES ASSUME PageTypes, TimerFires PROVE PageTypes' /\ PostsRequest
  OBVIOUS
<1>1. /\ LegTypes /\ ClientTypes /\ PanelTypes /\ readout \in ReadoutType
      /\ gen = 0 => \A l \in Legs : ~available[l]
  BY PageTypesApart
<1>2. /\ timer' = 0 /\ timer # 0
      /\ UNCHANGED <<gen, awaitingRun, results, ring, done, available, legEpoch, legGen,
                     continues, readout, reported>>
  BY DEF TimerFires, legVars
<1>3. LegTypes' /\ PanelTypes' /\ readout' \in ReadoutType /\ ClientTypes'
  BY <1>1, <1>2, Zeros DEF LegTypes, PanelTypes, ClientTypes
<1>4. timer \in 1..MaxGen
  BY <1>1, <1>2, BoundsAssumption DEF ClientTypes
<1>5. IsRequest(BuildRequest(timer))
  BY <1>4 DEF IsRequest, BuildRequest
<1>6. PostsRequest
  BY <1>5 DEF PostsRequest, TimerFires, Send
<1> QED BY <1>1, <1>2, <1>3, <1>6, PageTypesApartNext

(* A continue.                                                              *)
LEMMA ContinueTypes ==
  ASSUME PageTypes, NEW l \in Legs, PressContinue(l) PROVE PageTypes' /\ PostsRequest
<1>1. /\ LegTypes /\ ClientTypes /\ PanelTypes /\ readout \in ReadoutType
      /\ gen = 0 => \A k \in Legs : ~available[k]
  BY PageTypesApart
<1>2. /\ UNCHANGED <<gen, awaitingRun, timer, results, ring, done, available, legEpoch,
                     legGen, readout, reported>>
      /\ available[l] /\ continues[l] < MaxContinues
      /\ continues' = [continues EXCEPT ![l] = @ + 1]
      /\ Send(ExtendRequest(gen, l, legEpoch[l]))
  BY DEF PressContinue, clientVars
<1>3. continues' \in [Legs -> 0..MaxContinues]
  <2>1. continues[l] \in 0..MaxContinues /\ MaxContinues \in Nat
    BY <1>1, BoundsAssumption DEF LegTypes
  <2>2. continues[l] + 1 \in 0..MaxContinues
    BY <1>2, <2>1
  <2> QED BY <1>1, <1>2, <2>2 DEF LegTypes
<1>4. LegTypes' /\ PanelTypes' /\ readout' \in ReadoutType /\ ClientTypes'
  BY <1>1, <1>2, <1>3 DEF LegTypes, PanelTypes, ClientTypes
<1>5. gen \in 1..MaxGen
  BY <1>1, <1>2, BoundsAssumption DEF ClientTypes
<1>6. IsRequest(ExtendRequest(gen, l, legEpoch[l]))
  BY <1>1, <1>5 DEF IsRequest, ExtendRequest, LegTypes
<1>7. PostsRequest
  BY <1>2, <1>6 DEF PostsRequest, Send
<1> QED BY <1>1, <1>2, <1>4, <1>7, PageTypesApartNext

(* A restart.                                                               *)
LEMMA RestartTypes ==
  ASSUME PageTypes, NEW l \in Legs, PressRestart(l) PROVE PageTypes' /\ PostsRequest
<1>1. /\ LegTypes /\ ClientTypes /\ PanelTypes /\ readout \in ReadoutType
      /\ gen = 0 => \A k \in Legs : ~available[k]
  BY PageTypesApart
<1>2. /\ UNCHANGED <<gen, awaitingRun, timer, results, available, legGen, readout,
                     reported>>
      /\ available[l] /\ legEpoch[l] < MaxEpoch
      /\ legEpoch' = [legEpoch EXCEPT ![l] = @ + 1]
      /\ ring' = [ring EXCEPT ![l] = EmptyRing]
      /\ done' = [done EXCEPT ![l] = NotDone]
      /\ continues' = [continues EXCEPT ![l] = 0]
      /\ Send(RewindRequest(gen, l, legEpoch'[l]))
  BY DEF PressRestart, clientVars
<1>3. legEpoch' \in [Legs -> 0..MaxEpoch]
  <2>1. legEpoch[l] \in 0..MaxEpoch /\ MaxEpoch \in Nat
    BY <1>1, BoundsAssumption DEF LegTypes
  <2>2. legEpoch[l] + 1 \in 0..MaxEpoch
    BY <1>2, <2>1
  <2> QED BY <1>1, <1>2, <2>2 DEF LegTypes
<1>4. ring' \in [Legs -> RingType]
  BY <1>1, <1>2, EmptyRingType DEF LegTypes
<1>5. done' \in [Legs -> DoneType] /\ continues' \in [Legs -> 0..MaxContinues]
  BY <1>1, <1>2, Zeros DEF LegTypes, DoneType
<1>6. LegTypes' /\ PanelTypes' /\ readout' \in ReadoutType /\ ClientTypes'
  BY <1>1, <1>2, <1>3, <1>4, <1>5 DEF LegTypes, PanelTypes, ClientTypes
<1>7. gen \in 1..MaxGen
  BY <1>1, <1>2, BoundsAssumption DEF ClientTypes
<1>8. IsRequest(RewindRequest(gen, l, legEpoch'[l]))
  BY <1>3, <1>7 DEF IsRequest, RewindRequest
<1>9. PostsRequest
  BY <1>2, <1>8 DEF PostsRequest, Send
<1> QED BY <1>1, <1>2, <1>6, <1>9, PageTypesApartNext

(* Legs cleared.                                                            *)
LEMMA ResetTypes ==
  ASSUME LegTypes, NEW present \in [Legs -> BOOLEAN], ResetLegs(present) PROVE LegTypes'
<1>1. ring' \in [Legs -> RingType]
  BY EmptyRingType DEF ResetLegs
<1>2. done' \in [Legs -> DoneType]
  BY DEF ResetLegs, DoneType
<1>3. legEpoch' \in [Legs -> 0..MaxEpoch] /\ continues' \in [Legs -> 0..MaxContinues]
  BY Zeros DEF ResetLegs
<1>4. available' = present /\ legGen' = legGen
  BY DEF ResetLegs
<1> QED BY <1>1, <1>2, <1>3, <1>4 DEF LegTypes

(* No legs at all is a choice of legs.                                      *)
LEMMA NoLegsType == NoLegs \in [Legs -> BOOLEAN]
BY DEF NoLegs

(* Legs left alone.                                                         *)
LEMMA SameLegTypes == LegTypes /\ UNCHANGED legVars => LegTypes'
BY DEF LegTypes, legVars

(* Readouts.                                                                *)
LEMMA ReadoutTypes ==
  /\ NoReadout \in ReadoutType
  /\ \A g \in 0..MaxGen, v \in ValueType : Reading(g, v) \in ReadoutType
<1>1. NoReadout \in ReadoutType
  <2>1. None \in ValueType
    BY DEF ValueType
  <2>2. [l \in Legs |-> None] \in [Legs -> ValueType]
    BY <2>1
  <2> QED BY <2>2, Zeros DEF NoReadout, ReadoutType
<1>2. ASSUME NEW g \in 0..MaxGen, NEW v \in ValueType PROVE Reading(g, v) \in ReadoutType
  BY DEF Reading, ReadoutType
<1> QED BY <1>1, <1>2

(* What delivering an accepted reply keeps.                                 *)
ShowsTypes == LegTypes' /\ PanelTypes' /\ readout' \in ReadoutType

(* Frames pushed onto a leg's ring.                                         *)
LEMMA FramesTypes ==
  ASSUME LegTypes, NEW r, IsReply(r), r.kind = "frames", OnFrames(r) PROVE LegTypes'
<1>1. CASE Late(r)
  BY <1>1, SameLegTypes DEF OnFrames
<1>2. CASE ~Late(r)
  <2> DEFINE l == r.leg
  <2>1. /\ l \in Legs /\ r.gen \in 0..MaxGen /\ r.frames \in Seq(FrameType)
        /\ r.done \in DoneType
    BY BoundsAssumption DEF IsReply
  <2>2. ring[l] \in RingType
    BY <2>1 DEF LegTypes
  <2>3. Pushed(ring[l], r.frames) \in RingType
    <3>1. ring[l] \in [frames : Seq(FrameType), first : Nat] /\ r.frames \in Seq(FrameType)
      BY <2>1, <2>2 DEF RingType
    <3>2. Pushed(ring[l], r.frames) \in [frames : Seq(FrameType), first : Nat]
      BY <3>1, PushedTypes
    <3> QED BY <3>2 DEF RingType
  <2>4. /\ legGen' = [legGen EXCEPT ![l] = r.gen]
        /\ ring' = [ring EXCEPT ![l] = Pushed(ring[l], r.frames)]
        /\ done' = [done EXCEPT ![l] = r.done]
        /\ UNCHANGED <<available, legEpoch, continues>>
    <3>1. /\ legGen' = [legGen EXCEPT ![l] = r.gen]
          /\ ring' = [ring EXCEPT ![l] = Pushed(@, r.frames)]
          /\ done' = [done EXCEPT ![l] = r.done]
          /\ UNCHANGED <<available, legEpoch, continues>>
      BY <1>2 DEF OnFrames
    <3> QED BY <3>1
  <2> HIDE DEF l
  <2>5. ring' \in [Legs -> RingType]
    <3>1. ring \in [Legs -> RingType]
      BY DEF LegTypes
    <3> DEFINE p == Pushed(ring[l], r.frames)
    <3>2. p \in RingType /\ ring' = [ring EXCEPT ![l] = p]
      BY <2>3, <2>4
    <3> HIDE DEF p
    <3> QED BY <3>1, <3>2, <2>1
  <2>6. legGen' \in [Legs -> 0..MaxGen] /\ done' \in [Legs -> DoneType]
    BY <2>1, <2>4 DEF LegTypes
  <2> QED BY <2>4, <2>5, <2>6 DEF LegTypes
<1> QED BY <1>1, <1>2

(* Nothing built.                                                           *)
LEMMA NoSessionTypes ==
  ASSUME LegTypes, PanelTypes, readout \in ReadoutType, OnNoSession
  PROVE  LegTypes' /\ reported' \in BOOLEAN /\ readout' \in ReadoutType
<1>1. \/ ResetLegs(NoLegs) /\ (reported' = TRUE \/ reported' = reported)
      \/ UNCHANGED legVars /\ reported' = reported
  BY DEF OnNoSession
<1>2. readout' = NoReadout \/ readout' = readout
  BY DEF OnNoSession
<1>3. reported' \in BOOLEAN
  BY <1>1 DEF PanelTypes
<1>4. LegTypes'
  BY <1>1, ResetTypes, NoLegsType, SameLegTypes
<1> QED BY <1>2, <1>3, <1>4, ReadoutTypes

(* A register machine's copy has its leg.                                   *)
LEMMA RxmLeg == Kind = "rxm-scratch" => "rxm" \in Legs
<1>1. Kind = "rxm-scratch" => FillOrder = <<"rxm">>
  BY ProtocolAssumption
<1> QED BY <1>1 DEF Legs, ToSet

(* A reply the client let through.                                          *)
LEMMA ReplyTypes ==
  ASSUME LegTypes, PanelTypes, readout \in ReadoutType, NEW r, IsReply(r), OnReply(r)
  PROVE  ShowsTypes
<1>1. ASSUME r.kind = "compiled", ResetLegs(r.present),
             readout' = CASE Kind = "rxm-scratch" -> Reading(r.gen, r.value)
                          [] Kind = "tm-scratch" -> NoReadout
                          [] OTHER -> readout,
             UNCHANGED <<results, reported>>
      PROVE  ShowsTypes
  <2>1. r.present \in [Legs -> BOOLEAN] /\ r.value \in ValueType /\ r.gen \in 0..MaxGen
    BY <1>1, BoundsAssumption DEF IsReply, ValueType
  <2>2. LegTypes'
    BY <1>1, <2>1, ResetTypes
  <2>3. \/ readout' = Reading(r.gen, r.value) \/ readout' = NoReadout \/ readout' = readout
    BY <1>1
  <2>4. readout' \in ReadoutType
    BY <2>1, <2>3, ReadoutTypes
  <2> QED BY <1>1, <2>2, <2>4 DEF PanelTypes, ShowsTypes
<1>2. ASSUME OnNoSession, results' = "idle" PROVE ShowsTypes
  BY <1>2, NoSessionTypes DEF PanelTypes, ShowsTypes
<1>3. ASSUME ResetLegs(NoLegs), readout' = NoReadout, results' = "idle", UNCHANGED reported
      PROVE  ShowsTypes
  BY <1>3, ResetTypes, NoLegsType, ReadoutTypes DEF PanelTypes, ShowsTypes
<1>4. ASSUME r.kind = "frames", OnFrames(r), UNCHANGED <<results, readout, reported>>
      PROVE  ShowsTypes
  BY <1>4, FramesTypes DEF PanelTypes, ShowsTypes
<1>5. ASSUME r.kind = "result",
             readout' = [gen |-> r.gen, value |-> [l \in Legs |-> r.part[l].value]],
             results' = "idle", UNCHANGED <<legVars, reported>>
      PROVE  ShowsTypes
  <2>1. \A l \in Legs : r.part[l].value \in ValueType
    BY <1>5 DEF IsReply, ValueType
  <2>2. r.gen \in 0..MaxGen
    BY BoundsAssumption DEF IsReply
  <2>3. readout' \in ReadoutType
    BY <1>5, <2>1, <2>2 DEF ReadoutType
  <2> QED BY <1>5, <2>3, SameLegTypes DEF PanelTypes, ShowsTypes
<1>6. ASSUME r.kind = "tm-value", readout' = Reading(r.gen, r.value),
             UNCHANGED <<results, legVars, reported>>
      PROVE  ShowsTypes
  <2>1. r.value \in ValueType /\ r.gen \in 0..MaxGen
    BY <1>6, BoundsAssumption DEF IsReply, ValueType
  <2> QED BY <1>6, <2>1, ReadoutTypes, SameLegTypes DEF PanelTypes, ShowsTypes
<1>7. ASSUME r.kind = "rxm-value",
             readout' = LET shown == readout.value["rxm"]
                        IN  IF readout = NoReadout THEN readout
                            ELSE Reading(readout.gen, KeepDecidedPart([value |-> shown],
                                                          [value |-> r.value]).value),
             UNCHANGED <<results, legVars, reported>>
      PROVE  ShowsTypes
  <2> DEFINE v == KeepDecidedPart([value |-> readout.value["rxm"]],
                                  [value |-> r.value]).value
  <2>1. r.value \in ValueType /\ "rxm" \in Legs
    BY <1>7, RxmLeg DEF IsReply, ValueType
  <2>2. readout.gen \in 0..MaxGen /\ readout.value["rxm"] \in ValueType
    BY <2>1 DEF ReadoutType
  <2>3. v \in ValueType
    BY <2>1, <2>2 DEF KeepDecidedPart
  <2>4. readout' = readout \/ readout' = Reading(readout.gen, v)
    BY <1>7
  <2> HIDE DEF v
  <2>5. readout' \in ReadoutType
    BY <2>2, <2>3, <2>4, ReadoutTypes
  <2> QED BY <1>7, <2>5, SameLegTypes DEF PanelTypes, ShowsTypes
<1> QED BY <1>1, <1>2, <1>3, <1>4, <1>5, <1>6, <1>7 DEF OnReply

(* A reply delivered.                                                       *)
LEMMA DeliverTypes ==
  PageTypes /\ QueueTypes /\ Deliver => PageTypes' /\ PostsRequest
<1> SUFFICES ASSUME PageTypes, QueueTypes, Deliver PROVE PageTypes' /\ PostsRequest
  OBVIOUS
<1>1. /\ LegTypes /\ ClientTypes /\ PanelTypes /\ readout \in ReadoutType
      /\ gen = 0 => \A k \in Legs : ~available[k]
  BY PageTypesApart
<1>2. toWorker' = toWorker /\ gen' = gen /\ timer' = timer
  BY DEF Deliver
<1>3. CASE Accepts(Head(toPage))
  <2> DEFINE r == Head(toPage)
  <2>1. IsReply(r)
    <3>1. IsSeq(toPage) /\ toPage # <<>>
      BY DEF QueueTypes, Deliver
    <3>2. 1 \in DOMAIN toPage /\ Head(toPage) = toPage[1]
      BY <3>1, Taken
    <3> QED BY <3>2 DEF QueueTypes
  <2>2. awaitingRun' = (awaitingRun /\ ~AnswersRun(r)) /\ OnReply(r) /\ gen # 0
    BY <1>3 DEF Deliver, Accepts
  <2> HIDE DEF r
  <2>3. ShowsTypes
    BY <1>1, <2>1, <2>2, ReplyTypes
  <2>4. awaitingRun' \in BOOLEAN
    BY <2>2
  <2> QED BY <1>1, <1>2, <2>2, <2>3, <2>4, PageTypesApartNext
          DEF ShowsTypes, ClientTypes, PostsRequest
<1>4. CASE ~Accepts(Head(toPage))
  <2>1. UNCHANGED <<awaitingRun, results, legVars, readout, reported>>
    BY <1>4 DEF Deliver
  <2>2. LegTypes' /\ PanelTypes' /\ readout' \in ReadoutType /\ ClientTypes'
        /\ available' = available
    BY <1>1, <1>2, <2>1, SameLegTypes DEF PanelTypes, ClientTypes, legVars
  <2> QED BY <1>1, <1>2, <2>2, PageTypesApartNext DEF PostsRequest
<1> QED BY <1>3, <1>4

(* Every step of the page keeps its types, and posts requests only.         *)
LEMMA PageStepTypes ==
  PageTypes /\ QueueTypes /\ PageNext => PageTypes' /\ PostsRequest
BY EditTypes, TimerTypes, DeliverTypes, ContinueTypes, RestartTypes DEF PageNext

-----------------------------------------------------------------------------
(* The threads together.                                                    *)

RequestsTyped == IsSeq(toWorker) /\ \A i \in DOMAIN toWorker : IsRequest(toWorker[i])
RepliesTyped == IsSeq(toPage) /\ \A i \in DOMAIN toPage : IsReply(toPage[i])
AsideTypes == ready \in BOOLEAN /\ latest \in 0..MaxGen /\ waiting \in Seq(1..MaxGen)

(* What the page and the worker keep of their calls, types and messages.    *)
SessionInv ==
    /\ HandleInv /\ GenInv
    /\ CallInv /\ OneLoop /\ AsideTypes
    /\ PageTypes
    /\ RequestsTyped /\ RepliesTyped /\ RepliesOld

(* Of a sequence one longer, each element is an old one or the new.         *)
LEMMA AppendedTo ==
  ASSUME NEW s, IsSeq(s), NEW x
  PROVE  /\ IsSeq(Append(s, x))
         /\ \A i \in DOMAIN Append(s, x) :
               \/ i \in DOMAIN s /\ Append(s, x)[i] = s[i]
               \/ Append(s, x)[i] = x
<1>1. /\ IsSeq(Append(s, x))
      /\ DOMAIN s = 1..Len(s) /\ Len(s) \in Nat
      /\ DOMAIN Append(s, x) = 1..(Len(s) + 1)
      /\ \A i \in DOMAIN s : Append(s, x)[i] = s[i]
      /\ Append(s, x)[Len(s) + 1] = x
  BY Appended
<1> DEFINE n == Len(s)
           a == Append(s, x)
<1> HIDE DEF n, a
<1>2. \A i \in 1..(n + 1) : i \in 1..n \/ i = n + 1
  <2>1. n \in Nat
    BY <1>1 DEF n
  <2> QED BY <2>1
<1>3. ASSUME NEW i \in DOMAIN a PROVE (i \in DOMAIN s /\ a[i] = s[i]) \/ a[i] = x
  <2>1. DOMAIN a = 1..(n + 1) /\ DOMAIN s = 1..n
    BY <1>1 DEF a, n
  <2>2. i \in DOMAIN s \/ i = n + 1
    BY <1>2, <2>1, Zenon
  <2>3. /\ \A j \in DOMAIN s : a[j] = s[j]
        /\ a[n + 1] = x
    BY <1>1 DEF a, n
  <2> QED BY <2>2, <2>3
<1> QED BY <1>1, <1>3 DEF a

(* A request more, one less, or the same ones.                              *)
LEMMA RequestsStay ==
  ASSUME RequestsTyped,
         PostsRequest \/ (toWorker # <<>> /\ toWorker' = Tail(toWorker))
  PROVE  RequestsTyped'
<1>1. CASE toWorker' = toWorker
  BY <1>1 DEF RequestsTyped
<1>2. ASSUME NEW m, IsRequest(m), toWorker' = Append(toWorker, m) PROVE RequestsTyped'
  <2>1. IsSeq(toWorker) /\ \A i \in DOMAIN toWorker : IsRequest(toWorker[i])
    BY DEF RequestsTyped
  <2>2. /\ IsSeq(toWorker')
        /\ \A i \in DOMAIN toWorker' :
              (i \in DOMAIN toWorker /\ toWorker'[i] = toWorker[i]) \/ toWorker'[i] = m
    BY <1>2, <2>1, AppendedTo
  <2>3. ASSUME NEW i \in DOMAIN toWorker' PROVE IsRequest(toWorker'[i])
    BY <1>2, <2>1, <2>2
  <2> QED BY <2>2, <2>3 DEF RequestsTyped
<1>3. ASSUME toWorker # <<>>, toWorker' = Tail(toWorker) PROVE RequestsTyped'
  <2>1. IsSeq(toWorker) /\ \A i \in DOMAIN toWorker : IsRequest(toWorker[i])
    BY DEF RequestsTyped
  <2>2. /\ IsSeq(toWorker')
        /\ \A i \in DOMAIN toWorker' :
              i + 1 \in DOMAIN toWorker /\ toWorker'[i] = toWorker[i + 1]
    BY <1>3, <2>1, Taken
  <2>3. ASSUME NEW i \in DOMAIN toWorker' PROVE IsRequest(toWorker'[i])
    BY <2>1, <2>2
  <2> QED BY <2>2, <2>3 DEF RequestsTyped
<1> QED BY <1>1, <1>2, <1>3 DEF PostsRequest

(* A reply more of a build taken up, one less, or the same ones.            *)
LEMMA RepliesStay ==
  ASSUME RepliesTyped, RepliesOld, StillOld,
         \/ toPage # <<>> /\ toPage' = Tail(toPage)
         \/ toPage' = toPage
         \/ \E r : IsReply(r) /\ Old(r.gen)' /\ toPage' = Append(toPage, r)
  PROVE  RepliesTyped' /\ RepliesOld'
<1>0. /\ IsSeq(toPage)
      /\ \A i \in DOMAIN toPage : IsReply(toPage[i]) /\ Old(toPage[i].gen)
  BY DEF RepliesTyped, RepliesOld
<1>a. ASSUME NEW r, NEW i \in DOMAIN toPage, r = toPage[i] PROVE IsReply(r) /\ Old(r.gen)'
  <2>1. ASSUME NEW g, g = r.gen PROVE Old(g)'
    BY <1>0, <1>a, <2>1 DEF StillOld
  <2> QED BY <1>0, <1>a, <2>1 DEF Old, Issued
<1>b. ASSUME IsSeq(toPage'),
             \A i \in DOMAIN toPage' :
                \E r : IsReply(r) /\ Old(r.gen)' /\ toPage'[i] = r
      PROVE  RepliesTyped' /\ RepliesOld'
  <2>1. ASSUME NEW i \in DOMAIN toPage' PROVE IsReply(toPage'[i])
    BY <1>b
  <2>2. RepliesOld'
    BY <1>b DEF RepliesOld, Old, Issued
  <2> QED BY <1>b, <2>1, <2>2 DEF RepliesTyped
<1>1. CASE toPage' = toPage
  BY <1>0, <1>1, <1>a, <1>b
<1>2. ASSUME NEW r, IsReply(r), Old(r.gen)', toPage' = Append(toPage, r)
      PROVE  RepliesTyped' /\ RepliesOld'
  <2>1. /\ IsSeq(toPage')
        /\ \A i \in DOMAIN toPage' :
              (i \in DOMAIN toPage /\ toPage'[i] = toPage[i]) \/ toPage'[i] = r
    BY <1>0, <1>2, AppendedTo
  <2>2. ASSUME NEW i \in DOMAIN toPage'
        PROVE  \E q : IsReply(q) /\ Old(q.gen)' /\ toPage'[i] = q
    BY <1>2, <1>a, <2>1
  <2> QED BY <1>b, <2>1, <2>2
<1>3. ASSUME toPage # <<>>, toPage' = Tail(toPage) PROVE RepliesTyped' /\ RepliesOld'
  <2>1. /\ IsSeq(toPage')
        /\ \A i \in DOMAIN toPage' :
              i + 1 \in DOMAIN toPage /\ toPage'[i] = toPage[i + 1]
    BY <1>0, <1>3, Taken
  <2>2. ASSUME NEW i \in DOMAIN toPage'
        PROVE  \E q : IsReply(q) /\ Old(q.gen)' /\ toPage'[i] = q
    BY <1>a, <2>1
  <2> QED BY <1>b, <2>1, <2>2
<1> QED BY <1>1, <1>2, <1>3

(* A step that leaves the calls alone leaves what holds of them.            *)
LEMMA CallsAside ==
  ASSUME SessionInv, StillOld,
         UNCHANGED <<live, recorded, allowance, recording, epoch, posted, rewoundFrom,
                     suspended, running, throws>>
  PROVE  CallsFit' /\ PartTypes' /\ LoopsInv'
<1>1. CallsFit /\ PartTypes /\ CallsOld /\ LoopsFit /\ RunningFits /\ OneLoop
  BY DEF SessionInv, CallInv
<1>2. CallsFit'
  BY <1>1 DEF CallsFit, CallTypes, CursorsFit, CursorFits, RunLength
<1>3. PartTypes'
  BY <1>1 DEF PartTypes
<1>4. CallsOld'
  <2>1. \A i \in DOMAIN suspended : Old(suspended[i].gen)
    BY <1>1 DEF CallsOld
  <2>2. running # Idle => Old(running.call.gen)
    BY <1>1 DEF CallsOld
  <2>3. \A i \in DOMAIN suspended' : suspended'[i].gen = suspended[i].gen
    OBVIOUS
  <2> QED BY <2>1, <2>2 DEF CallsOld, StillOld, Old, Issued
<1>5. LoopsFit'
  BY <1>1 DEF LoopsFit, LoopFits, Owns, Present
<1>6. RunningFits'
  BY <1>1 DEF RunningFits
<1>7. OneLoop'
  BY <1>1 DEF OneLoop, OneOf, FlightsOf, Flies, Owns
<1> QED BY <1>2, <1>3, <1>4, <1>5, <1>6, <1>7 DEF LoopsInv

(* A reply posted of a build taken up.                                      *)
LEMMA RepliesPosted ==
  ASSUME SessionInv, StillOld, NEW g, Old(g)', PostsOf(g)
  PROVE  RepliesTyped' /\ RepliesOld'
<1>1. CASE toPage' = toPage
  BY <1>1, RepliesStay DEF SessionInv
<1>2. ASSUME NEW r, IsReply(r), r.gen = g, toPage' = Append(toPage, r)
      PROVE  RepliesTyped' /\ RepliesOld'
  <2>1. Old(r.gen)'
    BY <1>2 DEF Old, Issued
  <2>2. \E q : IsReply(q) /\ Old(q.gen)' /\ toPage' = Append(toPage, q)
    BY <1>2, <2>1
  <2> QED BY <2>2, RepliesStay DEF SessionInv
<1> QED BY <1>1, <1>2 DEF PostsOf

(* What a step has to keep apart from the order of builds.                  *)
RestKept == /\ CallsFit' /\ PartTypes' /\ LoopsInv'
            /\ AsideTypes' /\ PageTypes'
            /\ RequestsTyped' /\ RepliesTyped' /\ RepliesOld'

(* A step of the worker leaves the page as it is.                           *)
LEMMA PageAside == PageTypes /\ UNCHANGED pageVars => PageTypes'
BY DEF PageTypes, pageVars, clientVars, legVars

(* A build begun.                                                           *)
LEMMA BuildKeeps ==
  ASSUME SessionInv, StillOld, UNCHANGED pageVars, NEW g \in 1..MaxGen, Build(g),
         Old(g)', \A i \in DOMAIN suspended : suspended[i].gen < g,
         AsideTypes', RequestsTyped'
  PROVE  RestKept
<1>1. CallInv /\ CallsFit /\ PageTypes
  BY DEF SessionInv, CallInv
<1>2. CallsFit' /\ PartTypes' /\ PostsOf(g)
  BY <1>1, BuildTypes
<1>3. LoopsInv'
  BY <1>1, BuildLoops
<1>4. RepliesTyped' /\ RepliesOld'
  BY <1>2, RepliesPosted
<1>5. PageTypes'
  BY <1>1, PageAside
<1> QED BY <1>2, <1>3, <1>4, <1>5 DEF RestKept

(* The oldest request is one.                                               *)
LEMMA HeadRequest ==
  ASSUME RequestsTyped, toWorker # <<>>
  PROVE  /\ IsRequest(Head(toWorker)) /\ Head(toWorker) = toWorker[1]
         /\ 1 \in DOMAIN toWorker
<1>1. IsSeq(toWorker) /\ \A i \in DOMAIN toWorker : IsRequest(toWorker[i])
  BY DEF RequestsTyped
<1>2. 1 \in DOMAIN toWorker /\ Head(toWorker) = toWorker[1]
  BY <1>1, Taken
<1> QED BY <1>1, <1>2

(* A build request.                                                         *)
LEMMA ReceiveBuildKeeps ==
  ASSUME SessionInv, StillOld, ReceiveBuild, UNCHANGED pageVars PROVE RestKept
<1> DEFINE g == Head(toWorker).gen
<1>1. /\ CallInv /\ CallsFit /\ PageTypes /\ AsideTypes /\ RequestsTyped /\ QueueInv
      /\ RepliesTyped /\ RepliesOld
  BY DEF SessionInv, CallInv, GenInv
<1>2. /\ toWorker # <<>> /\ Head(toWorker).kind = "build" /\ Free
      /\ toWorker' = Tail(toWorker) /\ latest' = g /\ ready' = ready
      /\ gen' = gen /\ timer' = timer
  BY DEF ReceiveBuild, Received, pageVars, clientVars
<1>3. g \in 1..MaxGen /\ Head(toWorker) = toWorker[1] /\ 1 \in Builds /\ IsBuild(1)
  BY <1>1, <1>2, HeadRequest DEF IsRequest, Builds, IsBuild
<1>4. RequestsTyped'
  BY <1>1, <1>2, RequestsStay
<1>5. latest' \in 0..MaxGen /\ ready' \in BOOLEAN /\ waiting \in Seq(1..MaxGen)
  BY <1>1, <1>2, <1>3 DEF AsideTypes
<1>6. CASE ready
  <2>1. Build(g) /\ waiting' = waiting /\ waiting = <<>>
    BY <1>2, <1>6 DEF ReceiveBuild, Free
  <2>2. AsideTypes'
    BY <1>5, <2>1 DEF AsideTypes
  <2>3. \A i \in DOMAIN suspended : suspended[i].gen < g
    BY <1>1, <1>3 DEF CallInv, CallsOld, Old
  <2>4. ASSUME NEW h, h = g PROVE RestKept
    <3>1. TakesRequest /\ h = toWorker[1].gen
      BY <1>2, <1>3, <2>1, <2>4 DEF TakesRequest
    <3>2. Old(h)'
      BY <1>1, <1>3, <2>1, <3>1, OrderBuilt
    <3>3. h \in 1..MaxGen /\ Build(h) /\ \A i \in DOMAIN suspended : suspended[i].gen < h
      BY <1>3, <2>1, <2>3, <2>4
    <3> QED BY <1>4, <2>2, <3>2, <3>3, BuildKeeps
  <2> QED BY <2>4
<1>7. CASE ~ready
  <2>1. /\ waiting' = Append(waiting, g)
        /\ UNCHANGED <<toPage, live, recorded, allowance, recording, epoch, posted,
                       rewoundFrom, suspended, running, throws>>
    BY <1>7 DEF ReceiveBuild, books, parts
  <2>2. waiting' \in Seq(1..MaxGen)
    BY <1>3, <1>5, <2>1
  <2>3. AsideTypes'
    BY <1>5, <2>2 DEF AsideTypes
  <2>4. CallsFit' /\ PartTypes' /\ LoopsInv'
    BY <2>1, CallsAside
  <2>5. RepliesTyped' /\ RepliesOld'
    BY <1>1, <2>1, RepliesStay
  <2>6. PageTypes'
    BY <1>1, PageAside
  <2> QED BY <1>4, <2>3, <2>4, <2>5, <2>6 DEF RestKept
<1> QED BY <1>6, <1>7

(* A build that waited.                                                     *)
LEMMA BuildWaitingKeeps ==
  ASSUME SessionInv, StillOld, BuildWaiting, UNCHANGED pageVars PROVE RestKept
<1> DEFINE g == Head(waiting)
<1>1. /\ CallInv /\ CallsFit /\ AsideTypes /\ RequestsTyped /\ QueueInv
  BY DEF SessionInv, CallInv, GenInv
<1>2. /\ waiting # <<>> /\ waiting' = Tail(waiting) /\ latest' = latest /\ Build(g)
      /\ toWorker' = toWorker /\ ready' = ready /\ gen' = gen /\ timer' = timer
  BY DEF BuildWaiting, pageVars, clientVars
<1>3. /\ waiting \in Seq(1..MaxGen) /\ waiting' \in Seq(1..MaxGen)
      /\ 1 \in DOMAIN waiting /\ g = waiting[1] /\ g \in 1..MaxGen
  <2>1. waiting \in Seq(1..MaxGen) /\ waiting # <<>>
    BY <1>1, <1>2 DEF AsideTypes
  <2>2. /\ Tail(waiting) \in Seq(1..MaxGen) /\ Len(waiting) \in Nat \ {0}
        /\ DOMAIN waiting = 1..Len(waiting) /\ Head(waiting) = waiting[1]
    BY <2>1
  <2>3. 1 \in DOMAIN waiting
    BY <2>2
  <2>4. waiting[1] \in 1..MaxGen
    BY <2>1, <2>2, HeadTailProperties
  <2> QED BY <1>2, <2>1, <2>2, <2>3, <2>4
<1>4. AsideTypes' /\ RequestsTyped'
  BY <1>1, <1>2, <1>3 DEF AsideTypes, RequestsTyped
<1>5. \A i \in DOMAIN suspended : suspended[i].gen < g
  BY <1>1, <1>3 DEF CallInv, CallsOld, Old
<1>6. ASSUME NEW h, h = g PROVE RestKept
  <2>1. Old(h)'
    BY <1>1, <1>2, <1>6, OrderResumed
  <2>2. h \in 1..MaxGen /\ Build(h) /\ \A i \in DOMAIN suspended : suspended[i].gen < h
    BY <1>2, <1>3, <1>5, <1>6
  <2> QED BY <1>4, <2>1, <2>2, BuildKeeps
<1> QED BY <1>6

(* A continue or a rewind.                                                  *)
LEMMA ReceiveLegKeeps ==
  ASSUME SessionInv, StillOld, ReceiveExtend \/ ReceiveRewind, UNCHANGED pageVars
  PROVE  RestKept
<1>1. /\ CallInv /\ PageTypes /\ AsideTypes /\ RequestsTyped /\ Old(live.gen) /\ OneLoop
      /\ RepliesTyped /\ RepliesOld
  BY DEF SessionInv, GenInv
<1>2. /\ toWorker # <<>> /\ toWorker' = Tail(toWorker)
      /\ UNCHANGED <<toPage, ready, waiting, latest>>
  BY DEF ReceiveExtend, ReceiveRewind, Received
<1>3. IsRequest(Head(toWorker))
  BY <1>1, <1>2, HeadRequest
<1>4. AsideTypes' /\ RequestsTyped' /\ RepliesTyped' /\ RepliesOld' /\ PageTypes'
  BY <1>1, <1>2, RequestsStay, RepliesStay, PageAside DEF AsideTypes
<1>5. CASE ReceiveExtend
  <2>1. CallsFit' /\ PartTypes'
    BY <1>1, <1>3, <1>5, ExtendTypes
  <2>2. SameFlight /\ LoopsNext
    BY <1>1, <1>3, <1>5, ExtendLoops
  <2>3. LoopsInv'
    BY <2>2, LoopsStay
  <2> QED BY <1>4, <2>1, <2>3 DEF RestKept
<1>6. CASE ReceiveRewind
  <2>1. CallsFit' /\ PartTypes'
    BY <1>1, <1>3, <1>6, RewindTypes
  <2>2. LoopsInv'
    BY <1>1, <1>3, <1>6, RewindLoops
  <2> QED BY <1>4, <2>1, <2>2 DEF RestKept
<1> QED BY <1>5, <1>6

(* A call that goes on.                                                     *)
LEMMA ProceedsKeeps ==
  ASSUME SessionInv, StillOld, Proceeds, UNCHANGED pageVars PROVE RestKept
<1>1. CallInv /\ OneLoop /\ PageTypes /\ AsideTypes /\ RequestsTyped
  BY DEF SessionInv
<1>2. CallsFit' /\ PartTypes' /\ TellsOld
  BY <1>1, ProceedsTypes
<1>3. SameFlight /\ LoopsNext
  BY <1>1, ProceedsLoops
<1>4. LoopsInv'
  BY <1>3, LoopsStay
<1>5. RepliesTyped' /\ RepliesOld'
  <2>1. PICK g : Old(g) /\ PostsOf(g)
    BY <1>2 DEF TellsOld
  <2>2. Old(g)'
    BY <2>1 DEF StillOld
  <2> QED BY <2>1, <2>2, RepliesPosted
<1>6. UNCHANGED <<toWorker, waiting, ready, latest>>
  BY DEF Proceeds, EnterRecord, AfterRun, AfterExtend, AfterRewind, RunValue,
         ResumeRecord, Returned
<1>7. AsideTypes' /\ RequestsTyped' /\ PageTypes'
  BY <1>1, <1>6, PageAside DEF AsideTypes, RequestsTyped
<1> QED BY <1>2, <1>4, <1>5, <1>7 DEF RestKept

(* A step of the page.                                                      *)
LEMMA PageKeeps ==
  ASSUME SessionInv, StillOld, PageNext, UNCHANGED workerVars PROVE RestKept
<1>1. /\ PageTypes /\ QueueTypes /\ AsideTypes /\ RequestsTyped /\ RepliesTyped /\ RepliesOld
  BY DEF SessionInv, QueueTypes, RequestsTyped, RepliesTyped
<1>2. PageTypes' /\ PostsRequest
  BY <1>1, PageStepTypes
<1>3. RequestsTyped'
  BY <1>1, <1>2, RequestsStay
<1>4. toPage' = toPage \/ (toPage # <<>> /\ toPage' = Tail(toPage))
  BY DEF PageNext, Edit, TimerFires, Deliver, PressContinue, PressRestart
<1>5. RepliesTyped' /\ RepliesOld'
  BY <1>1, <1>4, RepliesStay
<1>6. UNCHANGED <<live, recorded, allowance, recording, epoch, posted, rewoundFrom,
                  suspended, running, throws, ready, latest, waiting>>
  BY DEF workerVars, books, parts
<1>7. CallsFit' /\ PartTypes' /\ LoopsInv'
  BY <1>6, CallsAside
<1>8. AsideTypes'
  BY <1>1, <1>6 DEF AsideTypes
<1> QED BY <1>2, <1>3, <1>5, <1>7, <1>8 DEF RestKept

(* The module comes up, or nothing happens.                                 *)
LEMMA OtherKeeps ==
  ASSUME SessionInv, StillOld, (Instantiated /\ UNCHANGED pageVars) \/ UNCHANGED vars
  PROVE  RestKept
<1>1. /\ PageTypes /\ AsideTypes /\ RequestsTyped /\ RepliesTyped /\ RepliesOld
  BY DEF SessionInv
<1>2. /\ UNCHANGED <<toWorker, toPage, live, recorded, allowance, recording, epoch,
                     posted, rewoundFrom, suspended, running, throws, latest, waiting>>
      /\ UNCHANGED pageVars /\ (ready' = TRUE \/ ready' = ready)
  BY DEF Instantiated, vars, channels, workerVars, books, parts
<1>3. CallsFit' /\ PartTypes' /\ LoopsInv'
  BY <1>2, CallsAside
<1>4. AsideTypes' /\ RequestsTyped' /\ PageTypes'
  BY <1>1, <1>2, PageAside DEF AsideTypes, RequestsTyped
<1>5. RepliesTyped' /\ RepliesOld'
  BY <1>1, <1>2, RepliesStay
<1> QED BY <1>3, <1>4, <1>5 DEF RestKept

(* Every step keeps the invariant.                                          *)
LEMMA NextSession == SessionInv /\ [Next]_vars => SessionInv'
<1> SUFFICES ASSUME SessionInv, [Next]_vars PROVE SessionInv'
  OBVIOUS
<1>1. HandleInv' /\ GenInv' /\ StillOld
  BY NextHandles, NextGen DEF SessionInv
<1>2. RestKept
  BY <1>1, NextByCases, ReceiveBuildKeeps, BuildWaitingKeeps, ReceiveLegKeeps,
     ProceedsKeeps, PageKeeps, OtherKeeps
<1> QED BY <1>1, <1>2 DEF RestKept, LoopsInv, CallInv, SessionInv

(* It holds at first.                                                       *)
LEMMA InitSession == Init => SessionInv
<1> SUFFICES ASSUME Init PROVE SessionInv
  OBVIOUS
<1>0. WorkerInit /\ PageInit /\ toWorker = <<>> /\ toPage = <<>>
  BY DEF Init
<1>1. GenInv
  BY InitGen
<1>2. HandleInv
  BY <1>0 DEF WorkerInit, HandleInv, NoLeakedHandle, LiveShape
<1>3. CallTypes
  <2>1. History \in Nat /\ MaxThrows \in Nat
    BY ProtocolAssumption, ThrowsAssumption
  <2> QED BY <1>0, <2>1, Zeros DEF WorkerInit, CallTypes
<1>4. PartTypes
  BY <1>0 DEF WorkerInit, PartTypes, KeptType
<1>5. CursorsFit /\ CallsOld /\ LoopsFit /\ RunningFits /\ OneLoop
  <2>1. live = NoLive /\ suspended = <<>> /\ running = Idle
    BY <1>0 DEF WorkerInit
  <2>2. DOMAIN suspended = {}
    BY <2>1
  <2>3. CursorsFit /\ OneLoop
    BY <2>1 DEF CursorsFit, OneLoop
  <2>4. CallsOld /\ LoopsFit /\ RunningFits
    BY <2>1, <2>2 DEF CallsOld, LoopsFit, RunningFits
  <2> QED BY <2>3, <2>4
<1>6. AsideTypes
  <2>1. ready = FALSE /\ latest = 0 /\ waiting = <<>>
    BY <1>0 DEF WorkerInit
  <2>2. waiting \in Seq(1..MaxGen)
    BY <2>1, EmptySeq
  <2>3. ready \in BOOLEAN
    BY <2>1
  <2>4. latest \in 0..MaxGen
    BY <2>1, Zeros
  <2> QED BY <2>2, <2>3, <2>4 DEF AsideTypes
<1>7. PageTypes
  <2>1. LegTypes
    BY <1>0, EmptyRingType, Zeros DEF PageInit, LegTypes, DoneType
  <2>2. ClientTypes /\ PanelTypes
    BY <1>0, Zeros DEF PageInit, ClientTypes, PanelTypes
  <2>3. readout \in ReadoutType /\ \A l \in Legs : ~available[l]
    BY <1>0, ReadoutTypes DEF PageInit
  <2> QED BY <2>1, <2>2, <2>3, PageTypesApart
<1>8. RequestsTyped /\ RepliesTyped /\ RepliesOld
  <2>1. IsSeq(<<>>)
    BY DEF IsSeq
  <2>2. DOMAIN <<>> = {}
    OBVIOUS
  <2> QED BY <1>0, <2>1, <2>2 DEF RequestsTyped, RepliesTyped, RepliesOld
<1> QED BY <1>1, <1>2, <1>3, <1>4, <1>5, <1>6, <1>7, <1>8
        DEF SessionInv, CallInv, CallsFit

(* The invariant holds throughout.                                          *)
LEMMA SessionKept == Spec => []SessionInv
<1>1. SessionInv /\ [Next]_vars => SessionInv'
  BY NextSession
<1> QED BY <1>1, InitSession, PTL DEF Spec

(* Every variable of the page and of the worker is of its type, whatever    *)
(* the edits, continues, rewinds and throws.                                *)
THEOREM SessionTypes == Spec => []TypeOK
<1>1. SessionInv => TypeOK
  <2> SUFFICES ASSUME SessionInv PROVE TypeOK
    OBVIOUS
  <2>1. WorkerTypes /\ PageTypes /\ NoLeakedHandle
    BY DEF SessionInv, CallInv, CallsFit, AsideTypes, WorkerTypes, HandleInv
  <2> QED BY <2>1, TypesImply
<1> QED BY <1>1, SessionKept, PTL

(* A leg's cursor is stepped by at most one loop, however continues and     *)
(* rewinds overtake one another, and the leg's `recording' flag is up       *)
(* exactly while there is one (record-loop.ts, the flag's comments).        *)
THEOREM OneLoopSteps == Spec => []OneLoopPerCursor
<1>1. SessionInv => OneLoopPerCursor
  <2> SUFFICES ASSUME SessionInv PROVE OneLoopPerCursor
    OBVIOUS
  <2>1. OneLoop /\ suspended \in Seq(CallType) /\ recording \in [Legs -> BOOLEAN]
    BY DEF SessionInv, CallInv, CallsFit, CallTypes
  <2> QED BY <2>1, OneLoopCounted
<1> QED BY <1>1, SessionKept, PTL
=============================================================================
