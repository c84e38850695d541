------------------------------ MODULE LspProofs ------------------------------
(***************************************************************************)
(* Of the language client, for every number of documents, edits, questions *)
(* and throws: what the user is told of the server is true, no thread      *)
(* outlives its use, the server in use is brought to the documents that    *)
(* are open, and a question is answered from the text it was asked about.  *)
(***************************************************************************)
EXTENDS LspClient, DataLemmas, FiniteSetTheorems

State(w) == thread[w].state

ThreadsAreRecords ==
  /\ DOMAIN thread = Workers
  /\ \A w \in Workers :
       thread[w] = [state |-> thread[w].state, server |-> thread[w].server,
                    waiting |-> thread[w].waiting]

\* Two workers at most, the one in use the last one started, the other gone.
LifeInv ==
  /\ restarts \in {0, 1}
  /\ port \in {NoPort, restarts + 1}
  /\ started \/ (port = NoPort /\ restarts = 0)
  /\ \A w \in Workers :
       /\ State(w) \in {"none", "loading", "up", "failed", "terminated"}
       /\ State(w) \in {"loading", "up", "failed"} <=> port = w
       /\ w > restarts + 1 => State(w) = "none"
       /\ ~started => State(w) = "none"

\* What a worker that is not up can have posted.
PostInv ==
  /\ DOMAIN outbox = Workers
  /\ \A w \in Workers :
       /\ State(w) \in {"none", "loading"} => outbox[w] = <<>>
       /\ State(w) = "failed" => outbox[w] \in {<<>>, <<[kind |-> "failed"]>>}

\* Error events come from workers that erred, and a restart from the first.
ErrorInv ==
  /\ DOMAIN errors = Workers
  /\ erred \subseteq Workers
  /\ \A w \in Workers : errors[w] \in Nat /\ (errors[w] > 0 => w \in erred)
  /\ restarts = 1 => 1 \in erred

NoticeInv ==
  /\ restarting \in BOOLEAN /\ ready \in BOOLEAN /\ off \in BOOLEAN
  /\ restarting => restarts = 1
  /\ off => started /\ port = NoPort /\ notice \in {"stopped twice", "unavailable"}
  /\ notice = "back" => restarts = 1 /\ ready /\ ~off /\ port # NoPort
  /\ notice = "stopped twice" => off /\ erred = Workers
  /\ notice = "unavailable" => off
  /\ port # NoPort /\ ready => State(port) = "up"

Inv == ThreadsAreRecords /\ LifeInv /\ PostInv /\ ErrorInv /\ NoticeInv

-----------------------------------------------------------------------------
\* Initially no worker was started, and nothing was posted or told.
LEMMA InitInv == Init => Inv
<1> SUFFICES ASSUME Init PROVE Inv
  OBVIOUS
<1>1. ThreadsAreRecords
  BY DEF Init, ThreadsAreRecords
<1>2. LifeInv
  <2>1. port = 0 /\ restarts = 0 /\ ~started /\ \A w \in Workers : State(w) = "none"
    BY DEF Init, NoPort, State
  <2> QED
    BY <2>1 DEF LifeInv, NoPort, Workers
<1>3. PostInv
  BY DEF Init, PostInv, State
<1>4. ErrorInv
  <2>1. DOMAIN errors = Workers /\ erred = {} /\ restarts = 0 /\ \A w \in Workers : errors[w] = 0
    BY DEF Init
  <2> QED
    BY <2>1 DEF ErrorInv
<1>5. NoticeInv
  BY DEF Init, NoticeInv, NoPort
<1> QED
  BY <1>1, <1>2, <1>3, <1>4, <1>5 DEF Inv

\* Steps that touch no variable of the invariant.
LEMMA QuietSteps ==
  ASSUME Inv,
         UNCHANGED <<port, ready, restarts, off, restarting, started, notice, thread, outbox, errors, erred>>
  PROVE  Inv'
BY DEF Inv, ThreadsAreRecords, LifeInv, PostInv, ErrorInv, NoticeInv, State

\* The first editor to be shown starts the first worker.
LEMMA StartStep == ASSUME Inv, Start PROVE Inv'
<1> USE DEF Workers, NoPort
<1>0. /\ ~started /\ port = NoPort /\ restarts = 0 /\ started' /\ port' = 1 /\ ready' = FALSE
      /\ thread' = [thread EXCEPT ![1].state = "loading"]
      /\ UNCHANGED <<restarts, off, restarting, notice, outbox, errors, erred>>
  BY DEF Inv, LifeInv, Start, Spawn, page
<1>1. ThreadsAreRecords'
  BY <1>0 DEF Inv, ThreadsAreRecords
<1>2. State(1)' = "loading" /\ State(2)' = "none" /\ State(1) = "none" /\ State(2) = "none"
  BY <1>0 DEF Inv, LifeInv, State, ThreadsAreRecords
<1>3. LifeInv'
  BY <1>0, <1>2 DEF LifeInv
<1>4. PostInv'
  BY <1>0, <1>2 DEF Inv, PostInv
<1>5. ErrorInv'
  BY <1>0 DEF Inv, ErrorInv
<1>6. NoticeInv'
  BY <1>0, <1>2 DEF Inv, NoticeInv
<1> QED
  BY <1>1, <1>3, <1>4, <1>5, <1>6 DEF Inv

\* The editors' actions.
LEMMA EditorStep ==
  ASSUME Inv, NEW u \in Uris,
         OpenDocument(u) \/ ChangeDocument(u) \/ CloseDocument(u) \/ Request(u)
  PROVE  Inv'
<1>1. UNCHANGED <<port, ready, restarts, off, restarting, started, notice, thread, outbox, errors, erred>>
  BY DEF OpenDocument, ChangeDocument, CloseDocument, Request
<1> QED
  BY <1>1, QuietSteps

\* A thread's step on its own.
LEMMA ThreadInv ==
  ASSUME Inv, NEW w \in Workers, ThreadStep(w)
  PROVE  Inv'
<1> USE DEF Workers, NoPort
<1> DEFINE Kept == UNCHANGED <<port, ready, restarts, off, restarting, started, notice>>
<1>1. CASE Loads(w)
  <2>1. /\ Kept /\ UNCHANGED <<errors, erred>>
        /\ State(w) = "loading"
        /\ State(w)' = "up"
        /\ \A v \in Workers : v # w => State(v)' = State(v) /\ outbox'[v] = outbox[v]
        /\ DOMAIN outbox' = Workers
        /\ ThreadsAreRecords'
    BY <1>1 DEF Loads, Posted, client, page, Inv, ThreadsAreRecords, PostInv, State
  <2>2. port = w
    BY <2>1 DEF Inv, LifeInv
  <2>3. LifeInv'
    BY <2>1, <2>2 DEF Inv, LifeInv
  <2>4. PostInv'
    BY <2>1 DEF Inv, PostInv
  <2>5. ErrorInv'
    BY <2>1 DEF Inv, ErrorInv
  <2>6. NoticeInv'
    BY <2>1, <2>2 DEF Inv, NoticeInv
  <2> QED
    BY <2>1, <2>3, <2>4, <2>5, <2>6 DEF Inv
<1>2. CASE LoadFails(w)
  <2>1. /\ Kept /\ UNCHANGED <<errors, erred>>
        /\ State(w) = "loading"
        /\ State(w)' = "failed"
        /\ \A v \in Workers : v # w => State(v)' = State(v) /\ outbox'[v] = outbox[v]
        /\ outbox'[w] = outbox[w] \o <<[kind |-> "failed"]>>
        /\ DOMAIN outbox' = Workers
        /\ ThreadsAreRecords'
    BY <1>2 DEF LoadFails, Posted, client, page, Inv, ThreadsAreRecords, PostInv, State
  <2>2. port = w /\ outbox[w] = <<>>
    BY <2>1 DEF Inv, LifeInv, PostInv
  <2>3. LifeInv'
    BY <2>1, <2>2 DEF Inv, LifeInv
  <2>4. outbox'[w] = <<[kind |-> "failed"]>>
    BY <2>1, <2>2
  <2>5. PostInv'
    BY <2>1, <2>4 DEF Inv, PostInv
  <2>6. ErrorInv'
    BY <2>1 DEF Inv, ErrorInv
  <2>7. NoticeInv'
    BY <2>1, <2>2 DEF Inv, NoticeInv
  <2> QED
    BY <2>1, <2>3, <2>5, <2>6, <2>7 DEF Inv
<1>3. CASE Receive(w)
  <2>1. /\ Kept /\ UNCHANGED <<errors, erred>>
        /\ State(w) \in {"loading", "failed", "up"}
        /\ \A v \in Workers : State(v)' = State(v)
        /\ \A v \in Workers : v # w \/ State(w) # "up" => outbox'[v] = outbox[v]
        /\ DOMAIN outbox' = Workers
        /\ ThreadsAreRecords'
    <3>1. Kept /\ UNCHANGED <<errors, erred>> /\ State(w) \in {"loading", "failed", "up"}
      BY <1>3 DEF Receive, client, page, State
    <3>2. CASE State(w) = "up"
      <4>1. /\ thread' = [thread EXCEPT ![w].server = ServerAfter(@, Head(inbox[w]))]
            /\ Posted(w, Outgoing(thread[w].server, Head(inbox[w])))
        BY <1>3, <3>2 DEF Receive, State
      <4>2. ThreadsAreRecords' /\ \A v \in Workers : State(v)' = State(v)
        BY <4>1 DEF Inv, ThreadsAreRecords, State
      <4>3. DOMAIN outbox' = Workers /\ \A v \in Workers : v # w => outbox'[v] = outbox[v]
        BY <4>1 DEF Inv, PostInv, Posted
      <4> QED
        BY <3>1, <3>2, <4>2, <4>3
    <3>3. CASE State(w) # "up"
      <4>1. /\ thread' = [thread EXCEPT ![w].waiting = Append(thread[w].waiting, Head(inbox[w]))]
            /\ UNCHANGED outbox
        BY <1>3, <3>3 DEF Receive, State
      <4> DEFINE rest == Append(thread[w].waiting, Head(inbox[w]))
      <4> HIDE DEF rest
      <4>2. thread' = [thread EXCEPT ![w].waiting = rest]
        BY <4>1 DEF rest
      <4>3. ThreadsAreRecords' /\ \A v \in Workers : State(v)' = State(v)
        BY <4>2 DEF Inv, ThreadsAreRecords, State
      <4> QED
        BY <3>1, <4>1, <4>3 DEF Inv, PostInv
    <3> QED
      BY <3>2, <3>3
  <2>2. LifeInv'
    BY <2>1 DEF Inv, LifeInv
  <2>3. PostInv'
    BY <2>1 DEF Inv, PostInv
  <2>4. ErrorInv'
    BY <2>1 DEF Inv, ErrorInv
  <2>5. NoticeInv'
    BY <2>1 DEF Inv, NoticeInv, LifeInv
  <2> QED
    BY <2>1, <2>2, <2>3, <2>4, <2>5 DEF Inv
<1>4. CASE Throw(w)
  <2>1. /\ Kept /\ UNCHANGED outbox
        /\ errors' = [errors EXCEPT ![w] = @ + 1] /\ erred' = erred \cup {w}
        /\ \A v \in Workers : v # w => State(v)' = State(v)
        /\ \/ State(w) = "loading" /\ State(w)' = "failed"
           \/ State(w) = "up" /\ State(w)' = "up"
        /\ ThreadsAreRecords'
    BY <1>4 DEF Throw, client, page, Inv, ThreadsAreRecords, State
  <2>2. port = w
    BY <2>1 DEF Inv, LifeInv
  <2>3. LifeInv'
    BY <2>1, <2>2 DEF Inv, LifeInv
  <2>4. PostInv'
    BY <2>1 DEF Inv, PostInv
  <2>5. ErrorInv'
    BY <2>1 DEF Inv, ErrorInv
  <2>6. NoticeInv'
    BY <2>1, <2>2 DEF Inv, NoticeInv
  <2> QED
    BY <2>1, <2>3, <2>4, <2>5, <2>6 DEF Inv
<1> QED
  BY <1>1, <1>2, <1>3, <1>4 DEF ThreadStep

\* What is left of a worker that is terminated.
LEMMA TerminatedState ==
  ASSUME Inv, NEW w \in Workers, Terminated(w)
  PROVE  /\ ThreadsAreRecords'
         /\ State(w)' = "terminated"
         /\ \A v \in Workers : v # w => State(v)' = State(v)
BY DEF Terminated, Gone, Inv, ThreadsAreRecords, State

\* The first message of a worker that is not up is its failure.
LEMMA HeadOfFailed ==
  ASSUME Inv, NEW w \in Workers, outbox[w] # <<>>
  PROVE  /\ State(w) \notin {"none", "loading"}
         /\ State(w) = "failed" => /\ Head(outbox[w]).kind = "failed"
                                   /\ Tail(outbox[w]) = <<>>
<1>1. State(w) \notin {"none", "loading"}
  BY DEF Inv, PostInv
<1>2. ASSUME State(w) = "failed"
      PROVE  Head(outbox[w]).kind = "failed" /\ Tail(outbox[w]) = <<>>
  <2>1. outbox[w] = <<[kind |-> "failed"]>>
    BY <1>2 DEF Inv, PostInv
  <2> QED
    BY <2>1
<1> QED
  BY <1>1, <1>2

\* The worker in use: the last one started, of a client that is not off.
LEMMA WorkerInUse ==
  ASSUME Inv, NEW w \in Workers, Mine(w)
  PROVE  /\ port = w /\ restarts = w - 1
         /\ started /\ ~off
         /\ State(w) \in {"loading", "up", "failed"}
<1> USE DEF Workers, NoPort
<1>1. port = w /\ w \in {1, 2} /\ port # 0
  BY DEF Mine
<1>2. restarts = w - 1 /\ started /\ State(w) \in {"loading", "up", "failed"}
  BY <1>1 DEF Inv, LifeInv
<1>3. ~off
  <2>1. off => port = 0
    BY Zenon DEF Inv, NoticeInv
  <2> QED
    BY <1>1, <2>1, Zenon
<1> QED
  BY <1>1, <1>2, <1>3

\* The page takes what a worker posted.
LEMMA DeliverStep ==
  ASSUME Inv, NEW w \in Workers, Deliver(w)
  PROVE  Inv'
<1> USE DEF Workers, NoPort
<1>1. /\ outbox[w] # <<>> /\ UNCHANGED <<errors, erred>>
      /\ outbox' = [outbox EXCEPT ![w] = Tail(@)]
  BY DEF Deliver
<1>2. /\ DOMAIN outbox' = Workers
      /\ \A v \in Workers : v # w => outbox'[v] = outbox[v]
      /\ outbox'[w] = Tail(outbox[w])
  BY <1>1 DEF Inv, PostInv
<1>3. /\ State(w) \notin {"none", "loading"}
      /\ State(w) = "failed" => Head(outbox[w]).kind = "failed" /\ outbox'[w] = <<>>
  BY <1>1, <1>2, HeadOfFailed
<1>4. ASSUME UNCHANGED <<port, ready, restarts, off, restarting, started, notice, thread>>
      PROVE  Inv'
  <2>1. PostInv'
    BY <1>2, <1>3, <1>4 DEF Inv, PostInv, State
  <2> QED
    BY <1>1, <1>4, <2>1 DEF Inv, ThreadsAreRecords, LifeInv, ErrorInv, NoticeInv, State
<1>5. CASE ~Mine(w)
  BY <1>4, <1>5 DEF Deliver, client, page
<1>6. CASE Mine(w)
  <2>1. port = w /\ State(w) \in {"up", "failed"} /\ started /\ ~off
    BY <1>3, <1>6, WorkerInUse
  <2>2. CASE OnFailed
    <3>1. /\ off' = TRUE /\ restarting' = FALSE /\ port' = 0 /\ notice' = "unavailable"
          /\ Terminated(w) /\ UNCHANGED <<ready, restarts, started>>
      BY <2>1, <2>2 DEF OnFailed
    <3>2. /\ ThreadsAreRecords' /\ State(w)' = "terminated"
          /\ \A v \in Workers : v # w => State(v)' = State(v)
      BY <3>1, TerminatedState
    <3>3. LifeInv'
      BY <2>1, <3>1, <3>2 DEF Inv, LifeInv
    <3>4. PostInv'
      BY <1>2, <3>2 DEF Inv, PostInv
    <3>5. ErrorInv'
      BY <1>1, <3>1 DEF Inv, ErrorInv
    <3>6. NoticeInv'
      BY <2>1, <3>1, <3>2 DEF Inv, NoticeInv
    <3> QED
      BY <3>2, <3>3, <3>4, <3>5, <3>6 DEF Inv
  <2>3. CASE Head(outbox[w]).kind = "ready" /\ OnReady
    <3>1. /\ ready' = TRUE /\ restarting' = FALSE
          /\ notice' = IF restarting THEN "back" ELSE notice
          /\ UNCHANGED <<port, restarts, off, started, thread>>
      BY <2>3 DEF OnReady
    <3>2. State(w) = "up"
      BY <1>3, <2>1, <2>3
    <3>3. PostInv'
      BY <1>2, <3>1, <3>2 DEF Inv, PostInv, State
    <3>4. ThreadsAreRecords' /\ LifeInv' /\ ErrorInv'
      BY <1>1, <3>1 DEF Inv, ThreadsAreRecords, LifeInv, ErrorInv, State
    <3>5. CASE restarting
      <4>1. restarts = 1 /\ notice' = "back" /\ off' = FALSE /\ port' = w /\ State(w)' = "up" /\ restarts' = 1
        <5>1. restarting => restarts = 1
          BY Zenon DEF Inv, NoticeInv
        <5>2. restarts = 1 /\ notice' = "back" /\ off' = off /\ port' = port /\ restarts' = restarts
          BY <3>1, <3>5, <5>1, Zenon
        <5>3. State(w)' = "up"
          BY <3>1, <3>2 DEF State
        <5> QED
          BY <2>1, <5>2, <5>3 DEF Inv, NoticeInv
      <4>2. NoticeInv'
        <5>1. restarting' = FALSE /\ ready' = TRUE
          BY <3>1
        <5>2. port' # 0 /\ (ready' => State(port)' = "up")
          BY <4>1 DEF State
        <5> QED
          BY <4>1, <5>1, <5>2 DEF NoticeInv
      <4> QED
        BY <3>3, <3>4, <4>2 DEF Inv
    <3>6. CASE ~restarting
      <4>1. NoticeInv'
        BY <1>1, <2>1, <3>1, <3>2, <3>6 DEF Inv, NoticeInv, State
      <4> QED
        BY <3>3, <3>4, <4>1 DEF Inv
    <3> QED
      BY <3>5, <3>6
  <2>4. CASE OnOut(Head(outbox[w]))
    BY <1>4, <2>4 DEF OnOut
  <2> QED
    BY <1>6, <2>2, <2>3, <2>4 DEF Deliver
<1> QED
  BY <1>5, <1>6

\* An error event: the first worker is replaced, the second ends it.
LEMMA DeliverErrorStep ==
  ASSUME Inv, NEW w \in Workers, DeliverError(w)
  PROVE  Inv'
<1> USE DEF Workers, NoPort
<1>1. /\ errors[w] > 0 /\ UNCHANGED <<outbox, erred>>
      /\ errors' = [errors EXCEPT ![w] = @ - 1]
  BY DEF DeliverError
<1>2. w \in erred
  BY <1>1 DEF Inv, ErrorInv
<1>3. /\ DOMAIN errors' = Workers
      /\ \A v \in Workers : errors'[v] \in Nat /\ (errors'[v] > 0 => v \in erred)
  BY <1>1, <1>2 DEF Inv, ErrorInv
<1>4. CASE ~Mine(w)
  <2>1. UNCHANGED <<port, ready, restarts, off, restarting, started, notice, thread>>
    BY <1>4 DEF DeliverError, client, page
  <2>2. ErrorInv'
    BY <1>1, <1>3, <2>1 DEF Inv, ErrorInv
  <2> QED
    BY <1>1, <2>1, <2>2 DEF Inv, ThreadsAreRecords, LifeInv, PostInv, NoticeInv, State
<1>5. CASE Mine(w)
  <2>1. port = w /\ started /\ ~off /\ restarts = w - 1
    BY <1>5, WorkerInUse
  <2>d. Died
    BY <1>5 DEF DeliverError
  <2>2. CASE restarts >= 1
    <3>1. /\ off' = TRUE /\ notice' = "stopped twice" /\ Terminated(w) /\ port' = 0
          /\ ready' = FALSE /\ UNCHANGED <<restarts, restarting, started>>
      BY <2>1, <2>d, <2>2 DEF Died
    <3>2. /\ ThreadsAreRecords' /\ State(w)' = "terminated"
          /\ \A v \in Workers : v # w => State(v)' = State(v)
      BY <3>1, TerminatedState
    <3>3. restarts = 1 /\ w = 2 /\ erred = Workers
      <4>1. restarts = 1 /\ w = 2
        BY <2>1, <2>2 DEF Inv, LifeInv
      <4>2. 1 \in erred /\ 2 \in erred /\ erred \subseteq {1, 2}
        <5>1. Workers = {1, 2}
          OBVIOUS
        <5> QED
          BY <1>2, <4>1, <5>1 DEF Inv, ErrorInv
      <4>3. \A v : v \in erred <=> v \in {1, 2}
        BY <4>2
      <4>4. erred = {1, 2}
        BY <4>3
      <4>5. Workers = {1, 2}
        OBVIOUS
      <4> QED
        BY <4>1, <4>4, <4>5
    <3>4. LifeInv'
      <4>1. /\ restarts' = 1 /\ port' = 0 /\ started'
            /\ State(2)' = "terminated" /\ State(1)' = State(1)
        <5>1. restarts' = 1 /\ port' = 0 /\ started'
          BY <2>1, <3>1, <3>3
        <5>2. State(2)' = "terminated"
          BY <3>2, <3>3 DEF State
        <5>3. State(1)' = State(1)
          BY <3>2, <3>3 DEF State
        <5> QED
          BY <5>1, <5>2, <5>3
      <4>2. /\ State(1) \notin {"loading", "up", "failed"}
            /\ State(1) \in {"none", "loading", "up", "failed", "terminated"}
        <5>1. port # 1 /\ 1 \in Workers
          BY <2>1, <3>3
        <5> QED
          BY <5>1 DEF Inv, LifeInv
      <4> QED
        BY <4>1, <4>2 DEF LifeInv
    <3>5. PostInv'
      BY <1>1, <3>2 DEF Inv, PostInv
    <3>6. ErrorInv'
      BY <1>1, <1>3, <3>1 DEF Inv, ErrorInv
    <3>7. NoticeInv'
      BY <1>1, <2>1, <3>1, <3>3 DEF Inv, NoticeInv
    <3> QED
      BY <3>2, <3>4, <3>5, <3>6, <3>7 DEF Inv
  <2>3. CASE ~(restarts >= 1)
    <3>1. restarts = 0 /\ w = 1 /\ State(2) = "none"
      BY <2>1, <2>3 DEF Inv, LifeInv
    <3>2. /\ restarts' = 1 /\ restarting' = TRUE /\ port' = 2 /\ ready' = FALSE
          /\ thread' = [thread EXCEPT ![1] = Gone, ![2].state = "loading"]
          /\ UNCHANGED <<off, notice, started>>
      BY <2>1, <2>d, <2>3, <3>1 DEF Died, Spawn
    <3>3. /\ ThreadsAreRecords' /\ State(1)' = "terminated" /\ State(2)' = "loading"
      BY <3>2 DEF Inv, ThreadsAreRecords, State, Gone
    <3>4. LifeInv'
      BY <2>1, <3>2, <3>3 DEF Inv, LifeInv
    <3>5. PostInv'
      BY <1>1, <3>1, <3>3 DEF Inv, PostInv
    <3>6. ErrorInv'
      BY <1>1, <1>2, <1>3, <3>1 DEF Inv, ErrorInv
    <3>7. NoticeInv'
      BY <1>1, <2>1, <3>1, <3>2 DEF Inv, NoticeInv
    <3> QED
      BY <3>3, <3>4, <3>5, <3>6, <3>7 DEF Inv
  <2> QED
    BY <2>2, <2>3
<1> QED
  BY <1>4, <1>5

\* Every step keeps the invariant.
LEMMA InvStep == Inv /\ [Next]_vars => Inv'
<1> SUFFICES ASSUME Inv, [Next]_vars PROVE Inv'
  OBVIOUS
<1>1. CASE UNCHANGED vars
  BY <1>1, QuietSteps DEF vars, client, threads, page
<1>2. CASE Start
  BY <1>2, StartStep
<1>3. ASSUME NEW u \in Uris,
             OpenDocument(u) \/ ChangeDocument(u) \/ CloseDocument(u) \/ Request(u)
      PROVE  Inv'
  BY <1>3, EditorStep
<1>4. ASSUME NEW w \in Workers, Deliver(w) \/ DeliverError(w) \/ ThreadStep(w)
      PROVE  Inv'
  BY <1>4, DeliverStep, DeliverErrorStep, ThreadInv
<1> QED
  BY <1>1, <1>2, <1>3, <1>4 DEF Next

-----------------------------------------------------------------------------
\* What the user was last told of the language features holds, whichever
\* worker's events arrive late (lsp-client.ts:150, 203, 241).
THEOREM NoticesStayTrue == Spec => []NoticesAreTrue
<1>1. Inv => NoticesAreTrue
  BY DEF Inv, NoticeInv, LifeInv, NoticesAreTrue, State
<1> QED
  BY <1>1, InitInv, InvStep, PTL DEF Spec

\* One worker at most is alive, and it is the one the client would hear: the
\* one it started last, of at most two (lsp-client.ts:156, 259).
OneWorkerLives ==
  \A w \in Workers : thread[w].state \in {"loading", "up", "failed"} <=> port = w

\* No thread goes on after its worker was replaced or given up, and none is
\* replaced twice.
THEOREM OneWorkerAtATime == Spec => []OneWorkerLives
<1>1. Inv => OneWorkerLives
  BY DEF Inv, LifeInv, OneWorkerLives, State
<1> QED
  BY <1>1, InitInv, InvStep, PTL DEF Spec

-----------------------------------------------------------------------------
\* A run of a server through messages: the servers after each of them.
Runs(server, messages, n, after) ==
  after = [k \in 0..n |-> IF k = 0 THEN server ELSE ServerAfter(after[k - 1], messages[k])]

\* Each server comes from the one before it; the same messages are handled.
Follows(after, messages, n) ==
  \A k \in 1..n : after[k] = ServerAfter(after[k - 1], messages[k])
Alike(xs, ys, n) == \A k \in 1..n : xs[k] = ys[k]

\* What a run is, place by place.
LEMMA RunIs ==
  ASSUME NEW server, NEW messages, NEW n \in Nat, NEW after, Runs(server, messages, n, after)
  PROVE  after[0] = server /\ Follows(after, messages, n)
<1>1. \A k \in 0..n : after[k] = IF k = 0 THEN server ELSE ServerAfter(after[k - 1], messages[k])
  BY DEF Runs
<1>2. after[0] = server
  BY <1>1
<1>3. ASSUME NEW k \in 1..n PROVE after[k] = ServerAfter(after[k - 1], messages[k])
  <2>1. k \in 0..n /\ k # 0
    OBVIOUS
  <2> QED BY <1>1, <2>1
<1> QED BY <1>2, <1>3 DEF Follows

\* There is one, of any length.
LEMMA RunExists ==
  ASSUME NEW server, NEW messages, NEW n \in Nat
  PROVE  \E after : Runs(server, messages, n, after)
<1> DEFINE S == {k \in Nat : \E after : Runs(server, messages, k, after)}
<1>1. 0 \in S
  <2>1. Runs(server, messages, 0, [k \in 0..0 |-> server])
    BY DEF Runs
  <2> QED BY <2>1
<1>2. ASSUME NEW k \in Nat, k \in S PROVE k + 1 \in S
  <2>1. PICK f : Runs(server, messages, k, f)
    BY <1>2
  <2> DEFINE g == [j \in 0..(k + 1) |->
                     IF j = k + 1 THEN ServerAfter(f[k], messages[k + 1]) ELSE f[j]]
  <2>2. ASSUME NEW j \in 0..(k + 1)
        PROVE  g[j] = IF j = 0 THEN server ELSE ServerAfter(g[j - 1], messages[j])
    <3>1. CASE j = k + 1
      <4>1. j # 0 /\ j - 1 = k /\ k \in 0..(k + 1) /\ k # k + 1
        BY <3>1
      <4>2. g[j - 1] = f[k]
        BY <4>1
      <4>3. g[j] = ServerAfter(f[k], messages[k + 1])
        BY <3>1
      <4> QED BY <3>1, <4>1, <4>2, <4>3
    <3>2. CASE j = 0
      <4>1. g[j] = f[0]
        BY <3>2
      <4> QED BY <2>1, <3>2, <4>1, RunIs
    <3>3. CASE j # 0 /\ j # k + 1
      <4>1. j \in 1..k /\ j - 1 \in 0..(k + 1) /\ j - 1 # k + 1
        BY <3>3
      <4>2. g[j] = f[j] /\ g[j - 1] = f[j - 1]
        BY <3>3, <4>1
      <4>3. f[j] = ServerAfter(f[j - 1], messages[j])
        BY <2>1, <4>1, RunIs DEF Follows
      <4> QED BY <3>3, <4>2, <4>3
    <3> QED BY <3>1, <3>2, <3>3
  <2> HIDE DEF g
  <2>3. g = [j \in 0..(k + 1) |-> g[j]]
    BY DEF g
  <2>4. Runs(server, messages, k + 1, g)
    BY <2>2, <2>3 DEF Runs
  <2> QED BY <2>4
<1> HIDE DEF S
<1>3. n \in S
  BY <1>1, <1>2, AllNaturals
<1> QED BY <1>3 DEF S

\* Runs over the same messages from the same server have the same servers.
LEMMA SameRun ==
  ASSUME NEW n \in Nat, NEW f, NEW g, NEW a, NEW b, f[0] = g[0],
         Follows(f, a, n), Follows(g, b, n), Alike(a, b, n)
  PROVE  \A k \in 0..n : f[k] = g[k]
<1> DEFINE S == {k \in Nat : k <= n => f[k] = g[k]}
<1>1. 0 \in S
  OBVIOUS
<1>2. ASSUME NEW k \in Nat, k \in S PROVE k + 1 \in S
  <2> SUFFICES ASSUME k + 1 <= n PROVE f[k + 1] = g[k + 1]
    OBVIOUS
  <2>1. k + 1 \in 1..n /\ (k + 1) - 1 = k /\ k <= n
    OBVIOUS
  <2>2. f[k] = g[k]
    BY <1>2, <2>1
  <2>3. /\ f[k + 1] = ServerAfter(f[k], a[k + 1])
        /\ g[k + 1] = ServerAfter(g[k], b[k + 1])
        /\ a[k + 1] = b[k + 1]
    BY <2>1 DEF Follows, Alike
  <2> QED BY <2>2, <2>3
<1> HIDE DEF S
<1>3. \A k \in Nat : k \in S
  BY <1>1, <1>2, AllNaturals
<1> QED BY <1>3 DEF S

\* Handled is the last server of the run.
LEMMA HandledIsLast ==
  ASSUME NEW server, NEW M, NEW messages \in Seq(M)
  PROVE  \E after : /\ Runs(server, messages, Len(messages), after)
                    /\ Handled(server, messages) = after[Len(messages)]
<1> DEFINE after == CHOOSE f : Runs(server, messages, Len(messages), f)
<1>1. Runs(server, messages, Len(messages), after)
  <2>1. Len(messages) \in Nat
    OBVIOUS
  <2>2. \E f : Runs(server, messages, Len(messages), f)
    BY <2>1, RunExists
  <2> QED BY <2>2
<1>2. Handled(server, messages) = after[Len(messages)]
  BY DEF Handled, Runs
<1> QED BY <1>1, <1>2

-----------------------------------------------------------------------------
\* Nothing to handle leaves the server as it is.
LEMMA HandledNone == ASSUME NEW server PROVE Handled(server, <<>>) = server
<1>1. PICK f : Runs(server, <<>>, Len(<<>>), f) /\ Handled(server, <<>>) = f[Len(<<>>)]
  <2>1. <<>> \in Seq({})
    OBVIOUS
  <2> QED BY <2>1, HandledIsLast
<1>2. PICK n \in Nat : n = 0 /\ Len(<<>>) = n
  OBVIOUS
<1>3. f[0] = server
  BY <1>1, <1>2, RunIs
<1> QED BY <1>1, <1>2, <1>3

\* One message is handled.
LEMMA HandledOne ==
  ASSUME NEW server, NEW m PROVE Handled(server, <<m>>) = ServerAfter(server, m)
<1>1. PICK f : Runs(server, <<m>>, Len(<<m>>), f) /\ Handled(server, <<m>>) = f[Len(<<m>>)]
  <2>1. <<m>> \in Seq({m})
    OBVIOUS
  <2> QED BY <2>1, HandledIsLast
<1>2. PICK n \in Nat : n = 1 /\ Len(<<m>>) = n
  OBVIOUS
<1>3. f[0] = server /\ Follows(f, <<m>>, n)
  BY <1>1, <1>2, RunIs
<1>4. 1 \in 1..n /\ 1 - 1 = 0 /\ <<m>>[1] = m
  BY <1>2
<1>5. f[1] = ServerAfter(f[0], m)
  BY <1>3, <1>4 DEF Follows
<1> QED BY <1>1, <1>2, <1>3, <1>5

\* Messages after messages are handled one part after the other.
LEMMA HandledBoth ==
  ASSUME NEW server, NEW M, NEW xs \in Seq(M), NEW ys \in Seq(M)
  PROVE  Handled(server, xs \o ys) = Handled(Handled(server, xs), ys)
<1> DEFINE m == Len(xs)
           n == Len(ys)
           zs == xs \o ys
<1>0. m \in Nat /\ n \in Nat
  OBVIOUS
<1>1. /\ zs \in Seq(M) /\ Len(zs) = m + n
      /\ \A k \in 1..m : zs[k] = xs[k]
      /\ \A k \in 1..n : zs[m + k] = ys[k]
  OBVIOUS
<1> HIDE DEF m, n, zs
<1>2. PICK f : Runs(server, xs, m, f) /\ Handled(server, xs) = f[m]
  BY HandledIsLast DEF m
<1>3. PICK g : Runs(f[m], ys, n, g) /\ Handled(f[m], ys) = g[n]
  BY HandledIsLast DEF n
<1>4. PICK h : Runs(server, zs, Len(zs), h) /\ Handled(server, zs) = h[Len(zs)]
  BY <1>1, HandledIsLast
<1>5. PICK p \in Nat : p = m + n /\ Len(zs) = p
  BY <1>0, <1>1
<1>6. /\ h[0] = server /\ Follows(h, zs, p)
      /\ f[0] = server /\ Follows(f, xs, m)
      /\ g[0] = f[m] /\ Follows(g, ys, n)
  <2>1. h[0] = server /\ Follows(h, zs, p)
    BY <1>4, <1>5, RunIs
  <2>2. f[0] = server /\ Follows(f, xs, m)
    BY <1>0, <1>2, RunIs
  <2>3. g[0] = f[m] /\ Follows(g, ys, n)
    BY <1>0, <1>3, RunIs
  <2> QED BY <2>1, <2>2, <2>3
<1>7. h[m] = f[m]
  <2>1. Follows(h, zs, m) /\ Alike(zs, xs, m)
    BY <1>0, <1>1, <1>5, <1>6 DEF Follows, Alike
  <2>2. \A k \in 0..m : h[k] = f[k]
    BY <1>0, <1>6, <2>1, SameRun
  <2> QED BY <1>0, <2>2
<1>8. h[m + n] = g[n]
  <2> DEFINE i == [k \in 0..n |-> h[m + k]]
             b == [k \in 1..n |-> zs[m + k]]
  <2>1. ASSUME NEW k \in 1..n PROVE i[k] = ServerAfter(i[k - 1], b[k])
    <3>1. m + k \in 1..p /\ (m + k) - 1 = m + (k - 1) /\ k \in 0..n /\ k - 1 \in 0..n
      BY <1>0, <1>5
    <3>2. i[k] = h[m + k] /\ i[k - 1] = h[m + (k - 1)] /\ b[k] = zs[m + k]
      BY <3>1
    <3>3. h[m + k] = ServerAfter(h[(m + k) - 1], zs[m + k])
      BY <1>6, <3>1 DEF Follows
    <3> QED BY <3>1, <3>2, <3>3
  <2>2. i[0] = h[m + 0] /\ m + 0 = m /\ i[n] = h[m + n]
    BY <1>0
  <2>3. \A k \in 1..n : b[k] = ys[k]
    BY <1>1
  <2>4. i[0] = g[0]
    BY <1>6, <1>7, <2>2
  <2> HIDE DEF i, b
  <2>5. Follows(i, b, n) /\ Alike(b, ys, n)
    BY <2>1, <2>3 DEF Follows, Alike
  <2>6. \A k \in 0..n : i[k] = g[k]
    BY <1>0, <1>6, <2>4, <2>5, SameRun
  <2> QED BY <1>0, <2>2, <2>6
<1> QED BY <1>2, <1>3, <1>4, <1>5, <1>8 DEF zs

-----------------------------------------------------------------------------
\* What is open, as the server in use has to hold it.
Docs(d) == [u \in DOMAIN d |-> NewDocument(d[u].version, d[u].text)]

\* The answer a question that was asked is due.
Due(a, id) == [text |-> a[id], nav |-> a[id], tree |-> TRUE]

\* A message bears an id that was given out, a question one whose answer is due;
\* and so does each message of a sequence, when its turn comes.
Right(server, m, a, n) ==
  /\ m.id \in Nat /\ m.id < n
  /\ m.id \in DOMAIN a => Answer(server, m) = Due(a, m.id)
AllRight(server, messages, a, n) ==
  \A k \in 1..Len(messages) : Right(Handled(server, SubSeq(messages, 1, k - 1)), messages[k], a, n)

\* What a server has yet to handle, in three parts, brings it to the documents d.
Brings(server, waits, posted, held, d, a, n) ==
  LET s1 == Handled(server, waits)
      s2 == Handled(s1, posted)
      s3 == Handled(s2, held)
  IN  /\ s3.documents = Docs(d) /\ s3.hierarchical = TRUE
      /\ AllRight(server, waits, a, n) /\ AllRight(s1, posted, a, n) /\ AllRight(s2, held, a, n)


-----------------------------------------------------------------------------
\* Sequences of messages of any shape, one part after the other.
LEMMA HandledParts ==
  ASSUME NEW server, NEW xs, IsSeq(xs), NEW ys, IsSeq(ys)
  PROVE  Handled(server, xs \o ys) = Handled(Handled(server, xs), ys)
<1> DEFINE M == Range(xs) \cup Range(ys)
<1>1. xs \in Seq(Range(xs)) /\ ys \in Seq(Range(ys))
  BY DEF IsSeq
<1>2. Range(xs) \subseteq M /\ Range(ys) \subseteq M
  OBVIOUS
<1> HIDE DEF M
<1>3. xs \in Seq(M) /\ ys \in Seq(M)
  BY <1>1, <1>2, SeqMonotonic
<1> QED BY <1>3, HandledBoth

\* The messages of two parts are right when those of each part are.
LEMMA RightParts ==
  ASSUME NEW server, NEW xs, IsSeq(xs), NEW ys, IsSeq(ys), NEW a, NEW n
  PROVE  AllRight(server, xs \o ys, a, n)
           <=> AllRight(server, xs, a, n) /\ AllRight(Handled(server, xs), ys, a, n)
<1> DEFINE zs == xs \o ys
           p == Len(xs)
           q == Len(ys)
<1>1. /\ p \in Nat /\ q \in Nat /\ Len(zs) = p + q
      /\ \A k \in 1..p : zs[k] = xs[k]
      /\ \A k \in 1..q : zs[p + k] = ys[k]
  <2>1. Len(xs) \in Nat /\ Len(ys) \in Nat /\ Len(xs \o ys) = Len(xs) + Len(ys)
    BY Joined
  <2>2. \A k \in 1..Len(xs) : (xs \o ys)[k] = xs[k]
    BY Joined
  <2>3. \A k \in 1..Len(ys) : (xs \o ys)[Len(xs) + k] = ys[k]
    BY Joined
  <2> QED BY <2>1, <2>2, <2>3
<1>2. \A k \in 0..p : SubSeq(zs, 1, k) = SubSeq(xs, 1, k)
  BY FirstOfJoined
<1>3. \A k \in 0..q : SubSeq(zs, 1, p + k) = xs \o SubSeq(ys, 1, k)
  BY FirstOfJoined
<1> DEFINE R(k) == Right(Handled(server, SubSeq(zs, 1, k - 1)), zs[k], a, n)
<1>4. ASSUME NEW k \in 1..p
      PROVE  R(k) <=> Right(Handled(server, SubSeq(xs, 1, k - 1)), xs[k], a, n)
  <2>1. k - 1 \in 0..p
    OBVIOUS
  <2>2. SubSeq(zs, 1, k - 1) = SubSeq(xs, 1, k - 1)
    BY <1>2, <2>1
  <2> QED BY <1>1, <2>2
<1>5. ASSUME NEW k \in 1..q
      PROVE  R(p + k) <=> Right(Handled(Handled(server, xs), SubSeq(ys, 1, k - 1)), ys[k], a, n)
  <2>1. k - 1 \in 0..q /\ (p + k) - 1 = p + (k - 1)
    BY <1>1
  <2>2. SubSeq(zs, 1, (p + k) - 1) = xs \o SubSeq(ys, 1, k - 1)
    BY <1>3, <2>1
  <2>3. IsSeq(SubSeq(ys, 1, k - 1))
    BY <2>1, FirstOf
  <2>4. Handled(server, SubSeq(zs, 1, (p + k) - 1))
          = Handled(Handled(server, xs), SubSeq(ys, 1, k - 1))
    <3> DEFINE b == SubSeq(ys, 1, k - 1)
    <3>1. IsSeq(b)
      BY <2>3
    <3>2. SubSeq(zs, 1, (p + k) - 1) = xs \o b
      BY <2>2
    <3> HIDE DEF b
    <3>3. Handled(server, xs \o b) = Handled(Handled(server, xs), b)
      BY <3>1, HandledParts
    <3> QED BY <3>2, <3>3 DEF b
  <2> QED BY <1>1, <2>4
<1>6. AllRight(server, zs, a, n) <=> \A k \in 1..(p + q) : R(k)
  BY <1>1 DEF AllRight
<1>7. AllRight(server, xs, a, n) <=> \A k \in 1..p : R(k)
  BY <1>4 DEF AllRight
<1>8. AllRight(Handled(server, xs), ys, a, n) <=> \A k \in 1..q : R(p + k)
  BY <1>5 DEF AllRight
<1>9. (\A k \in 1..(p + q) : R(k)) <=> (\A k \in 1..p : R(k)) /\ (\A k \in 1..q : R(p + k))
  <2> HIDE DEF R, p, q
  <2>1. ASSUME \A k \in 1..p : R(k), \A k \in 1..q : R(p + k), NEW k \in 1..(p + q)
        PROVE  R(k)
    <3>1. CASE k \in 1..p
      BY <2>1, <3>1
    <3>2. CASE k \notin 1..p
      <4>1. k - p \in 1..q /\ k = p + (k - p)
        BY <1>1, <3>2
      <4>2. PICK j \in 1..q : k = p + j
        BY <4>1
      <4> QED BY <2>1, <4>2
    <3> QED BY <3>1, <3>2
  <2>2. ASSUME \A k \in 1..(p + q) : R(k), NEW k \in 1..p PROVE R(k)
    BY <1>1, <2>2
  <2>3. ASSUME \A k \in 1..(p + q) : R(k), NEW k \in 1..q PROVE R(p + k)
    <3>1. p + k \in 1..(p + q)
      BY <1>1
    <3>2. PICK j \in 1..(p + q) : j = p + k
      BY <3>1
    <3> QED BY <2>3, <3>2
  <2> QED BY <2>1, <2>2, <2>3
<1> QED BY <1>6, <1>7, <1>8, <1>9

\* Nothing to handle, and one message.
LEMMA RightOne ==
  ASSUME NEW server, NEW m, NEW a, NEW n
  PROVE  /\ AllRight(server, <<>>, a, n)
         /\ AllRight(server, <<m>>, a, n) <=> Right(server, m, a, n)
         /\ IsSeq(<<>>) /\ IsSeq(<<m>>)
<1>1. AllRight(server, <<>>, a, n)
  <2>1. 1..Len(<<>>) = {}
    OBVIOUS
  <2> QED BY <2>1 DEF AllRight
<1>2. AllRight(server, <<m>>, a, n) <=> Right(server, m, a, n)
  <2>1. 1..Len(<<m>>) = {1} /\ <<m>>[1] = m /\ 1 - 1 = 0
    OBVIOUS
  <2>2. SubSeq(<<m>>, 1, 0) = <<>>
    BY SubSeqEmpty
  <2>3. Handled(server, SubSeq(<<m>>, 1, 1 - 1)) = server
    BY <2>1, <2>2, HandledNone
  <2> QED BY <2>1, <2>3 DEF AllRight
<1>3. <<>> \in Seq({m}) /\ <<m>> \in Seq({m})
  OBVIOUS
<1>4. IsSeq(<<>>) /\ IsSeq(<<m>>)
  BY <1>3, SeqIsSeq
<1> QED BY <1>1, <1>2, <1>4

\* Posting a message, and handling the first of several.
LEMMA PostedOne ==
  ASSUME NEW server, NEW ms, IsSeq(ms), NEW m, NEW a, NEW n
  PROVE  /\ IsSeq(ms \o <<m>>)
         /\ Handled(server, ms \o <<m>>) = ServerAfter(Handled(server, ms), m)
         /\ AllRight(server, ms \o <<m>>, a, n)
              <=> AllRight(server, ms, a, n) /\ Right(Handled(server, ms), m, a, n)
<1>1. IsSeq(<<m>>)
  BY RightOne
<1>2. IsSeq(ms \o <<m>>)
  BY <1>1, Joined
<1>3. Handled(server, ms \o <<m>>) = Handled(Handled(server, ms), <<m>>)
  BY <1>1, HandledParts
<1>4. Handled(Handled(server, ms), <<m>>) = ServerAfter(Handled(server, ms), m)
  BY HandledOne
<1>5. AllRight(server, ms \o <<m>>, a, n)
        <=> AllRight(server, ms, a, n) /\ AllRight(Handled(server, ms), <<m>>, a, n)
  BY <1>1, RightParts
<1>6. AllRight(Handled(server, ms), <<m>>, a, n) <=> Right(Handled(server, ms), m, a, n)
  BY RightOne
<1> QED BY <1>2, <1>3, <1>4, <1>5, <1>6

\* The first of several messages is handled, the others after it.
LEMMA HandledFirst ==
  ASSUME NEW server, NEW ms, IsSeq(ms), ms # <<>>, NEW a, NEW n
  PROVE  /\ IsSeq(Tail(ms))
         /\ Handled(server, ms) = Handled(ServerAfter(server, Head(ms)), Tail(ms))
         /\ AllRight(server, ms, a, n)
              <=> /\ Right(server, Head(ms), a, n)
                  /\ AllRight(ServerAfter(server, Head(ms)), Tail(ms), a, n)
<1> DEFINE h == <<Head(ms)>>
           t == Tail(ms)
<1>1. IsSeq(h) /\ IsSeq(t)
  BY RightOne, Taken
<1>2. ms = h \o t
  BY Parts
<1>3. Handled(server, h) = ServerAfter(server, Head(ms))
  BY HandledOne
<1>4. AllRight(server, h, a, n) <=> Right(server, Head(ms), a, n)
  BY RightOne
<1> HIDE DEF h, t
<1>5. Handled(server, h \o t) = Handled(Handled(server, h), t)
  BY <1>1, HandledParts
<1>6. AllRight(server, h \o t, a, n)
        <=> AllRight(server, h, a, n) /\ AllRight(Handled(server, h), t, a, n)
  BY <1>1, RightParts
<1> QED BY <1>1, <1>2, <1>3, <1>4, <1>5, <1>6 DEF t

\* What was right stays so when later questions are asked.
LEMMA RightLater ==
  ASSUME NEW n \in Nat, NEW n2 \in Nat, n <= n2, NEW a, NEW a2,
         \A id \in Nat : id < n => /\ id \in DOMAIN a2 <=> id \in DOMAIN a
                                   /\ id \in DOMAIN a => a2[id] = a[id]
  PROVE  /\ \A server, m : Right(server, m, a, n) => Right(server, m, a2, n2)
         /\ \A server, ms : AllRight(server, ms, a, n) => AllRight(server, ms, a2, n2)
<1>1. ASSUME NEW server, NEW m, Right(server, m, a, n) PROVE Right(server, m, a2, n2)
  <2>1. m.id \in Nat /\ m.id < n /\ (m.id \in DOMAIN a => Answer(server, m) = Due(a, m.id))
    BY <1>1 DEF Right
  <2>2. m.id < n2
    BY <2>1
  <2>3. m.id \in DOMAIN a2 => m.id \in DOMAIN a /\ Due(a2, m.id) = Due(a, m.id)
    BY <2>1 DEF Due
  <2> QED BY <2>1, <2>2, <2>3 DEF Right
<1>2. \A server, m : Right(server, m, a, n) => Right(server, m, a2, n2)
  BY <1>1
<1>3. ASSUME NEW server, NEW ms, AllRight(server, ms, a, n) PROVE AllRight(server, ms, a2, n2)
  BY <1>2, <1>3 DEF AllRight
<1> QED BY <1>2, <1>3

-----------------------------------------------------------------------------
\* What is on its way to a server, as the steps of page and worker move it.

\* A message is posted, to the worker or to the queue before it is ready.
LEMMA BringsPosted ==
  ASSUME NEW server, NEW waits, IsSeq(waits), NEW posted, IsSeq(posted), NEW held, IsSeq(held),
         NEW d, NEW a, NEW n \in Nat, Brings(server, waits, posted, held, d, a, n),
         NEW d2, NEW a2, NEW n2 \in Nat, n <= n2,
         \A id \in Nat : id < n => /\ id \in DOMAIN a2 <=> id \in DOMAIN a
                                   /\ id \in DOMAIN a => a2[id] = a[id],
         NEW m, DocumentsAfter(Docs(d), m) = Docs(d2),
         \A s : s.documents = Docs(d) /\ s.hierarchical = TRUE => Right(s, m, a2, n2)
  PROVE  /\ Brings(server, waits, posted, held \o <<m>>, d2, a2, n2)
         /\ held = <<>> => Brings(server, waits, posted \o <<m>>, <<>>, d2, a2, n2)
<1> DEFINE s1 == Handled(server, waits)
           s2 == Handled(s1, posted)
           s3 == Handled(s2, held)
           s4 == ServerAfter(s3, m)
<1>1. /\ s3.documents = Docs(d) /\ s3.hierarchical = TRUE
      /\ AllRight(server, waits, a, n) /\ AllRight(s1, posted, a, n) /\ AllRight(s2, held, a, n)
  BY DEF Brings
<1>2. /\ AllRight(server, waits, a2, n2) /\ AllRight(s1, posted, a2, n2)
      /\ AllRight(s2, held, a2, n2)
  <2> HIDE DEF s1, s2
  <2>1. \A s, ms : AllRight(s, ms, a, n) => AllRight(s, ms, a2, n2)
    BY RightLater
  <2> QED BY <1>1, <2>1
<1>3. Right(s3, m, a2, n2)
  BY <1>1
<1>4. s4.documents = Docs(d2) /\ s4.hierarchical = TRUE
  BY <1>1 DEF ServerAfter
<1> HIDE DEF s1, s2, s3, s4
<1>5. Brings(server, waits, posted, held \o <<m>>, d2, a2, n2)
  <2>1. Handled(s2, held \o <<m>>) = s4 /\ AllRight(s2, held \o <<m>>, a2, n2)
    BY <1>2, <1>3, PostedOne DEF s3, s4
  <2> QED BY <1>2, <1>4, <2>1 DEF Brings, s1, s2
<1>6. ASSUME held = <<>>
      PROVE  Brings(server, waits, posted \o <<m>>, <<>>, d2, a2, n2)
  <2>1. s3 = s2
    BY <1>6, HandledNone DEF s3
  <2>2. Handled(s1, posted \o <<m>>) = s4 /\ AllRight(s1, posted \o <<m>>, a2, n2)
    <3>1. Handled(s1, posted \o <<m>>) = ServerAfter(s2, m)
      BY PostedOne DEF s2
    <3>2. AllRight(s1, posted \o <<m>>, a2, n2)
      BY <1>2, <1>3, <2>1, PostedOne DEF s2
    <3> QED BY <2>1, <3>1, <3>2 DEF s4
  <2>3. Handled(s4, <<>>) = s4 /\ AllRight(s4, <<>>, a2, n2)
    BY HandledNone, RightOne
  <2> QED BY <1>2, <1>4, <2>2, <2>3 DEF Brings, s1
<1> QED BY <1>5, <1>6

\* The worker is ready, and is sent what was held back.
LEMMA BringsReady ==
  ASSUME NEW server, NEW waits, NEW posted, IsSeq(posted), NEW held, IsSeq(held),
         NEW d, NEW a, NEW n, Brings(server, waits, posted, held, d, a, n)
  PROVE  Brings(server, waits, posted \o held, <<>>, d, a, n)
<1> DEFINE s1 == Handled(server, waits)
           s2 == Handled(s1, posted)
           s3 == Handled(s2, held)
<1>1. /\ s3.documents = Docs(d) /\ s3.hierarchical = TRUE
      /\ AllRight(server, waits, a, n) /\ AllRight(s1, posted, a, n) /\ AllRight(s2, held, a, n)
  BY DEF Brings
<1> HIDE DEF s1
<1>2. Handled(s1, posted \o held) = s3
  BY HandledParts
<1>3. AllRight(s1, posted \o held, a, n)
  BY <1>1, RightParts
<1> HIDE DEF s2, s3
<1>4. Handled(s3, <<>>) = s3 /\ AllRight(s3, <<>>, a, n)
  BY HandledNone, RightOne
<1> QED BY <1>1, <1>2, <1>3, <1>4 DEF Brings, s1

\* The server exists, and has handled what waited for it.
LEMMA BringsLoaded ==
  ASSUME NEW server, NEW waits, NEW posted, NEW held, NEW d, NEW a, NEW n,
         Brings(server, waits, posted, held, d, a, n)
  PROVE  Brings(Handled(server, waits), <<>>, posted, held, d, a, n)
<1> DEFINE s1 == Handled(server, waits)
<1>1. Handled(s1, <<>>) = s1 /\ AllRight(s1, <<>>, a, n)
  BY HandledNone, RightOne
<1> QED BY <1>1 DEF Brings

\* The server takes a message.
LEMMA BringsTaken ==
  ASSUME NEW server, NEW posted, IsSeq(posted), posted # <<>>, NEW held,
         NEW d, NEW a, NEW n, Brings(server, <<>>, posted, held, d, a, n)
  PROVE  /\ Right(server, Head(posted), a, n)
         /\ Brings(ServerAfter(server, Head(posted)), <<>>, Tail(posted), held, d, a, n)
<1> DEFINE h == ServerAfter(server, Head(posted))
           s2 == Handled(server, posted)
<1>1. /\ Handled(s2, held).documents = Docs(d) /\ Handled(s2, held).hierarchical = TRUE
      /\ AllRight(server, posted, a, n) /\ AllRight(s2, held, a, n)
  BY HandledNone DEF Brings
<1>2. /\ s2 = Handled(h, Tail(posted))
      /\ Right(server, Head(posted), a, n) /\ AllRight(h, Tail(posted), a, n)
  BY <1>1, HandledFirst
<1> HIDE DEF h, s2
<1>3. Handled(h, <<>>) = h /\ AllRight(h, <<>>, a, n)
  BY HandledNone, RightOne
<1>4. Brings(h, <<>>, Tail(posted), held, d, a, n)
  BY <1>1, <1>2, <1>3 DEF Brings
<1> QED BY <1>2, <1>4 DEF h

\* There is no server yet, and the message waits for it.
LEMMA BringsKept ==
  ASSUME NEW server, NEW waits, IsSeq(waits), NEW posted, IsSeq(posted), posted # <<>>, NEW held,
         NEW d, NEW a, NEW n, Brings(server, waits, posted, held, d, a, n)
  PROVE  Brings(server, Append(waits, Head(posted)), Tail(posted), held, d, a, n)
<1> DEFINE s1 == Handled(server, waits)
           s2 == Handled(s1, posted)
           h == ServerAfter(s1, Head(posted))
           more == waits \o <<Head(posted)>>
<1>1. /\ Handled(s2, held).documents = Docs(d) /\ Handled(s2, held).hierarchical = TRUE
      /\ AllRight(server, waits, a, n) /\ AllRight(s1, posted, a, n) /\ AllRight(s2, held, a, n)
  BY DEF Brings
<1>2. Append(waits, Head(posted)) = more
  BY Parts
<1>3. /\ s2 = Handled(h, Tail(posted))
      /\ Right(s1, Head(posted), a, n) /\ AllRight(h, Tail(posted), a, n)
  <2> HIDE DEF s1
  <2> QED BY <1>1, HandledFirst
<1>4. Handled(server, more) = h /\ AllRight(server, more, a, n)
  BY <1>1, <1>3, PostedOne
<1> HIDE DEF s1, s2, h, more
<1>5. Brings(server, more, Tail(posted), held, d, a, n)
  BY <1>1, <1>3, <1>4 DEF Brings
<1> QED BY <1>2, <1>5

\* A server that was initialised stays so.
LEMMA StaysHierarchical ==
  ASSUME NEW server, server.hierarchical = TRUE, NEW ms, IsSeq(ms)
  PROVE  Handled(server, ms).hierarchical = TRUE
<1>1. ms \in Seq(Range(ms))
  BY DEF IsSeq
<1>2. PICK n \in Nat : n = Len(ms)
  BY <1>1
<1>3. PICK f : Runs(server, ms, n, f) /\ Handled(server, ms) = f[n]
  BY <1>1, <1>2, HandledIsLast
<1>4. f[0] = server /\ Follows(f, ms, n)
  BY <1>3, RunIs
<1> DEFINE S == {k \in Nat : k <= n => f[k].hierarchical = server.hierarchical}
<1>5. 0 \in S
  BY <1>4
<1>6. ASSUME NEW k \in Nat, k \in S PROVE k + 1 \in S
  <2> SUFFICES ASSUME k + 1 <= n PROVE f[k + 1].hierarchical = server.hierarchical
    OBVIOUS
  <2>1. PICK j \in 1..n : j = k + 1 /\ j - 1 = k
    OBVIOUS
  <2>2. f[j] = ServerAfter(f[k], ms[j])
    BY <1>4, <2>1 DEF Follows
  <2>3. f[k].hierarchical = TRUE
    BY <1>6
  <2>4. ServerAfter(f[k], ms[j]).hierarchical = TRUE
    BY <2>3 DEF ServerAfter
  <2>5. f[j].hierarchical = server.hierarchical
    BY <2>2, <2>4
  <2> QED BY <2>1, <2>5
<1>7. n \in S
  <2> HIDE DEF S
  <2> QED BY <1>5, <1>6, AllNaturals
<1> QED BY <1>3, <1>7

-----------------------------------------------------------------------------
\* What the editor's three messages make of a server's documents.
LEMMA AfterOpen ==
  ASSUME NEW d, NEW u, NEW v, NEW t
  PROVE  DocumentsAfter(Docs(d), DidOpen(u, v, t)) = Docs(Put(d, u, [version |-> v, text |-> t]))
<1> DEFINE e == Put(d, u, [version |-> v, text |-> t])
           m == DidOpen(u, v, t)
<1>1. DOMAIN e = DOMAIN d \cup {u} /\ e[u] = [version |-> v, text |-> t]
      /\ \A x \in DOMAIN d : x # u => e[x] = d[x]
  BY DEF Put
<1>2. m.method = "didOpen" /\ m.uri = u /\ m.version = v /\ m.text = t
  BY DEF DidOpen, Message
<1> HIDE DEF e, m
<1>3. DocumentsAfter(Docs(d), m) = Opened(Docs(d), m)
  BY <1>2 DEF DocumentsAfter
<1>4. Opened(Docs(d), m)
        = [x \in DOMAIN d \cup {u} |->
             IF x = u THEN NewDocument(v, t) ELSE NewDocument(d[x].version, d[x].text)]
  BY <1>2 DEF Opened, Docs, Put
<1>5. \A x \in DOMAIN d \cup {u} :
        NewDocument(e[x].version, e[x].text)
          = IF x = u THEN NewDocument(v, t) ELSE NewDocument(d[x].version, d[x].text)
  BY <1>1
<1>6. Docs(e) = [x \in DOMAIN d \cup {u} |-> NewDocument(e[x].version, e[x].text)]
  BY <1>1 DEF Docs
<1>7. Docs(e) = Opened(Docs(d), m)
  BY <1>4, <1>5, <1>6
<1> QED BY <1>3, <1>7 DEF e, m

\* A change of an open document gives it its new text and version.
LEMMA AfterChange ==
  ASSUME NEW d, NEW u, u \in DOMAIN d, NEW v, NEW t,
         NEW e, DOMAIN e = DOMAIN d, e[u] = [version |-> v, text |-> t],
         \A x \in DOMAIN d : x # u => e[x] = d[x]
  PROVE  DocumentsAfter(Docs(d), Message("didChange", 0, u, v, t)) = Docs(e)
<1> DEFINE m == Message("didChange", 0, u, v, t)
<1>1. DOMAIN e = DOMAIN d /\ e[u] = [version |-> v, text |-> t]
      /\ \A x \in DOMAIN d : x # u => e[x] = d[x]
  OBVIOUS
<1>2. m.method = "didChange" /\ m.uri = u /\ m.version = v /\ m.text = t
  BY DEF Message
<1> HIDE DEF m
<1>3. DocumentsAfter(Docs(d), m) = Changed(Docs(d), m)
  BY <1>2 DEF DocumentsAfter
<1>4. u \in DOMAIN Docs(d) /\ Docs(d)[u] = NewDocument(d[u].version, d[u].text)
  BY DEF Docs
<1>5. Replaced(Docs(d)[u], v, t) = NewDocument(v, t)
  <2>1. PICK o : /\ o = Docs(d)[u]
                 /\ o = [version |-> d[u].version, text |-> d[u].text,
                         index |-> d[u].text, nav |-> d[u].text]
    BY <1>4 DEF NewDocument
  <2> DEFINE x == d[u].text
             o1 == [o EXCEPT !.version = v]
             o2 == [o1 EXCEPT !.text = t]
             o3 == [o2 EXCEPT !.index = t]
             o4 == [o3 EXCEPT !.nav = t]
  <2>a. o1 = [version |-> v, text |-> x, index |-> x, nav |-> x]
    BY <2>1
  <2> HIDE DEF o1
  <2>b. o2 = [version |-> v, text |-> t, index |-> x, nav |-> x]
    BY <2>a
  <2> HIDE DEF o2
  <2>c. o3 = [version |-> v, text |-> t, index |-> t, nav |-> x]
    BY <2>b
  <2> HIDE DEF o3
  <2>d. o4 = [version |-> v, text |-> t, index |-> t, nav |-> t]
    BY <2>c
  <2>2. [o EXCEPT !.version = v, !.text = t, !.index = t, !.nav = t]
          = [version |-> v, text |-> t, index |-> t, nav |-> t]
    BY <2>d DEF o1, o2, o3
  <2> QED BY <2>1, <2>2 DEF Replaced, NewDocument
<1>6. Changed(Docs(d), m) = [Docs(d) EXCEPT ![u] = NewDocument(v, t)]
  BY <1>2, <1>4, <1>5 DEF Changed
<1>7. \A x \in DOMAIN d :
        NewDocument(e[x].version, e[x].text)
          = IF x = u THEN NewDocument(v, t) ELSE NewDocument(d[x].version, d[x].text)
  BY <1>1
<1>8. Docs(e) = [x \in DOMAIN d |-> NewDocument(e[x].version, e[x].text)]
  BY <1>1 DEF Docs
<1>9. Docs(e) = [Docs(d) EXCEPT ![u] = NewDocument(v, t)]
  BY <1>7, <1>8 DEF Docs
<1> QED BY <1>3, <1>6, <1>9 DEF m

\* A document that is closed is no longer held.
LEMMA AfterClose ==
  ASSUME NEW d, NEW u, u \in DOMAIN d
  PROVE  DocumentsAfter(Docs(d), Message("didClose", 0, u, 0, NoText))
           = Docs(Restrict(d, DOMAIN d \ {u}))
<1> DEFINE m == Message("didClose", 0, u, 0, NoText)
<1>1. m.method = "didClose" /\ m.uri = u
  BY DEF Message
<1> HIDE DEF m
<1>2. DocumentsAfter(Docs(d), m) = Closed(Docs(d), m)
  BY <1>1 DEF DocumentsAfter
<1>3. Closed(Docs(d), m) = [x \in DOMAIN d \ {u} |-> NewDocument(d[x].version, d[x].text)]
  BY <1>1 DEF Closed, Restrict, Docs
<1>4. Docs(Restrict(d, DOMAIN d \ {u}))
        = [x \in DOMAIN d \ {u} |-> NewDocument(d[x].version, d[x].text)]
  BY DEF Restrict, Docs
<1> QED BY <1>2, <1>3, <1>4 DEF m

\* Every document open, opened once each in any order, is held.
LEMMA Replayed ==
  ASSUME NEW d, IsFiniteSet(DOMAIN d), NEW server, server.documents = <<>>,
         NEW replay,
         \E order \in [1..Cardinality(DOMAIN d) -> DOMAIN d] :
           /\ \A i, j \in 1..Cardinality(DOMAIN d) : order[i] = order[j] => i = j
           /\ replay = [i \in 1..Cardinality(DOMAIN d) |->
                          DidOpen(order[i], d[order[i]].version, d[order[i]].text)]
  PROVE  Handled(server, replay).documents = Docs(d)
<1> DEFINE open == DOMAIN d
           n == Cardinality(open)
           M == {DidOpen(u, d[u].version, d[u].text) : u \in open}
<1>0. PICK order \in [1..n -> open] :
        /\ \A i, j \in 1..n : order[i] = order[j] => i = j
        /\ replay = [i \in 1..n |-> DidOpen(order[i], d[order[i]].version, d[order[i]].text)]
  OBVIOUS
<1>1. n \in Nat
  BY FS_CardinalityType
<1>2. \A u \in open : \E i \in 1..n : order[i] = u
  <2>1. IsFiniteSet(1..n) /\ Cardinality(1..n) = n
    BY <1>1, FS_Interval
  <2>2. order \in Injection(1..n, open)
    BY <1>0 DEF Injection, IsInjective
  <2> HIDE DEF n, open
  <2>3. IsFiniteSet(open) /\ Cardinality(open) = n
    BY DEF n, open
  <2>4. order \in Surjection(1..n, open)
    BY <2>1, <2>2, <2>3, FS_Injection
  <2> QED BY <2>4 DEF Surjection
<1>3. replay \in Seq(M) /\ Len(replay) = n
  <2>1. \A i \in 1..n : replay[i] \in M
    BY <1>0
  <2>2. replay = [i \in 1..n |-> replay[i]]
    BY <1>0
  <2> HIDE DEF M
  <2> QED BY <1>1, <2>1, <2>2
<1> HIDE DEF M
<1>4. PICK f : Runs(server, replay, Len(replay), f) /\ Handled(server, replay) = f[Len(replay)]
  BY <1>3, HandledIsLast
<1> HIDE DEF n
<1>5. f[0] = server /\ Follows(f, replay, n) /\ Handled(server, replay) = f[n]
  <2>1. Runs(server, replay, n, f) /\ Handled(server, replay) = f[n]
    BY <1>3, <1>4
  <2> QED BY <1>1, <2>1, RunIs
<1> DEFINE Had(k) == {order[i] : i \in 1..k}
           Part(k) == [u \in Had(k) |-> NewDocument(d[u].version, d[u].text)]
           S == {k \in Nat : k <= n => f[k].documents = Part(k)}
<1>6. 0 \in S
  <2>1. Had(0) = {}
    OBVIOUS
  <2>2. Part(0) = <<>>
    BY <2>1
  <2>3. f[0].documents = Part(0)
    BY <1>5, <2>2
  <2> QED BY <2>3
<1>7. ASSUME NEW k \in Nat, k \in S PROVE k + 1 \in S
  <2> HIDE DEF Part
  <2> SUFFICES ASSUME k + 1 <= n PROVE f[k + 1].documents = Part(k + 1)
    OBVIOUS
  <2> USE DEF Part
  <2>1. f[k].documents = Part(k)
    BY <1>1, <1>7
  <2> DEFINE j == k + 1
  <2>2. j \in 1..n /\ j - 1 = k
    BY <1>1
  <2> DEFINE u == order[j]
             m == replay[j]
  <2>3. f[j] = ServerAfter(f[k], m)
    <3> HIDE DEF j, m
    <3> QED BY <1>5, <2>2 DEF Follows, m
  <2>4. m = DidOpen(u, d[u].version, d[u].text)
    <3> HIDE DEF j
    <3> QED BY <1>0, <2>2
  <2> HIDE DEF m
  <2>5. m.method = "didOpen" /\ m.uri = u /\ m.version = d[u].version /\ m.text = d[u].text
    <3> HIDE DEF u
    <3> QED BY <2>4 DEF DidOpen, Message
  <2>6. Had(j) = Had(k) \cup {u}
    <3>1. 1..j = 1..k \cup {j}
      OBVIOUS
    <3> HIDE DEF j
    <3> QED BY <3>1
  <2>7. f[j].documents = Opened(Part(k), m)
    <3> HIDE DEF j, Part, Had, S
    <3> QED BY <2>1, <2>3, <2>5 DEF ServerAfter, DocumentsAfter
  <2>8. Opened(Part(k), m)
          = [x \in {u} \cup Had(k) |-> NewDocument(d[x].version, d[x].text)]
    <3> HIDE DEF u, Had, S
    <3> QED BY <2>5 DEF Opened, Put
  <2> HIDE DEF Had, S, u, j
  <2>9. Had(j) = {u} \cup Had(k)
    BY <2>6
  <2>10. Part(j) = Opened(Part(k), m)
    BY <2>8, <2>9
  <2> QED BY <2>7, <2>10 DEF j
<1>8. n \in S
  <2> HIDE DEF S
  <2> QED BY <1>1, <1>6, <1>7, AllNaturals
<1>9. Had(n) = open
  <2>1. \A i \in 1..n : order[i] \in open
    BY <1>0
  <2>2. Had(n) \subseteq open
    BY <2>1
  <2>3. open \subseteq Had(n)
    BY <1>2
  <2> QED BY <2>2, <2>3
<1>10. Part(n) = Docs(d)
  BY <1>9 DEF Docs
<1> QED BY <1>1, <1>5, <1>8, <1>10

\* A worker that was just started is told what is open.
LEMMA BringsFresh ==
  ASSUME NEW d, IsFiniteSet(DOMAIN d), NEW a, NEW n \in Nat \ {0}, NEW replay,
         \A id \in DOMAIN a : id \in Nat /\ 0 < id /\ id < n,
         \E order \in [1..Cardinality(DOMAIN d) -> DOMAIN d] :
           /\ \A i, j \in 1..Cardinality(DOMAIN d) : order[i] = order[j] => i = j
           /\ replay = [i \in 1..Cardinality(DOMAIN d) |->
                          DidOpen(order[i], d[order[i]].version, d[order[i]].text)]
  PROVE  /\ IsSeq(<<Initialize(n), Initialized>> \o replay)
         /\ Brings(NewServer, <<>>, <<>>, <<Initialize(n), Initialized>> \o replay, d, a, n + 1)
<1> DEFINE first == <<Initialize(n), Initialized>>
           s1 == ServerAfter(NewServer, Initialize(n))
           s2 == ServerAfter(s1, Initialized)
           s3 == Handled(s2, replay)
<1>1. PICK order \in [1..Cardinality(DOMAIN d) -> DOMAIN d] :
        /\ \A i, j \in 1..Cardinality(DOMAIN d) : order[i] = order[j] => i = j
        /\ replay = [i \in 1..Cardinality(DOMAIN d) |->
                       DidOpen(order[i], d[order[i]].version, d[order[i]].text)]
  OBVIOUS
<1>2. s2.documents = <<>> /\ s2.hierarchical = TRUE
  BY DEF ServerAfter, DocumentsAfter, NewServer, Initialize, Initialized, Message
<1>3. first = <<Initialize(n)>> \o <<Initialized>> /\ IsSeq(first)
  <2>1. first \in Seq({Initialize(n), Initialized})
    OBVIOUS
  <2>2. IsSeq(first)
    <3> HIDE DEF first
    <3> QED BY <2>1, SeqIsSeq
  <2>3. first = <<Initialize(n)>> \o <<Initialized>>
    OBVIOUS
  <2> QED BY <2>2, <2>3
<1>4. IsSeq(replay)
  <2> DEFINE k == Cardinality(DOMAIN d)
             M == {DidOpen(u, d[u].version, d[u].text) : u \in DOMAIN d}
  <2>1. k \in Nat
    BY FS_CardinalityType
  <2>2. \A i \in 1..k : replay[i] \in M
    BY <1>1
  <2>3. replay = [i \in 1..k |-> replay[i]]
    BY <1>1
  <2> HIDE DEF M
  <2>4. replay \in Seq(M)
    BY <2>1, <2>2, <2>3
  <2> QED BY <2>4, SeqIsSeq
<1>5. Handled(NewServer, first) = s2
  <2>1. IsSeq(<<Initialize(n)>>)
    BY RightOne
  <2>2. Handled(NewServer, <<Initialize(n)>>) = s1
    BY HandledOne
  <2>3. Handled(NewServer, <<Initialize(n)>> \o <<Initialized>>) = s2
    <3> DEFINE one == <<Initialize(n)>>
    <3> HIDE DEF one, s1
    <3>1. Handled(NewServer, one \o <<Initialized>>) = ServerAfter(Handled(NewServer, one), Initialized)
      BY <2>1, PostedOne DEF one
    <3> QED BY <2>2, <3>1 DEF one
  <2> QED BY <1>3, <2>3
<1>6. ASSUME NEW m, m.id \in {0, n} PROVE \A s : Right(s, m, a, n + 1)
  <2>1. m.id \in Nat /\ m.id < n + 1 /\ m.id \notin DOMAIN a
    BY <1>6
  <2> QED BY <2>1 DEF Right
<1>7. AllRight(NewServer, first, a, n + 1)
  <2>1. ASSUME NEW k \in 1..Len(first)
        PROVE  Right(Handled(NewServer, SubSeq(first, 1, k - 1)), first[k], a, n + 1)
    <3>1. first[k].id \in {0, n}
      <4>1. Initialize(n).id = n /\ Initialized.id = 0
        BY DEF Initialize, Initialized, Message
      <4>2. k = 1 \/ k = 2
        OBVIOUS
      <4> QED BY <4>1, <4>2
    <3> HIDE DEF first
    <3> QED BY <1>6, <3>1
  <2> HIDE DEF first
  <2> QED BY <2>1 DEF AllRight
<1>8. AllRight(s2, replay, a, n + 1)
  <2>1. ASSUME NEW k \in 1..Len(replay)
        PROVE  Right(Handled(s2, SubSeq(replay, 1, k - 1)), replay[k], a, n + 1)
    <3>1. replay[k].id \in {0, n}
      <4>1. k \in 1..Cardinality(DOMAIN d)
        <5>1. Cardinality(DOMAIN d) \in Nat
          BY FS_CardinalityType
        <5> QED BY <1>1, <5>1
      <4>2. replay[k] = DidOpen(order[k], d[order[k]].version, d[order[k]].text)
        BY <1>1, <4>1
      <4> QED BY <4>2 DEF DidOpen, Message
    <3> HIDE DEF s2
    <3> QED BY <1>6, <3>1
  <2> HIDE DEF s2
  <2> QED BY <2>1 DEF AllRight
<1>9. s3.documents = Docs(d)
  <2> HIDE DEF s2
  <2> QED BY <1>2, Replayed
<1>10. s3.hierarchical = TRUE
  <2> HIDE DEF s2
  <2> QED BY <1>2, <1>4, StaysHierarchical
<1> HIDE DEF first, s2
<1>11. IsSeq(first \o replay)
  BY <1>3, <1>4, Joined
<1>12. Handled(NewServer, first \o replay) = s3
  BY <1>3, <1>4, <1>5, HandledParts
<1>13. AllRight(NewServer, first \o replay, a, n + 1)
  BY <1>3, <1>4, <1>5, <1>7, <1>8, RightParts
<1> HIDE DEF s3
<1>14. Handled(NewServer, <<>>) = NewServer /\ AllRight(NewServer, <<>>, a, n + 1)
  BY HandledNone, RightOne
<1>15. Brings(NewServer, <<>>, <<>>, first \o replay, d, a, n + 1)
  BY <1>9, <1>10, <1>12, <1>13, <1>14 DEF Brings
<1> QED BY <1>11, <1>15 DEF first

-----------------------------------------------------------------------------
\* What is on its way.  The worker in use is one that will answer.
InService(w) == port = w /\ thread[w].state \in {"loading", "up"} /\ w \notin erred

\* What is queued are sequences, and questions have the ids given out.
DataInv ==
  /\ DOMAIN inbox = Workers
  /\ \A w \in Workers : IsSeq(inbox[w]) /\ IsSeq(outbox[w]) /\ IsSeq(thread[w].waiting)
  /\ IsSeq(queued)
  /\ nextId \in Nat \ {0}
  /\ \A id \in DOMAIN asked : id \in Nat /\ 0 < id /\ id < nextId
  /\ IsFiniteSet(DOMAIN documents)

\* What has not happened yet: a worker not started has handled nothing, one
\* that loads has no server, one that is up holds nothing back.
FreshInv ==
  /\ \A w \in Workers :
       /\ thread[w].state = "none" =>
            /\ thread[w].server = NewServer /\ thread[w].waiting = <<>> /\ inbox[w] = <<>>
            /\ w \notin erred
       /\ thread[w].state = "loading" => thread[w].server = NewServer
       /\ thread[w].state = "up" => thread[w].waiting = <<>>
       /\ port = w /\ w \in erred => errors[w] > 0
  /\ port # NoPort /\ ready => queued = <<>>
  /\ ~started => documents = <<>>

\* All that a worker in service has yet to handle brings it to the documents,
\* each question on the way to the answer it is due.
ServerInv ==
  \A w \in Workers : InService(w) =>
    Brings(thread[w].server, thread[w].waiting, inbox[w], queued, documents, asked, nextId)

\* What is under way to the page, and what has reached it.
SaysRight(r, a, n) ==
  r.kind = "response" =>
    r.id \in Nat /\ r.id < n /\ (r.id \in DOMAIN a => r.result = Due(a, r.id))
OutInv == \A w \in Workers \ erred : \A i \in 1..Len(outbox[w]) : SaysRight(outbox[w][i], asked, nextId)
AnswersInv ==
  \A id \in DOMAIN answers :
    id \in DOMAIN asked /\ (answers[id].from \notin erred => answers[id].result = Due(asked, id))

TellInv == DataInv /\ FreshInv /\ ServerInv /\ OutInv /\ AnswersInv

-----------------------------------------------------------------------------
\* What a server posts for a message is a sequence.
LEMMA OutgoingIsSeq == ASSUME NEW server, NEW m PROVE IsSeq(Outgoing(server, m))
<1>1. \A x : IsSeq(<<x>>) /\ IsSeq(<<>>)
  <2>1. ASSUME NEW x PROVE IsSeq(<<x>>) /\ IsSeq(<<>>)
    <3>1. <<x>> \in Seq({x}) /\ <<>> \in Seq({x})
      OBVIOUS
    <3> QED BY <3>1, SeqIsSeq
  <2> QED BY <2>1
<1> QED BY <1>1 DEF Outgoing

\* What a server posts for a message that is right is right.
LEMMA OutgoingRight ==
  ASSUME NEW server, NEW m, NEW a, NEW n, Right(server, m, a, n),
         NEW i \in 1..Len(Outgoing(server, m))
  PROVE  SaysRight(Outgoing(server, m)[i], a, n)
<1>1. CASE m.method \in {"didOpen", "didChange", "didClose"}
  <2> DEFINE p == Publish(DocumentsAfter(server.documents, m), m.uri)
  <2>1. Outgoing(server, m) = <<p>>
    BY <1>1 DEF Outgoing
  <2>2. p.kind = "diagnostics"
    BY DEF Publish, Diagnostics
  <2>3. Outgoing(server, m)[i] = p
    <3> HIDE DEF p
    <3> QED BY <2>1
  <2> HIDE DEF p
  <2> QED BY <2>2, <2>3 DEF SaysRight
<1>2. CASE m.method \notin {"didOpen", "didChange", "didClose"} /\ m.id # 0
  <2> DEFINE r == Response(m.id, Answer(server, m))
  <2>1. Outgoing(server, m) = <<r>>
    BY <1>2 DEF Outgoing
  <2>2. r.id = m.id /\ r.result = Answer(server, m)
    BY DEF Response
  <2>3. Outgoing(server, m)[i] = r
    <3> HIDE DEF r
    <3> QED BY <2>1
  <2> HIDE DEF r
  <2> QED BY <2>2, <2>3 DEF SaysRight, Right
<1>3. CASE m.method \notin {"didOpen", "didChange", "didClose"} /\ m.id = 0
  <2>1. Outgoing(server, m) = <<>>
    BY <1>3 DEF Outgoing
  <2> QED BY <2>1
<1> QED BY <1>1, <1>2, <1>3

\* What it posts for a sequence of messages that are right is right too.
LEMMA AnsweredRight ==
  ASSUME NEW server, NEW ms, IsSeq(ms), NEW a, NEW n
  PROVE  /\ IsSeq(Answered(server, ms))
         /\ AllRight(server, ms, a, n) =>
              \A i \in 1..Len(Answered(server, ms)) : SaysRight(Answered(server, ms)[i], a, n)
<1> DEFINE out(i) == Outgoing(Handled(server, SubSeq(ms, 1, i - 1)), ms[i])
           seqs == [i \in DOMAIN ms |-> out(i)]
           U == UNION {Range(out(i)) : i \in DOMAIN ms}
           T == {r \in U : SaysRight(r, a, n)}
<1>1. DOMAIN ms = 1..Len(ms) /\ Len(ms) \in Nat
  <2>1. ms \in Seq(Range(ms))
    BY DEF IsSeq
  <2> QED BY <2>1
<1>2. ASSUME NEW i \in DOMAIN ms PROVE out(i) \in Seq(Range(out(i))) /\ Range(out(i)) \subseteq U
  <2>1. IsSeq(out(i))
    BY OutgoingIsSeq
  <2>2. Range(out(i)) \subseteq U
    OBVIOUS
  <2> QED BY <2>1, <2>2 DEF IsSeq
<1>3. ASSUME NEW V, \A i \in DOMAIN ms : out(i) \in Seq(V)
      PROVE  Answered(server, ms) \in Seq(V)
  <2>1. \A i \in 1..Len(ms) : seqs[i] \in Seq(V)
    BY <1>1, <1>3
  <2>2. seqs = [i \in 1..Len(ms) |-> seqs[i]]
    BY <1>1
  <2>3. Answered(server, ms) = FlattenSeq(seqs)
    BY DEF Answered
  <2> HIDE DEF seqs
  <2> DEFINE W == Seq(V)
  <2>4. \A i \in 1..Len(ms) : seqs[i] \in W
    BY <2>1
  <2> HIDE DEF W
  <2>5. seqs \in Seq(W)
    BY <1>1, <2>2, <2>4
  <2>6. seqs \in Seq(Seq(V))
    BY <2>5 DEF W
  <2>7. FlattenSeq(seqs) \in Seq(V)
    BY <2>6, Flattened
  <2> QED BY <2>3, <2>7
<1>4. IsSeq(Answered(server, ms))
  <2> HIDE DEF U, out
  <2>1. \A i \in DOMAIN ms : out(i) \in Seq(U)
    BY <1>2, SeqMonotonic
  <2>2. Answered(server, ms) \in Seq(U)
    BY <1>3, <2>1
  <2> QED BY <2>2, SeqIsSeq
<1>5. ASSUME AllRight(server, ms, a, n), NEW i \in 1..Len(Answered(server, ms))
      PROVE  SaysRight(Answered(server, ms)[i], a, n)
  <2>1. ASSUME NEW j \in DOMAIN ms PROVE out(j) \in Seq(T)
    <3>1. Right(Handled(server, SubSeq(ms, 1, j - 1)), ms[j], a, n)
      BY <1>1, <1>5 DEF AllRight
    <3>2. \A k \in 1..Len(out(j)) : SaysRight(out(j)[k], a, n)
      BY <3>1, OutgoingRight
    <3> DEFINE o == out(j)
    <3>3. o \in Seq(U)
      <4>1. o \in Seq(Range(o)) /\ Range(o) \subseteq U
        BY <1>2
      <4> HIDE DEF U, o
      <4> QED BY <4>1, SeqMonotonic
    <3> HIDE DEF U, out
    <3>4. \A k \in 1..Len(o) : o[k] \in T
      BY <3>2, <3>3
    <3> HIDE DEF T
    <3>5. o = [k \in 1..Len(o) |-> o[k]] /\ Len(o) \in Nat
      BY <3>3
    <3>6. o \in Seq(T)
      BY <3>4, <3>5
    <3> QED BY <3>6
  <2>2. Answered(server, ms) \in Seq(T)
    <3> HIDE DEF T, out
    <3> QED BY <1>3, <2>1
  <2> DEFINE all == Answered(server, ms)
  <2> HIDE DEF T, all
  <2>3. all[i] \in T
    BY <2>2 DEF all
  <2> QED BY <2>3 DEF T, all
<1> QED BY <1>4, <1>5

-----------------------------------------------------------------------------
\* Initially nothing was asked and no worker was started.
LEMMA InitTell == Init => TellInv
<1> SUFFICES ASSUME Init PROVE TellInv
  OBVIOUS
<1>0. DOMAIN <<>> = {} /\ Len(<<>>) = 0
  OBVIOUS
<1>1. IsSeq(<<>>)
  BY RightOne
<1>2. DataInv
  <2>1. DOMAIN documents = {} /\ IsFiniteSet({})
    BY <1>0, FS_EmptySet DEF Init
  <2>2. DOMAIN asked = {}
    BY <1>0 DEF Init
  <2>3. DOMAIN inbox = Workers /\ queued = <<>> /\ nextId = 1
    BY DEF Init
  <2>4. ASSUME NEW w \in Workers
        PROVE  inbox[w] = <<>> /\ outbox[w] = <<>> /\ thread[w].waiting = <<>>
    BY DEF Init
  <2> QED BY <1>1, <2>1, <2>2, <2>3, <2>4 DEF DataInv
<1> USE DEF Workers, NoPort
<1>3. FreshInv
  BY DEF Init, FreshInv
<1>4. ServerInv
  BY DEF Init, ServerInv, InService
<1>5. OutInv
  <2>1. \A w \in Workers : Len(outbox[w]) = 0
    BY DEF Init
  <2> QED BY <2>1 DEF OutInv
<1>6. AnswersInv
  BY <1>0 DEF Init, AnswersInv
<1> QED BY <1>2, <1>3, <1>4, <1>5, <1>6 DEF TellInv

\* Questions are asked under ids not yet given out.
NewQuestions ==
  /\ nextId' \in Nat \ {0} /\ nextId <= nextId'
  /\ \A id \in Nat : id < nextId => /\ id \in DOMAIN asked' <=> id \in DOMAIN asked
                                    /\ id \in DOMAIN asked => asked'[id] = asked[id]
  /\ \A id \in DOMAIN asked' : id \in Nat /\ 0 < id /\ id < nextId'

\* A step may give out an id and ask nothing under it.
LEMMA NoNewQuestion ==
  ASSUME DataInv, asked' = asked, nextId' \in {nextId, nextId + 1}
  PROVE  NewQuestions
<1>1. nextId \in Nat \ {0} /\ \A id \in DOMAIN asked : id \in Nat /\ 0 < id /\ id < nextId
  BY DEF DataInv
<1> QED BY <1>1 DEF NewQuestions

\* What was posted and answered stays right.
LEMMA SaidLater ==
  ASSUME TellInv, NewQuestions
  PROVE  /\ \A r : SaysRight(r, asked, nextId) => SaysRight(r, asked', nextId')
         /\ \A id \in DOMAIN asked : id \in DOMAIN asked' /\ asked'[id] = asked[id]
         /\ answers' = answers /\ erred \subseteq erred' => AnswersInv'
<1>1. nextId \in Nat /\ nextId' \in Nat /\ nextId <= nextId'
  BY DEF TellInv, DataInv, NewQuestions
<1>2. \A id \in Nat : id < nextId => /\ id \in DOMAIN asked' <=> id \in DOMAIN asked
                                     /\ id \in DOMAIN asked => asked'[id] = asked[id]
  BY DEF NewQuestions
<1>3. ASSUME NEW r, SaysRight(r, asked, nextId) PROVE SaysRight(r, asked', nextId')
  <2> SUFFICES ASSUME r.kind = "response"
               PROVE  /\ r.id \in Nat /\ r.id < nextId'
                      /\ r.id \in DOMAIN asked' => r.result = Due(asked', r.id)
    BY DEF SaysRight
  <2>1. /\ r.id \in Nat /\ r.id < nextId
        /\ r.id \in DOMAIN asked => r.result = Due(asked, r.id)
    BY <1>3 DEF SaysRight
  <2>2. r.id \in Nat /\ r.id < nextId'
    BY <1>1, <2>1
  <2>3. ASSUME r.id \in DOMAIN asked' PROVE r.result = Due(asked', r.id)
    <3>1. r.id \in DOMAIN asked /\ asked'[r.id] = asked[r.id]
      BY <1>2, <2>1, <2>3
    <3> QED BY <2>1, <3>1 DEF Due
  <2> QED BY <2>2, <2>3
<1>4. ASSUME NEW id \in DOMAIN asked PROVE id \in DOMAIN asked' /\ asked'[id] = asked[id]
  <2>1. id \in Nat /\ id < nextId
    BY DEF TellInv, DataInv
  <2> QED BY <1>2, <2>1
<1>5. ASSUME answers' = answers, erred \subseteq erred' PROVE AnswersInv'
  <2>1. \A id \in DOMAIN answers :
          /\ id \in DOMAIN asked
          /\ answers[id].from \notin erred => answers[id].result = Due(asked, id)
    BY DEF TellInv, AnswersInv
  <2> QED BY <1>4, <1>5, <2>1 DEF AnswersInv, Due
<1> QED BY <1>3, <1>4, <1>5

\* The posts of the workers stay right when some are taken.
LEMMA OutStays ==
  ASSUME TellInv, NewQuestions, outbox' = outbox, erred \subseteq erred'
  PROVE  OutInv'
<1>1. \A w \in Workers \ erred : \A i \in 1..Len(outbox[w]) : SaysRight(outbox[w][i], asked, nextId)
  BY DEF TellInv, OutInv
<1>2. \A r : SaysRight(r, asked, nextId) => SaysRight(r, asked', nextId')
  BY SaidLater
<1> QED BY <1>1, <1>2 DEF OutInv

-----------------------------------------------------------------------------
\* The page posts a message.
LEMMA SentStep ==
  ASSUME Inv, TellInv, NEW m, Send(<<m>>), started, NewQuestions,
         UNCHANGED <<port, ready, thread, outbox, errors, erred, started, answers>>,
         IsFiniteSet(DOMAIN documents'),
         DocumentsAfter(Docs(documents), m) = Docs(documents'),
         \A s : s.documents = Docs(documents) /\ s.hierarchical = TRUE => Right(s, m, asked', nextId')
  PROVE  TellInv'
<1> USE DEF Workers, NoPort
<1>0. /\ DOMAIN inbox = Workers
      /\ \A w \in Workers : IsSeq(inbox[w]) /\ IsSeq(outbox[w]) /\ IsSeq(thread[w].waiting)
      /\ IsSeq(queued) /\ nextId \in Nat
  BY DEF TellInv, DataInv
<1>1. \/ /\ port = NoPort \/ ~ready
         /\ queued' = queued \o <<m>> /\ inbox' = inbox
      \/ /\ port # NoPort /\ ready /\ port \in Workers
         /\ inbox' = [inbox EXCEPT ![port] = inbox[port] \o <<m>>] /\ queued' = queued
         /\ queued = <<>>
  <2>1. port \in {0, 1, 2} /\ (port # NoPort /\ ready => queued = <<>>)
    BY DEF Inv, LifeInv, TellInv, FreshInv
  <2> QED BY <2>1 DEF Send
<1>2. /\ IsSeq(queued') /\ DOMAIN inbox' = Workers
      /\ \A w \in Workers : IsSeq(inbox'[w])
      /\ \A w \in Workers : w # port => inbox'[w] = inbox[w]
  <2>1. \A s : IsSeq(s) => IsSeq(s \o <<m>>)
    <3>1. ASSUME NEW s, IsSeq(s) PROVE IsSeq(s \o <<m>>)
      BY <3>1, RightOne, Joined
    <3> QED BY <3>1
  <2>2. CASE queued' = queued \o <<m>> /\ inbox' = inbox
    BY <1>0, <2>1, <2>2
  <2>3. CASE /\ port \in Workers /\ queued' = queued
             /\ inbox' = [inbox EXCEPT ![port] = inbox[port] \o <<m>>]
    <3> DEFINE more == inbox[port] \o <<m>>
    <3>1. IsSeq(more)
      BY <1>0, <2>1, <2>3
    <3> HIDE DEF more
    <3>2. inbox' = [inbox EXCEPT ![port] = more]
      BY <2>3 DEF more
    <3> QED BY <1>0, <2>3, <3>1, <3>2
  <2> QED BY <1>1, <2>2, <2>3
<1>3. DataInv'
  BY <1>0, <1>2 DEF DataInv, NewQuestions
<1>4. FreshInv'
  <2>1. \A w \in Workers : port = w => thread[w].state # "none"
    BY DEF Inv, LifeInv, State
  <2>2. \A w \in Workers : thread[w].state = "none" => inbox'[w] = inbox[w]
    BY <1>2, <2>1
  <2>3. port # NoPort /\ ready => queued' = <<>>
    BY <1>1
  <2> QED BY <2>2, <2>3 DEF TellInv, FreshInv
<1>5. ServerInv'
  <2> SUFFICES ASSUME NEW w \in Workers, InService(w)
               PROVE  Brings(thread[w].server, thread[w].waiting, inbox'[w], queued',
                             documents', asked', nextId')
    BY DEF ServerInv, InService
  <2>1. Brings(thread[w].server, thread[w].waiting, inbox[w], queued, documents, asked, nextId)
    BY DEF TellInv, ServerInv
  <2>2. /\ Brings(thread[w].server, thread[w].waiting, inbox[w], queued \o <<m>>,
                  documents', asked', nextId')
        /\ queued = <<>> => Brings(thread[w].server, thread[w].waiting, inbox[w] \o <<m>>, <<>>,
                                   documents', asked', nextId')
    <3>1. /\ nextId' \in Nat /\ nextId <= nextId'
          /\ \A id \in Nat : id < nextId => /\ id \in DOMAIN asked' <=> id \in DOMAIN asked
                                            /\ id \in DOMAIN asked => asked'[id] = asked[id]
      BY DEF NewQuestions
    <3>2. IsSeq(thread[w].waiting) /\ IsSeq(inbox[w]) /\ IsSeq(queued) /\ nextId \in Nat
      BY <1>0
    <3> QED BY <2>1, <3>1, <3>2, BringsPosted
  <2>3. port = w
    BY DEF InService
  <2>4. CASE queued' = queued \o <<m>> /\ inbox' = inbox
    BY <2>2, <2>4
  <2>5. CASE /\ inbox' = [inbox EXCEPT ![port] = inbox[port] \o <<m>>] /\ queued' = queued
             /\ queued = <<>>
    <3>1. inbox'[w] = inbox[w] \o <<m>>
      BY <1>0, <2>3, <2>5
    <3> QED BY <2>2, <2>5, <3>1
  <2> QED BY <1>1, <2>4, <2>5
<1>6. OutInv' /\ AnswersInv'
  BY OutStays, SaidLater
<1> QED BY <1>3, <1>4, <1>5, <1>6 DEF TellInv

\* An editor's notification, which a client that is off does not send.
LEMMA EditStep ==
  ASSUME Inv, TellInv, NEW m, Notify(m), m.id = 0, started,
         UNCHANGED <<port, ready, nextId, asked, thread, outbox, errors, erred, started, answers>>,
         IsFiniteSet(DOMAIN documents'),
         DocumentsAfter(Docs(documents), m) = Docs(documents')
  PROVE  TellInv'
<1>1. NewQuestions
  BY NoNewQuestion DEF TellInv
<1>2. CASE ~off
  <2>1. Send(<<m>>)
    BY <1>2 DEF Notify
  <2>2. \A s : Right(s, m, asked', nextId')
    <3>1. 0 \notin DOMAIN asked' /\ 0 < nextId'
      BY <1>1 DEF NewQuestions
    <3> QED BY <3>1 DEF Right
  <2> QED BY <1>1, <2>1, <2>2, SentStep
<1>3. CASE off
  <2>1. port = NoPort /\ UNCHANGED <<queued, inbox>>
    BY <1>3 DEF Notify, Inv, NoticeInv
  <2>2. DataInv'
    BY <2>1 DEF TellInv, DataInv
  <2>3. FreshInv'
    BY <2>1 DEF TellInv, FreshInv
  <2>4. ServerInv'
    BY <2>1 DEF ServerInv, InService, Workers, NoPort
  <2>5. OutInv' /\ AnswersInv'
    BY <1>1, OutStays, SaidLater
  <2> QED BY <2>2, <2>3, <2>4, <2>5 DEF TellInv
<1> QED BY <1>2, <1>3

\* The editors' actions: what they post brings the server to what they leave
\* open, and a question is due the text its document has then.
LEMMA EditorTell ==
  ASSUME Inv, TellInv, NEW u \in Uris,
         OpenDocument(u) \/ ChangeDocument(u) \/ CloseDocument(u) \/ Request(u)
  PROVE  TellInv'
<1>0. IsFiniteSet(DOMAIN documents) /\ nextId \in Nat \ {0}
      /\ \A id \in DOMAIN asked : id \in Nat /\ 0 < id /\ id < nextId
  BY DEF TellInv, DataInv
<1>1. CASE OpenDocument(u)
  <2> DEFINE m == DidOpen(u, 1, edits')
  <2>1. /\ started /\ Notify(m)
        /\ documents' = Put(documents, u, [version |-> 1, text |-> edits'])
        /\ UNCHANGED <<port, ready, nextId, asked, thread, outbox, errors, erred, started, answers>>
    BY <1>1 DEF OpenDocument, Editing
  <2>2. DocumentsAfter(Docs(documents), m) = Docs(documents')
    <3> DEFINE d == Put(documents, u, [version |-> 1, text |-> edits'])
    <3>1. DocumentsAfter(Docs(documents), DidOpen(u, 1, edits')) = Docs(d)
      BY <2>1, AfterOpen
    <3> QED BY <2>1, <3>1
  <2>3. IsFiniteSet(DOMAIN documents')
    <3>1. DOMAIN documents' = DOMAIN documents \cup {u}
      BY <2>1 DEF Put
    <3> QED BY <1>0, <3>1, FS_AddElement
  <2>4. m.id = 0
    BY DEF DidOpen, Message
  <2> HIDE DEF m
  <2> QED BY <2>1, <2>2, <2>3, <2>4, EditStep
<1>2. CASE ChangeDocument(u)
  <2> DEFINE v == documents[u].version + 1
             m == Message("didChange", 0, u, v, edits')
  <2>1. /\ u \in DOMAIN documents /\ started
        /\ documents' = [documents EXCEPT ![u] = [version |-> v, text |-> edits']]
        /\ Notify(Message("didChange", 0, u, documents'[u].version, edits'))
        /\ UNCHANGED <<port, ready, nextId, asked, thread, outbox, errors, erred, started, answers>>
    BY <1>2 DEF ChangeDocument, Editing
  <2>2. documents'[u].version = v /\ DOMAIN documents' = DOMAIN documents
    BY <2>1
  <2>3. Notify(m)
    BY <2>1, <2>2
  <2> HIDE DEF v
  <2>4. DocumentsAfter(Docs(documents), m) = Docs(documents')
    <3>1. /\ u \in DOMAIN documents /\ DOMAIN documents' = DOMAIN documents
          /\ documents'[u] = [version |-> v, text |-> edits']
          /\ \A x \in DOMAIN documents : x # u => documents'[x] = documents[x]
      BY <2>1
    <3> QED BY <3>1, AfterChange
  <2>5. m.id = 0
    BY DEF Message
  <2> HIDE DEF m
  <2> QED BY <1>0, <2>1, <2>2, <2>3, <2>4, <2>5, EditStep
<1>3. CASE CloseDocument(u)
  <2> DEFINE m == Message("didClose", 0, u, 0, NoText)
  <2>1. /\ u \in DOMAIN documents /\ started /\ Notify(m)
        /\ documents' = Restrict(documents, DOMAIN documents \ {u})
        /\ UNCHANGED <<port, ready, nextId, asked, thread, outbox, errors, erred, started, answers>>
    BY <1>3 DEF CloseDocument, Editing
  <2>2. DocumentsAfter(Docs(documents), m) = Docs(documents')
    BY <2>1, AfterClose, Zenon
  <2>3. IsFiniteSet(DOMAIN documents')
    <3>1. DOMAIN documents' = DOMAIN documents \ {u}
      BY <2>1 DEF Restrict
    <3> QED BY <1>0, <3>1, FS_Subset
  <2>4. m.id = 0
    BY DEF Message
  <2> HIDE DEF m
  <2> QED BY <2>1, <2>2, <2>3, <2>4, EditStep
<1>4. CASE Request(u)
  <2> DEFINE m == Message("request", nextId, u, 0, NoText)
             t == IF u \in DOMAIN documents THEN documents[u].text ELSE NoText
  <2>1. /\ started /\ nextId' = nextId + 1 /\ Send(<<m>>)
        /\ asked' = Put(asked, nextId, t)
        /\ UNCHANGED <<port, ready, documents, thread, outbox, errors, erred, started, answers>>
    BY <1>4 DEF Request
  <2>2. m.id = nextId /\ m.uri = u /\ m.method = "request"
    BY DEF Message
  <2>3. /\ DOMAIN asked' = DOMAIN asked \cup {nextId} /\ asked'[nextId] = t
        /\ \A id \in DOMAIN asked : id # nextId => asked'[id] = asked[id]
    BY <2>1 DEF Put
  <2> HIDE DEF m
  <2>4. NewQuestions
    BY <1>0, <2>1, <2>3 DEF NewQuestions
  <2>5. DocumentsAfter(Docs(documents), m) = Docs(documents')
    BY <2>1, <2>2 DEF DocumentsAfter
  <2>6. ASSUME NEW s, s.documents = Docs(documents), s.hierarchical = TRUE
        PROVE  Right(s, m, asked', nextId')
    <3>1. Answer(s, m) = [text |-> t, nav |-> t, tree |-> TRUE]
      <4>1. CASE u \notin DOMAIN documents
        BY <2>2, <2>6, <4>1 DEF Answer, Docs
      <4>2. CASE u \in DOMAIN documents
        <5>1. /\ u \in DOMAIN s.documents
              /\ s.documents[u] = NewDocument(documents[u].version, documents[u].text)
          BY <2>6, <4>2 DEF Docs
        <5>2. s.documents[u].index = t /\ s.documents[u].nav = t
          BY <4>2, <5>1 DEF NewDocument
        <5>3. Answer(s, m) = [text |-> s.documents[u].index, nav |-> s.documents[u].nav,
                              tree |-> s.hierarchical]
          BY <2>2, <5>1 DEF Answer
        <5> QED BY <2>6, <5>2, <5>3
      <4> QED BY <4>1, <4>2
    <3> HIDE DEF t
    <3> QED BY <1>0, <2>1, <2>2, <2>3, <3>1 DEF Right, Due
  <2> HIDE DEF t
  <2> QED BY <1>0, <2>1, <2>4, <2>5, <2>6, SentStep
<1> QED BY <1>1, <1>2, <1>3, <1>4

-----------------------------------------------------------------------------
\* A worker that is started is told what is open, first of all.
LEMMA SpawnedTell ==
  ASSUME TellInv, NEW w \in Workers, thread[w].state = "none", NEW replay \in Replay,
         Spawn(w, replay), UNCHANGED <<documents, asked>>,
         thread'[w].server = thread[w].server, thread'[w].waiting = thread[w].waiting,
         inbox'[w] = inbox[w]
  PROVE  /\ NewQuestions /\ IsSeq(queued') /\ port' = w /\ ready' = FALSE
         /\ thread'[w].server = NewServer /\ thread'[w].waiting = <<>>
         /\ Brings(thread'[w].server, thread'[w].waiting, inbox'[w], queued',
                   documents', asked', nextId')
<1>1. /\ port' = w /\ ready' = FALSE /\ nextId' = nextId + 1
      /\ queued' = <<Initialize(nextId), Initialized>> \o replay
  BY DEF Spawn
<1>2. /\ IsFiniteSet(DOMAIN documents) /\ nextId \in Nat \ {0}
      /\ \A id \in DOMAIN asked : id \in Nat /\ 0 < id /\ id < nextId
  BY DEF TellInv, DataInv
<1>3. thread[w].server = NewServer /\ thread[w].waiting = <<>> /\ inbox[w] = <<>>
  BY DEF TellInv, FreshInv
<1>4. \E order \in [1..Cardinality(DOMAIN documents) -> DOMAIN documents] :
        /\ \A i, j \in 1..Cardinality(DOMAIN documents) : order[i] = order[j] => i = j
        /\ replay = [i \in 1..Cardinality(DOMAIN documents) |->
                       DidOpen(order[i], documents[order[i]].version, documents[order[i]].text)]
  BY DEF Replay
<1>5. /\ IsSeq(<<Initialize(nextId), Initialized>> \o replay)
      /\ Brings(NewServer, <<>>, <<>>, <<Initialize(nextId), Initialized>> \o replay,
                documents, asked, nextId + 1)
  BY <1>2, <1>4, BringsFresh
<1>6. NewQuestions
  BY <1>1, NoNewQuestion DEF TellInv
<1> QED BY <1>1, <1>3, <1>5, <1>6

\* The first worker is told of what is open, which is nothing yet.
LEMMA StartTell == ASSUME Inv, TellInv, Start PROVE TellInv'
<1> USE DEF Workers, NoPort
<1>1. /\ ~started /\ started' /\ Spawn(1, <<>>)
      /\ thread' = [thread EXCEPT ![1].state = "loading"]
      /\ UNCHANGED <<documents, asked, answers, inbox, outbox, errors, erred>>
  BY DEF Start, page
<1>2. documents = <<>> /\ \A w \in Workers : thread[w].state = "none"
  BY <1>1 DEF Inv, LifeInv, State, TellInv, FreshInv
<1>3. <<>> \in Replay
  <2>1. DOMAIN documents = {} /\ Cardinality({}) = 0
    BY <1>2, FS_EmptySet
  <2> DEFINE f == [i \in 1..0 |-> 0]
             r == [i \in 1..0 |-> DidOpen(f[i], documents[f[i]].version, documents[f[i]].text)]
  <2>2. 1..0 = {}
    OBVIOUS
  <2>3. f \in [1..0 -> {}] /\ \A i, j \in 1..0 : f[i] = f[j] => i = j
    BY <2>2
  <2>4. r = <<>>
    BY <2>2
  <2> HIDE DEF f
  <2>5. r \in Replay
    BY <2>1, <2>3 DEF Replay
  <2> QED BY <2>4, <2>5
<1>4. /\ DOMAIN thread' = Workers
      /\ \A w \in Workers : /\ thread'[w].server = thread[w].server
                            /\ thread'[w].waiting = thread[w].waiting
      /\ thread'[1].state = "loading" /\ thread'[2].state = "none"
  BY <1>1, <1>2 DEF Inv, ThreadsAreRecords
<1>5. /\ NewQuestions /\ IsSeq(queued') /\ port' = 1 /\ ready' = FALSE
      /\ thread'[1].server = NewServer /\ thread'[1].waiting = <<>>
      /\ Brings(thread'[1].server, thread'[1].waiting, inbox'[1], queued',
                documents', asked', nextId')
  <2>1. 1 \in Workers /\ thread[1].state = "none" /\ inbox'[1] = inbox[1]
    BY <1>1, <1>2
  <2> HIDE DEF Workers
  <2>2. PICK w \in Workers : w = 1
    BY <2>1
  <2>3. thread'[w].server = thread[w].server /\ thread'[w].waiting = thread[w].waiting
    BY <1>4
  <2> QED BY <1>1, <1>3, <2>1, <2>2, <2>3, SpawnedTell
<1> HIDE DEF Workers
<1>6. DataInv'
  <2>1. /\ DOMAIN inbox = Workers /\ IsFiniteSet(DOMAIN documents)
        /\ \A w \in Workers : IsSeq(inbox[w]) /\ IsSeq(outbox[w]) /\ IsSeq(thread[w].waiting)
    BY DEF TellInv, DataInv
  <2>2. nextId' \in Nat \ {0} /\ \A id \in DOMAIN asked' : id \in Nat /\ 0 < id /\ id < nextId'
    BY <1>5 DEF NewQuestions
  <2> QED BY <1>1, <1>4, <1>5, <2>1, <2>2 DEF DataInv
<1>7. FreshInv'
  <2>1. \A w \in Workers : /\ thread[w].server = NewServer /\ thread[w].waiting = <<>>
                           /\ inbox[w] = <<>> /\ w \notin erred
    BY <1>2 DEF TellInv, FreshInv
  <2>2. started' /\ ready' = FALSE /\ erred' = erred /\ inbox' = inbox
    BY <1>1, <1>5
  <2> QED BY <1>4, <2>1, <2>2 DEF FreshInv
<1>8. ServerInv'
  <2>1. \A w \in Workers : port' = w => w = 1
    BY <1>5
  <2> QED BY <1>5, <2>1 DEF ServerInv, InService
<1>9. OutInv' /\ AnswersInv'
  BY <1>1, <1>5, OutStays, SaidLater
<1> QED BY <1>6, <1>7, <1>8, <1>9 DEF TellInv

-----------------------------------------------------------------------------
\* What the page takes of a worker's posts leaves the others as they were.
LEMMA TakenPost ==
  ASSUME Inv, TellInv, NEW w \in Workers, outbox[w] # <<>>, outbox' = [outbox EXCEPT ![w] = Tail(@)],
         UNCHANGED <<erred, asked, nextId>>
  PROVE  /\ \A v \in Workers : IsSeq(outbox'[v])
         /\ OutInv'
         /\ w \notin erred => SaysRight(Head(outbox[w]), asked, nextId)
<1>1. DOMAIN outbox = Workers /\ \A v \in Workers : IsSeq(outbox[v])
  BY DEF Inv, PostInv, TellInv, DataInv
<1> DEFINE o == outbox[w]
           t == Tail(o)
<1>2. /\ IsSeq(t) /\ 1 \in DOMAIN o /\ Head(o) = o[1]
      /\ DOMAIN o = 1..Len(o) /\ Len(o) \in Nat \ {0}
      /\ DOMAIN t = 1..(Len(o) - 1)
      /\ \A i \in DOMAIN t : i + 1 \in DOMAIN o /\ t[i] = o[i + 1]
  BY <1>1, Taken
<1>3. outbox'[w] = t /\ \A v \in Workers : v # w => outbox'[v] = outbox[v]
  BY <1>1
<1>4. \A v \in Workers : IsSeq(outbox'[v])
  <2> HIDE DEF t
  <2> QED BY <1>1, <1>2, <1>3
<1>5. \A v \in Workers \ erred : \A i \in 1..Len(outbox[v]) : SaysRight(outbox[v][i], asked, nextId)
  BY DEF TellInv, OutInv
<1>6. ASSUME NEW v \in Workers \ erred, NEW i \in 1..Len(outbox'[v])
      PROVE  SaysRight(outbox'[v][i], asked, nextId)
  <2>1. CASE v # w
    BY <1>3, <1>5, <1>6, <2>1
  <2>2. CASE v = w
    <3>1. DOMAIN t = 1..Len(t)
      <4>1. t \in Seq(Range(t))
        BY <1>2 DEF IsSeq
      <4> HIDE DEF t
      <4> QED BY <4>1
    <3> HIDE DEF t, o
    <3>2. i \in DOMAIN t
      BY <1>3, <1>6, <2>2, <3>1
    <3>3. t[i] = o[i + 1] /\ i + 1 \in 1..Len(o)
      BY <1>2, <3>2
    <3>4. PICK j \in 1..Len(o) : j = i + 1
      BY <3>3
    <3>5. SaysRight(o[j], asked, nextId)
      BY <1>5, <2>2 DEF o
    <3> QED BY <1>3, <2>2, <3>3, <3>4, <3>5
  <2> QED BY <2>1, <2>2
<1>7. OutInv'
  BY <1>6 DEF OutInv
<1>8. ASSUME w \notin erred PROVE SaysRight(Head(outbox[w]), asked, nextId)
  <2>1. 1 \in 1..Len(o)
    BY <1>2
  <2>2. PICK j \in 1..Len(o) : j = 1
    BY <2>1
  <2>3. SaysRight(outbox[w][j], asked, nextId)
    BY <1>5, <1>8
  <2> QED BY <1>2, <2>2, <2>3
<1> QED BY <1>4, <1>7, <1>8

\* The page takes a message: when the worker is ready, it is sent what was held
\* back; an answer that is taken is the one that is due.
LEMMA DeliverTell == ASSUME Inv, TellInv, NEW w \in Workers, Deliver(w) PROVE TellInv'
<1> USE DEF NoPort
<1>1. /\ outbox[w] # <<>> /\ outbox' = [outbox EXCEPT ![w] = Tail(@)]
      /\ UNCHANGED <<errors, erred>>
  BY DEF Deliver
<1>2. UNCHANGED <<asked, nextId, documents, started>>
  BY DEF Deliver, client, page, OnFailed, OnReady, OnOut
<1>3. /\ \A v \in Workers : IsSeq(outbox'[v])
      /\ OutInv'
      /\ w \notin erred => SaysRight(Head(outbox[w]), asked, nextId)
  BY <1>1, <1>2, TakenPost
<1>4. NewQuestions
  BY <1>2, NoNewQuestion DEF TellInv
<1>5. /\ DOMAIN inbox = Workers /\ IsSeq(queued)
      /\ \A v \in Workers : IsSeq(inbox[v]) /\ IsSeq(thread[v].waiting)
  BY DEF TellInv, DataInv
<1>6. ASSUME UNCHANGED <<port, ready, queued, thread, inbox>>, AnswersInv' PROVE TellInv'
  <2>1. DataInv'
    BY <1>2, <1>3, <1>6 DEF TellInv, DataInv
  <2>2. FreshInv'
    BY <1>1, <1>2, <1>6 DEF TellInv, FreshInv
  <2>3. ServerInv'
    BY <1>1, <1>2, <1>6 DEF TellInv, ServerInv, InService
  <2> QED BY <1>3, <1>6, <2>1, <2>2, <2>3 DEF TellInv
<1>7. answers' = answers => AnswersInv'
  BY <1>1, <1>4, SaidLater
<1>8. CASE ~Mine(w)
  BY <1>6, <1>7, <1>8 DEF Deliver, client, page
<1>9. CASE Mine(w)
  <2>0. port = w
    BY <1>9 DEF Mine
  <2>1. CASE OnFailed
    <3>1. /\ port' = NoPort /\ thread' = [thread EXCEPT ![w] = Gone]
          /\ inbox' = [inbox EXCEPT ![w] = <<>>] /\ UNCHANGED <<queued, answers>>
      BY <2>0, <2>1 DEF OnFailed, Terminated
    <3>2. IsSeq(<<>>)
      BY RightOne
    <3>3. /\ thread'[w].state = "terminated" /\ thread'[w].waiting = <<>> /\ inbox'[w] = <<>>
          /\ \A v \in Workers : v # w => thread'[v] = thread[v] /\ inbox'[v] = inbox[v]
          /\ DOMAIN inbox' = Workers
      BY <1>5, <3>1 DEF Gone, Inv, ThreadsAreRecords
    <3>4. DataInv'
      <4>1. \A v \in Workers : IsSeq(inbox'[v]) /\ IsSeq(thread'[v].waiting)
        BY <1>5, <3>2, <3>3
      <4> QED BY <1>2, <1>3, <3>1, <3>3, <4>1 DEF TellInv, DataInv
    <3>5. FreshInv'
      BY <1>1, <1>2, <3>1, <3>3 DEF TellInv, FreshInv, Workers
    <3>6. ServerInv'
      BY <3>1 DEF ServerInv, InService, Workers
    <3> QED BY <1>3, <1>7, <3>1, <3>4, <3>5, <3>6 DEF TellInv
  <2>2. CASE OnReady
    <3> DEFINE more == inbox[w] \o queued
    <3>1. /\ inbox' = [inbox EXCEPT ![w] = more] /\ queued' = <<>>
          /\ UNCHANGED <<port, thread, answers>>
      BY <2>0, <2>2 DEF OnReady
    <3>2. IsSeq(<<>>) /\ IsSeq(more)
      BY <1>5, RightOne, Joined
    <3> HIDE DEF more
    <3>3. /\ inbox'[w] = more /\ DOMAIN inbox' = Workers
          /\ \A v \in Workers : v # w => inbox'[v] = inbox[v]
      BY <1>5, <3>1
    <3>4. DataInv'
      <4>1. \A v \in Workers : IsSeq(inbox'[v]) /\ IsSeq(thread'[v].waiting)
        BY <1>5, <3>1, <3>2, <3>3
      <4> QED BY <1>2, <1>3, <3>1, <3>2, <3>3, <4>1 DEF TellInv, DataInv
    <3>5. FreshInv'
      <4>1. thread[w].state # "none"
        BY <2>0 DEF Inv, LifeInv, State
      <4> QED BY <1>1, <1>2, <3>1, <3>3, <4>1 DEF TellInv, FreshInv
    <3>6. ServerInv'
      <4> SUFFICES ASSUME NEW v \in Workers, InService(v)'
                   PROVE  Brings(thread[v].server, thread[v].waiting, inbox'[v], <<>>,
                                 documents, asked, nextId)
        BY <1>2, <3>1 DEF ServerInv
      <4>1. v = w /\ InService(w)
        BY <1>1, <2>0, <3>1 DEF InService
      <4>2. Brings(thread[w].server, thread[w].waiting, inbox[w], queued, documents, asked, nextId)
        BY <4>1 DEF TellInv, ServerInv
      <4>3. Brings(thread[w].server, thread[w].waiting, more, <<>>, documents, asked, nextId)
        BY <1>5, <4>2, BringsReady DEF more
      <4> QED BY <3>3, <4>1, <4>3
    <3> QED BY <1>3, <1>7, <3>1, <3>4, <3>5, <3>6 DEF TellInv
  <2>3. CASE OnOut(Head(outbox[w]))
    <3> DEFINE m == Head(outbox[w])
    <3>1. UNCHANGED <<port, ready, queued, thread, inbox>>
      BY <2>3 DEF OnOut
    <3>2. \/ answers' = answers
          \/ /\ m.kind = "response" /\ m.id \in DOMAIN asked
             /\ answers' = Put(answers, m.id, [from |-> w, result |-> m.result])
      BY <2>0, <2>3 DEF OnOut
    <3> HIDE DEF m
    <3>3. ASSUME m.kind = "response", m.id \in DOMAIN asked,
                 answers' = Put(answers, m.id, [from |-> w, result |-> m.result])
          PROVE  AnswersInv'
      <4>1. ASSUME w \notin erred PROVE m.result = Due(asked, m.id)
        BY <1>3, <3>3, <4>1 DEF SaysRight, m
      <4>2. \A id \in DOMAIN answers :
              /\ id \in DOMAIN asked
              /\ answers[id].from \notin erred => answers[id].result = Due(asked, id)
        BY DEF TellInv, AnswersInv
      <4> DEFINE a == [from |-> w, result |-> m.result]
      <4>3. a.from = w /\ a.result = m.result
        OBVIOUS
      <4> HIDE DEF a
      <4>4. /\ DOMAIN answers' = DOMAIN answers \cup {m.id} /\ answers'[m.id] = a
            /\ \A id \in DOMAIN answers : id # m.id => answers'[id] = answers[id]
        BY <3>3 DEF Put, a
      <4>5. ASSUME NEW id \in DOMAIN answers'
            PROVE  /\ id \in DOMAIN asked
                   /\ answers'[id].from \notin erred => answers'[id].result = Due(asked, id)
        <5>1. CASE id = m.id
          BY <3>3, <4>1, <4>3, <4>4, <5>1
        <5>2. CASE id # m.id
          BY <4>2, <4>4, <5>2
        <5> QED BY <5>1, <5>2
      <4> QED BY <1>1, <1>2, <4>5 DEF AnswersInv
    <3>4. AnswersInv'
      BY <1>7, <3>2, <3>3
    <3> QED BY <1>6, <3>1, <3>4
  <2> QED BY <1>9, <2>1, <2>2, <2>3 DEF Deliver
<1> QED BY <1>8, <1>9

\* An error event: a worker that takes the place of the first is told what is
\* open, and what the first had yet to say counts no longer.
LEMMA DeliverErrorTell ==
  ASSUME Inv, TellInv, NEW w \in Workers, DeliverError(w) PROVE TellInv'
<1> USE DEF NoPort
<1>1. /\ errors' = [errors EXCEPT ![w] = @ - 1] /\ UNCHANGED <<outbox, erred>>
      /\ DOMAIN errors = Workers
  BY DEF DeliverError, Inv, ErrorInv
<1>2. /\ DOMAIN inbox = Workers /\ IsSeq(queued) /\ IsSeq(<<>>)
      /\ \A v \in Workers : IsSeq(inbox[v]) /\ IsSeq(outbox[v]) /\ IsSeq(thread[v].waiting)
  BY RightOne DEF TellInv, DataInv
<1>3. CASE ~Mine(w)
  <2>1. UNCHANGED <<port, ready, queued, nextId, documents, started, thread, inbox, asked, answers>>
        /\ port # w
    BY <1>3 DEF DeliverError, client, page, Mine
  <2>2. NewQuestions
    BY <2>1, NoNewQuestion DEF TellInv
  <2>3. DataInv'
    BY <1>1, <2>1 DEF TellInv, DataInv
  <2>4. FreshInv'
    <3>1. \A v \in Workers : port = v => errors'[v] = errors[v]
      BY <1>1, <2>1
    <3> QED BY <1>1, <2>1, <3>1 DEF TellInv, FreshInv
  <2>5. ServerInv'
    BY <1>1, <2>1 DEF TellInv, ServerInv, InService
  <2>6. OutInv' /\ AnswersInv'
    BY <1>1, <2>1, <2>2, OutStays, SaidLater
  <2> QED BY <2>3, <2>4, <2>5, <2>6 DEF TellInv
<1>4. CASE Mine(w)
  <2>1. port = w /\ restarts = w - 1 /\ started
    BY <1>4, WorkerInUse
  <2>2. Died /\ UNCHANGED <<documents, started, asked, answers>>
    BY <1>4 DEF DeliverError, Died
  <2>3. CASE restarts >= 1
    <3>1. /\ port' = NoPort /\ queued' = <<>> /\ nextId' = nextId
          /\ thread' = [thread EXCEPT ![w] = Gone] /\ inbox' = [inbox EXCEPT ![w] = <<>>]
      BY <2>1, <2>2, <2>3 DEF Died, Terminated
    <3>2. NewQuestions
      BY <2>2, <3>1, NoNewQuestion DEF TellInv
    <3>3. /\ thread'[w].state = "terminated" /\ thread'[w].waiting = <<>> /\ inbox'[w] = <<>>
          /\ \A v \in Workers : v # w => thread'[v] = thread[v] /\ inbox'[v] = inbox[v]
          /\ DOMAIN inbox' = Workers
      BY <1>2, <3>1 DEF Gone, Inv, ThreadsAreRecords
    <3>4. DataInv'
      <4>1. \A v \in Workers : IsSeq(inbox'[v]) /\ IsSeq(thread'[v].waiting)
        BY <1>2, <3>3
      <4> QED BY <1>1, <1>2, <2>2, <3>1, <3>3, <4>1 DEF TellInv, DataInv
    <3>5. FreshInv'
      BY <1>1, <2>1, <2>2, <3>1, <3>3 DEF TellInv, FreshInv, Workers
    <3>6. ServerInv'
      BY <3>1 DEF ServerInv, InService, Workers
    <3>7. OutInv' /\ AnswersInv'
      BY <1>1, <2>2, <3>2, OutStays, SaidLater
    <3> QED BY <3>4, <3>5, <3>6, <3>7 DEF TellInv
  <2>4. CASE ~(restarts >= 1)
    <3>1. w = 1 /\ restarts = 0 /\ 2 \in Workers /\ thread[2].state = "none"
      BY <2>1, <2>4 DEF Inv, LifeInv, State, Workers
    <3>2. PICK v \in Workers : v = 2 /\ v # w /\ thread[v].state = "none" /\ port + 1 = v
      BY <2>1, <3>1
    <3>3. /\ \E replay \in Replay : Spawn(v, replay)
          /\ thread' = [thread EXCEPT ![w] = Gone, ![v].state = "loading"]
          /\ inbox' = [inbox EXCEPT ![w] = <<>>]
      BY <2>1, <2>2, <2>4, <3>2 DEF Died
    <3>4. /\ thread'[w].state = "terminated" /\ thread'[w].waiting = <<>> /\ inbox'[w] = <<>>
          /\ thread'[v].state = "loading" /\ thread'[v].server = thread[v].server
          /\ thread'[v].waiting = thread[v].waiting /\ inbox'[v] = inbox[v]
          /\ DOMAIN inbox' = Workers
      BY <1>2, <3>2, <3>3 DEF Gone, Inv, ThreadsAreRecords
    <3>5. PICK replay \in Replay : Spawn(v, replay)
      BY <3>3
    <3>6. /\ NewQuestions /\ IsSeq(queued') /\ port' = v /\ ready' = FALSE
          /\ thread'[v].server = NewServer /\ thread'[v].waiting = <<>>
          /\ Brings(thread'[v].server, thread'[v].waiting, inbox'[v], queued',
                    documents', asked', nextId')
      BY <2>2, <3>2, <3>4, <3>5, SpawnedTell
    <3>7. \A x \in Workers : x = w \/ x = v
      BY <3>1, <3>2 DEF Workers
    <3>8. DataInv'
      <4>1. \A x \in Workers : IsSeq(inbox'[x]) /\ IsSeq(thread'[x].waiting)
        BY <1>2, <3>4, <3>6, <3>7
      <4>2. nextId' \in Nat \ {0} /\ \A id \in DOMAIN asked' : id \in Nat /\ 0 < id /\ id < nextId'
        BY <3>6 DEF NewQuestions
      <4>3. IsFiniteSet(DOMAIN documents')
        BY <2>2 DEF TellInv, DataInv
      <4> QED BY <1>1, <1>2, <3>4, <3>6, <4>1, <4>2, <4>3 DEF DataInv
    <3>9. FreshInv'
      <4>1. v \notin erred
        BY <3>2 DEF TellInv, FreshInv
      <4> QED BY <1>1, <2>1, <2>2, <3>2, <3>4, <3>6, <3>7, <4>1 DEF FreshInv
    <3>10. ServerInv'
      BY <3>2, <3>6, <3>7 DEF ServerInv, InService
    <3>11. OutInv' /\ AnswersInv'
      BY <1>1, <2>2, <3>6, OutStays, SaidLater
    <3> QED BY <3>8, <3>9, <3>10, <3>11 DEF TellInv
  <2> QED BY <2>3, <2>4
<1> QED BY <1>3, <1>4

-----------------------------------------------------------------------------
\* A thread's step: of the worker in use, the others doing nothing.
LEMMA ThreadTell == ASSUME Inv, TellInv, NEW w \in Workers, ThreadStep(w) PROVE TellInv'
<1> USE DEF NoPort
<1>0. /\ DOMAIN inbox = Workers /\ IsSeq(queued) /\ DOMAIN outbox = Workers
      /\ DOMAIN thread = Workers /\ DOMAIN errors = Workers
      /\ \A v \in Workers : /\ IsSeq(inbox[v]) /\ IsSeq(outbox[v]) /\ IsSeq(thread[v].waiting)
                            /\ errors[v] \in Nat
  BY DEF TellInv, DataInv, Inv, PostInv, ThreadsAreRecords, ErrorInv
<1>1. /\ UNCHANGED <<port, ready, queued, nextId, documents, started, asked, answers>>
      /\ erred \subseteq erred'
  BY DEF ThreadStep, Loads, LoadFails, Receive, Throw, client, page
<1>2. NewQuestions
  BY <1>1, NoNewQuestion DEF TellInv
<1>3. AnswersInv'
  BY <1>1, <1>2, SaidLater
<1>4. \A v \in Workers \ erred : \A i \in 1..Len(outbox[v]) : SaysRight(outbox[v][i], asked, nextId)
  BY DEF TellInv, OutInv
\* What a worker in service posts next is posted after what is right.
<1>5. ASSUME NEW ms, IsSeq(ms), outbox' = [outbox EXCEPT ![w] = outbox[w] \o ms], erred' = erred,
             w \notin erred => \A i \in 1..Len(ms) : SaysRight(ms[i], asked, nextId)
      PROVE  OutInv' /\ \A v \in Workers : IsSeq(outbox'[v])
  <2> DEFINE o == outbox[w]
             all == o \o ms
  <2>1. /\ IsSeq(all) /\ Len(o) \in Nat /\ Len(ms) \in Nat /\ Len(all) = Len(o) + Len(ms)
        /\ \A i \in 1..Len(o) : all[i] = o[i]
        /\ \A i \in 1..Len(ms) : all[Len(o) + i] = ms[i]
    <3>1. IsSeq(o)
      BY <1>0
    <3> HIDE DEF o
    <3> QED BY <1>5, <3>1, Joined
  <2>2. outbox'[w] = all /\ \A v \in Workers : v # w => outbox'[v] = outbox[v]
    BY <1>0, <1>5
  <2> HIDE DEF all
  <2>3. \A v \in Workers : IsSeq(outbox'[v])
    BY <1>0, <2>1, <2>2
  <2>4. ASSUME NEW v \in Workers \ erred, NEW i \in 1..Len(outbox'[v])
        PROVE  SaysRight(outbox'[v][i], asked, nextId)
    <3>1. CASE v # w
      BY <1>4, <2>2, <2>4, <3>1
    <3>2. CASE v = w
      <4>1. \A k \in 1..Len(o) : SaysRight(o[k], asked, nextId)
        BY <1>4, <3>2
      <4>2. \A k \in 1..Len(ms) : SaysRight(ms[k], asked, nextId)
        BY <1>5, <3>2
      <4>3. i \in 1..Len(all) /\ outbox'[v][i] = all[i]
        BY <2>2, <3>2
      <4> HIDE DEF o
      <4>4. CASE i \in 1..Len(o)
        BY <2>1, <4>1, <4>3, <4>4
      <4>5. CASE i \notin 1..Len(o)
        <5>1. i - Len(o) \in 1..Len(ms) /\ i = Len(o) + (i - Len(o))
          BY <2>1, <4>3, <4>5
        <5>2. PICK k \in 1..Len(ms) : i = Len(o) + k
          BY <5>1
        <5> QED BY <2>1, <4>2, <4>3, <5>2
      <4> QED BY <4>4, <4>5
    <3> QED BY <3>1, <3>2
  <2> QED BY <1>1, <1>5, <2>3, <2>4 DEF OutInv
<1>6. ASSUME thread[w].state \in {"loading", "up"}, w \notin erred
      PROVE  Brings(thread[w].server, thread[w].waiting, inbox[w], queued, documents, asked, nextId)
  <2>1. port = w
    BY <1>6 DEF Inv, LifeInv, State
  <2> QED BY <1>6, <2>1 DEF TellInv, ServerInv, InService
<1>7. CASE Loads(w)
  <2> DEFINE t == [state |-> "up", server |-> Handled(NewServer, thread[w].waiting), waiting |-> <<>>]
             first == <<[kind |-> "ready"]>>
             said == Answered(NewServer, thread[w].waiting)
             ms == first \o said
  <2>1. /\ thread[w].state = "loading" /\ thread' = [thread EXCEPT ![w] = t]
        /\ outbox' = [outbox EXCEPT ![w] = outbox[w] \o ms]
        /\ UNCHANGED <<inbox, errors, erred>>
    BY <1>0, <1>7 DEF Loads, Posted
  <2>2. thread[w].server = NewServer
    BY <2>1 DEF TellInv, FreshInv
  <2>3. t.state = "up" /\ t.waiting = <<>> /\ t.server = Handled(thread[w].server, thread[w].waiting)
    BY <2>2
  <2> HIDE DEF t
  <2>4. thread'[w] = t /\ \A v \in Workers : v # w => thread'[v] = thread[v]
    BY <1>0, <2>1
  <2>5. /\ IsSeq(ms)
        /\ w \notin erred => \A i \in 1..Len(ms) : SaysRight(ms[i], asked, nextId)
    <3>1. IsSeq(first) /\ Len(first) = 1 /\ SaysRight(first[1], asked, nextId)
      <4>1. IsSeq(first)
        BY RightOne
      <4> QED BY <4>1 DEF SaysRight
    <3>2. IsSeq(said)
      BY <1>0, AnsweredRight
    <3>3. ASSUME w \notin erred
          PROVE  \A i \in 1..Len(said) : SaysRight(said[i], asked, nextId)
      <4>1. AllRight(thread[w].server, thread[w].waiting, asked, nextId)
        BY <1>6, <2>1, <3>3 DEF Brings
      <4> QED BY <1>0, <2>2, <4>1, AnsweredRight
    <3> HIDE DEF first, said
    <3>4. /\ IsSeq(first \o said) /\ Len(said) \in Nat /\ Len(first \o said) = 1 + Len(said)
          /\ \A i \in 1..1 : (first \o said)[i] = first[i]
          /\ \A i \in 1..Len(said) : (first \o said)[1 + i] = said[i]
      <4>1. /\ IsSeq(first \o said) /\ Len(said) \in Nat /\ Len(first \o said) = Len(first) + Len(said)
            /\ \A i \in 1..Len(first) : (first \o said)[i] = first[i]
            /\ \A i \in 1..Len(said) : (first \o said)[Len(first) + i] = said[i]
        <5>1. PICK f, g : f = first /\ g = said
          OBVIOUS
        <5>2. IsSeq(f) /\ IsSeq(g)
          BY <3>1, <3>2, <5>1
        <5>3. /\ IsSeq(f \o g) /\ Len(g) \in Nat /\ Len(f \o g) = Len(f) + Len(g)
              /\ \A i \in 1..Len(f) : (f \o g)[i] = f[i]
              /\ \A i \in 1..Len(g) : (f \o g)[Len(f) + i] = g[i]
          BY <5>2, Joined
        <5> QED BY <5>1, <5>3
      <4> QED BY <3>1, <4>1
    <3>5. ASSUME w \notin erred, NEW i \in 1..Len(first \o said)
          PROVE  SaysRight((first \o said)[i], asked, nextId)
      <4>1. CASE i = 1
        BY <3>1, <3>4, <4>1
      <4>2. CASE i # 1
        <5>1. i - 1 \in 1..Len(said) /\ i = 1 + (i - 1)
          BY <3>4, <4>2
        <5>2. PICK k \in 1..Len(said) : i = 1 + k
          BY <5>1
        <5> QED BY <3>3, <3>4, <3>5, <5>2
      <4> QED BY <4>1, <4>2
    <3> QED BY <3>4, <3>5
  <2> HIDE DEF ms
  <2>6. OutInv' /\ \A v \in Workers : IsSeq(outbox'[v])
    BY <1>5, <2>1, <2>5
  <2>7. DataInv'
    <3>1. IsSeq(<<>>)
      BY RightOne
    <3>2. \A v \in Workers : IsSeq(thread'[v].waiting)
      BY <1>0, <2>3, <2>4, <3>1
    <3> QED BY <1>1, <2>1, <2>6, <3>2 DEF TellInv, DataInv
  <2>8. FreshInv'
    BY <1>1, <2>1, <2>3, <2>4 DEF TellInv, FreshInv
  <2>9. ServerInv'
    <3> SUFFICES ASSUME NEW v \in Workers, InService(v)'
                 PROVE  Brings(thread'[v].server, thread'[v].waiting, inbox[v], queued,
                               documents, asked, nextId)
      BY <1>1, <2>1 DEF ServerInv
    <3>1. v = w /\ w \notin erred
      BY <1>1, <2>1 DEF InService, Inv, LifeInv, State
    <3>2. Brings(Handled(thread[w].server, thread[w].waiting), <<>>, inbox[w], queued,
                 documents, asked, nextId)
      BY <1>6, <2>1, <3>1, BringsLoaded
    <3> QED BY <2>3, <2>4, <3>1, <3>2
  <2> QED BY <1>3, <2>6, <2>7, <2>8, <2>9 DEF TellInv
<1>8. CASE LoadFails(w)
  <2> DEFINE ms == <<[kind |-> "failed"]>>
  <2>1. /\ thread[w].state = "loading" /\ thread' = [thread EXCEPT ![w].state = "failed"]
        /\ outbox' = [outbox EXCEPT ![w] = outbox[w] \o ms]
        /\ UNCHANGED <<inbox, errors, erred>>
    BY <1>0, <1>8 DEF LoadFails, Posted
  <2>2. IsSeq(ms) /\ \A i \in 1..Len(ms) : SaysRight(ms[i], asked, nextId)
    <3>1. IsSeq(ms)
      BY RightOne
    <3>2. ASSUME NEW i \in 1..Len(ms) PROVE SaysRight(ms[i], asked, nextId)
      BY DEF SaysRight
    <3> QED BY <3>1, <3>2
  <2> HIDE DEF ms
  <2>3. OutInv' /\ \A v \in Workers : IsSeq(outbox'[v])
    BY <1>5, <2>1, <2>2
  <2>4. /\ thread'[w].state = "failed" /\ thread'[w].waiting = thread[w].waiting
        /\ \A v \in Workers : v # w => thread'[v] = thread[v]
    BY <2>1 DEF Inv, ThreadsAreRecords
  <2>5. DataInv'
    <3>1. \A v \in Workers : IsSeq(thread'[v].waiting)
      BY <1>0, <2>4
    <3> QED BY <1>1, <2>1, <2>3, <3>1 DEF TellInv, DataInv
  <2>6. FreshInv'
    BY <1>1, <2>1, <2>4 DEF TellInv, FreshInv
  <2>7. ServerInv'
    <3>1. port = w
      BY <2>1 DEF Inv, LifeInv, State
    <3> QED BY <1>1, <2>4, <3>1 DEF ServerInv, InService
  <2> QED BY <1>3, <2>3, <2>5, <2>6, <2>7 DEF TellInv
<1>9. CASE Receive(w)
  <2> DEFINE m == Head(inbox[w])
             rest == Tail(inbox[w])
  <2>1. /\ thread[w].state \in {"loading", "failed", "up"} /\ inbox[w] # <<>>
        /\ inbox' = [inbox EXCEPT ![w] = rest] /\ UNCHANGED <<errors, erred>>
    BY <1>9 DEF Receive
  <2>2. IsSeq(rest)
    BY <1>0, <2>1, Taken
  <2> HIDE DEF m, rest
  <2>3. /\ inbox'[w] = rest /\ DOMAIN inbox' = Workers
        /\ \A v \in Workers : v # w => inbox'[v] = inbox[v]
    BY <1>0, <2>1
  <2>p. port = w
    BY <2>1 DEF Inv, LifeInv, State
  <2>4. CASE thread[w].state = "up"
    <3> DEFINE after == ServerAfter(thread[w].server, m)
               ms == Outgoing(thread[w].server, m)
    <3>1. /\ thread' = [thread EXCEPT ![w].server = after]
          /\ outbox' = [outbox EXCEPT ![w] = outbox[w] \o ms]
      BY <1>0, <1>9, <2>4 DEF Receive, Posted, m
    <3>2. thread[w].waiting = <<>>
      BY <2>4 DEF TellInv, FreshInv
    <3>3. ASSUME w \notin erred
          PROVE  /\ Right(thread[w].server, m, asked, nextId)
                 /\ Brings(after, <<>>, rest, queued, documents, asked, nextId)
      <4>1. Brings(thread[w].server, <<>>, inbox[w], queued, documents, asked, nextId)
        BY <1>6, <2>4, <3>2, <3>3
      <4> QED BY <1>0, <2>1, <4>1, BringsTaken DEF m, rest
    <3>4. IsSeq(ms)
      BY OutgoingIsSeq
    <3>5. w \notin erred => \A i \in 1..Len(ms) : SaysRight(ms[i], asked, nextId)
      BY <3>3, OutgoingRight
    <3> HIDE DEF ms, after
    <3>6. OutInv' /\ \A v \in Workers : IsSeq(outbox'[v])
      BY <1>5, <2>1, <3>1, <3>4, <3>5
    <3>7. /\ thread'[w].server = after /\ thread'[w].waiting = <<>> /\ thread'[w].state = "up"
          /\ \A v \in Workers : v # w => thread'[v] = thread[v]
      BY <2>4, <3>1, <3>2 DEF Inv, ThreadsAreRecords
    <3>8. DataInv'
      <4>1. \A v \in Workers : IsSeq(thread'[v].waiting) /\ IsSeq(inbox'[v])
        BY <1>0, <2>2, <2>3, <3>2, <3>7
      <4> QED BY <1>1, <2>3, <3>6, <4>1 DEF TellInv, DataInv
    <3>9. FreshInv'
      BY <1>1, <2>1, <2>3, <3>7 DEF TellInv, FreshInv
    <3>10. ServerInv'
      BY <1>1, <2>1, <2>3, <2>p, <3>3, <3>7 DEF ServerInv, InService
    <3> QED BY <1>3, <3>6, <3>8, <3>9, <3>10 DEF TellInv
  <2>5. CASE thread[w].state # "up"
    <3> DEFINE kept == Append(thread[w].waiting, m)
    <3>1. thread' = [thread EXCEPT ![w].waiting = kept] /\ UNCHANGED outbox
      BY <1>9, <2>5 DEF Receive, m
    <3>2. IsSeq(kept)
      BY <1>0, Appended
    <3>3. ASSUME w \notin erred, thread[w].state = "loading"
          PROVE  Brings(thread[w].server, kept, rest, queued, documents, asked, nextId)
      <4>1. Brings(thread[w].server, thread[w].waiting, inbox[w], queued, documents, asked, nextId)
        BY <1>6, <3>3
      <4> QED BY <1>0, <2>1, <4>1, BringsKept DEF m, rest
    <3> HIDE DEF kept
    <3>4. /\ thread'[w].waiting = kept /\ thread'[w].server = thread[w].server
          /\ thread'[w].state = thread[w].state
          /\ \A v \in Workers : v # w => thread'[v] = thread[v]
      BY <3>1 DEF Inv, ThreadsAreRecords
    <3>5. OutInv'
      BY <1>2, <2>1, <3>1, OutStays
    <3>6. DataInv'
      <4>1. \A v \in Workers : IsSeq(thread'[v].waiting) /\ IsSeq(inbox'[v]) /\ IsSeq(outbox'[v])
        BY <1>0, <2>2, <2>3, <3>1, <3>2, <3>4
      <4> QED BY <1>1, <2>3, <4>1 DEF TellInv, DataInv
    <3>7. FreshInv'
      BY <1>1, <2>1, <2>3, <2>5, <3>4 DEF TellInv, FreshInv
    <3>8. ServerInv'
      BY <1>1, <2>1, <2>3, <2>5, <2>p, <3>3, <3>4 DEF ServerInv, InService
    <3> QED BY <1>3, <3>5, <3>6, <3>7, <3>8 DEF TellInv
  <2> QED BY <2>4, <2>5
<1>10. CASE Throw(w)
  <2>1. /\ errors' = [errors EXCEPT ![w] = @ + 1] /\ erred' = erred \cup {w}
        /\ outbox' = outbox /\ thread[w].state \in {"loading", "up"}
    BY <1>10 DEF Throw, client, page
  <2>2. /\ thread'[w].waiting = thread[w].waiting /\ thread'[w].state \in {"failed", "up"}
        /\ thread'[w].state = "up" => thread[w].state = "up"
        /\ \A v \in Workers : v # w => thread'[v] = thread[v] /\ inbox'[v] = inbox[v]
        /\ DOMAIN inbox' = Workers /\ IsSeq(inbox'[w])
    <3>1. CASE /\ thread[w].state = "loading" /\ thread' = [thread EXCEPT ![w].state = "failed"]
               /\ UNCHANGED inbox
      BY <1>0, <3>1 DEF Inv, ThreadsAreRecords
    <3>2. CASE /\ thread[w].state = "up" /\ inbox[w] # <<>>
               /\ inbox' = [inbox EXCEPT ![w] = Tail(@)]
               /\ thread' \in {thread, [thread EXCEPT ![w].server = ServerAfter(@, Head(inbox[w]))]}
      <4> DEFINE rest == Tail(inbox[w])
                 after == ServerAfter(thread[w].server, Head(inbox[w]))
      <4>1. IsSeq(rest)
        BY <1>0, <3>2, Taken
      <4>2. inbox' = [inbox EXCEPT ![w] = rest]
        BY <3>2
      <4>3. thread' = thread \/ thread' = [thread EXCEPT ![w].server = after]
        BY <3>2
      <4> HIDE DEF rest, after
      <4>4. /\ thread'[w].waiting = thread[w].waiting /\ thread'[w].state = "up"
            /\ \A v \in Workers : v # w => thread'[v] = thread[v]
        BY <3>2, <4>3 DEF Inv, ThreadsAreRecords
      <4> QED BY <1>0, <3>2, <4>1, <4>2, <4>4
    <3> QED BY <1>10, <3>1, <3>2 DEF Throw
  <2>3. port = w
    BY <2>1 DEF Inv, LifeInv, State
  <2>4. DataInv'
    <3>1. \A v \in Workers : IsSeq(thread'[v].waiting) /\ IsSeq(inbox'[v]) /\ IsSeq(outbox'[v])
      BY <1>0, <2>1, <2>2
    <3> QED BY <1>1, <2>2, <3>1 DEF TellInv, DataInv
  <2>5. FreshInv'
    <3>1. errors'[w] > 0 /\ \A v \in Workers : v # w => errors'[v] = errors[v]
      BY <1>0, <2>1
    <3> QED BY <1>1, <2>1, <2>2, <2>3, <3>1 DEF TellInv, FreshInv
  <2>6. ServerInv'
    BY <1>1, <2>1, <2>3 DEF ServerInv, InService
  <2>7. OutInv'
    BY <1>1, <1>2, <2>1, OutStays
  <2> QED BY <1>3, <2>4, <2>5, <2>6, <2>7 DEF TellInv
<1> QED BY <1>7, <1>8, <1>9, <1>10 DEF ThreadStep

-----------------------------------------------------------------------------
\* Every step keeps what is on its way bringing the server to the documents.
LEMMA TellStep == Inv /\ TellInv /\ [Next]_vars => TellInv'
<1> SUFFICES ASSUME Inv, TellInv, [Next]_vars PROVE TellInv'
  OBVIOUS
<1>1. CASE UNCHANGED vars
  <2>1. UNCHANGED <<port, ready, queued, nextId, documents, started, thread, inbox, outbox,
                    errors, erred, asked, answers>>
    BY <1>1 DEF vars, client, threads, page
  <2> QED BY <2>1 DEF TellInv, DataInv, FreshInv, ServerInv, InService, OutInv, AnswersInv
<1>2. CASE Start
  BY <1>2, StartTell
<1>3. ASSUME NEW u \in Uris,
             OpenDocument(u) \/ ChangeDocument(u) \/ CloseDocument(u) \/ Request(u)
      PROVE  TellInv'
  BY <1>3, EditorTell
<1>4. ASSUME NEW w \in Workers, Deliver(w) \/ DeliverError(w) \/ ThreadStep(w)
      PROVE  TellInv'
  BY <1>4, DeliverTell, DeliverErrorTell, ThreadTell
<1> QED BY <1>1, <1>2, <1>3, <1>4 DEF Next

\* The messages on their way to the worker in use bring it to exactly the
\* documents the page has open, at their last text, through the queue before
\* ready, closes, and the replay of a restart (lsp-client.ts:258, 270).
THEOREM ServerGetsDocuments == Spec => []ServerHasDocuments
<1>1. Inv /\ TellInv => ServerHasDocuments
  <2> SUFFICES ASSUME Inv, TellInv, port # NoPort, thread[port].state \in {"loading", "up"},
                      errors[port] = 0
               PROVE  LET t == thread[port]
                      IN  Handled(t.server, t.waiting \o inbox[port] \o queued).documents
                            = Docs(documents)
    BY DEF ServerHasDocuments, Docs
  <2>1. PICK w \in Workers : w = port
    BY DEF Inv, LifeInv, Workers, NoPort
  <2>2. w \notin erred
    BY <2>1 DEF TellInv, FreshInv
  <2> DEFINE t == thread[w]
             s1 == Handled(t.server, t.waiting)
             s2 == Handled(s1, inbox[w])
  <2>3. Handled(s2, queued).documents = Docs(documents)
    BY <2>1, <2>2 DEF TellInv, ServerInv, InService, Brings
  <2>4. IsSeq(t.waiting) /\ IsSeq(inbox[w]) /\ IsSeq(queued)
    BY DEF TellInv, DataInv
  <2>5. IsSeq(t.waiting \o inbox[w])
    BY <2>4, Joined
  <2>6. Handled(t.server, t.waiting \o inbox[w]) = s2
    BY <2>4, HandledParts
  <2>7. Handled(t.server, (t.waiting \o inbox[w]) \o queued) = Handled(s2, queued)
    <3> DEFINE both == t.waiting \o inbox[w]
    <3> HIDE DEF both, s2, t
    <3>1. Handled(t.server, both \o queued) = Handled(Handled(t.server, both), queued)
      BY <2>4, <2>5, HandledParts DEF both
    <3> QED BY <2>6, <3>1 DEF both
  <2> QED BY <2>1, <2>3, <2>7
<1> QED BY <1>1, InitInv, InvStep, InitTell, TellStep, PTL DEF Spec

\* The answer that settles a question is the one its document had when it was
\* asked, whatever was typed, closed, queued or restarted since
\* (document.rs:33, lib.rs:475).
THEOREM AnswersStayCurrent == Spec => []AnswersAreCurrent
<1>1. TellInv => AnswersAreCurrent
  BY DEF TellInv, AnswersInv, AnswersAreCurrent, Due
<1> QED BY <1>1, InitInv, InvStep, InitTell, TellStep, PTL DEF Spec
=============================================================================
