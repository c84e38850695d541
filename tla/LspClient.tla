------------------------------ MODULE LspClient ------------------------------
(***************************************************************************)
(* web/src/lsp-client.ts, the page's half of the language server, with the *)
(* worker threads of lsp-worker.ts it starts: at most one at a time, and   *)
(* one more when it dies.  A thread that was terminated does nothing more, *)
(* but what it had posted is still delivered.                              *)
(***************************************************************************)
EXTENDS LanguageServer, FiniteSets

CONSTANTS
  Uris,         \* the documents the page may open
  MaxEdits,     \* opens, changes and closes
  MaxRequests,  \* questions of the page
  MaxThrows     \* messages whose handling throws, scripts that do not load

ASSUME BoundsAssumption ==
  /\ MaxEdits \in Nat
  /\ MaxRequests \in Nat
  /\ MaxThrows \in Nat
  /\ Uris # {}

VARIABLES
  port,         \* the worker in use, NoPort for none
  ready,
  queued,       \* messages held back until ready
  nextId,
  pending,      \* the ids no answer has come for
  documents,    \* what is open: uri -> [version, text]
  restarts,
  off,
  restarting,
  started,
  notice,       \* the last thing the user was told
  thread,       \* worker -> [state, server, waiting]
  inbox,        \* worker -> what was posted to it
  outbox,       \* worker -> what it has posted
  errors,       \* worker -> error events not yet delivered
  erred,        \* the workers that had one
  shown,        \* uri -> the text whose diagnostics its editor shows
  asked,        \* id -> what a fresh server would answer from when it was asked
  answers,      \* id -> the answer that resolved it, and the worker it is from
  edits, throws

client == <<port, ready, queued, nextId, pending, documents, restarts, off, restarting, started>>
threads == <<thread, inbox, outbox, errors, erred, throws>>
page == <<notice, shown, asked, answers, edits>>
vars == <<client, threads, page>>

Workers == 1..2         \* more are never started
NoPort == 0

(***************************************************************************)
(* What the client posts.                                                  *)
(***************************************************************************)
Initialize(id) == Message("initialize", id, "", 0, NoText)
Initialized == Message("initialized", 0, "", 0, NoText)
DidOpen(uri, version, text) == Message("didOpen", 0, uri, version, text)

Send(messages) ==
  IF port = NoPort \/ ~ready
  THEN queued' = queued \o messages /\ UNCHANGED inbox
  ELSE inbox' = [inbox EXCEPT ![port] = @ \o messages] /\ UNCHANGED queued

Notify(message) == IF off THEN UNCHANGED <<queued, inbox>> ELSE Send(<<message>>)

Init ==
  /\ port = NoPort /\ ready = FALSE /\ queued = <<>> /\ nextId = 1 /\ pending = {}
  /\ documents = <<>> /\ restarts = 0 /\ off = FALSE /\ restarting = FALSE /\ started = FALSE
  /\ notice = ""
  /\ thread = [w \in Workers |-> [state |-> "none", server |-> NewServer, waiting |-> <<>>]]
  /\ inbox = [w \in Workers |-> <<>>] /\ outbox = [w \in Workers |-> <<>>]
  /\ errors = [w \in Workers |-> 0] /\ erred = {}
  /\ shown = [u \in Uris |-> NoText] /\ asked = <<>> /\ answers = <<>>
  /\ edits = 0 /\ throws = 0

\* terminate(): the thread is gone, with what it had not yet received.
Gone == [state |-> "terminated", server |-> NewServer, waiting |-> <<>>]
Terminated(w) ==
  /\ thread' = [thread EXCEPT ![w] = Gone]
  /\ inbox' = [inbox EXCEPT ![w] = <<>>]

\* Mutant: what was asked of the worker before goes on waiting.
SpawnKeepsPending(w, replay) ==
  /\ port' = w
  /\ ready' = FALSE
  /\ queued' = <<Initialize(nextId), Initialized>> \o replay
  /\ pending' = pending \cup {nextId}
  /\ nextId' = nextId + 1

\* start, with what is sent after it in the same call.
Spawn(w, replay) ==
  /\ port' = w
  /\ ready' = FALSE
  /\ queued' = <<Initialize(nextId), Initialized>> \o replay
  /\ pending' = {nextId}
  /\ nextId' = nextId + 1

\* The page starts the client once, before any editor exists.
Start ==
  /\ ~started
  /\ started' = TRUE
  /\ Spawn(1, <<>>)
  /\ thread' = [thread EXCEPT ![1].state = "loading"]
  /\ UNCHANGED <<documents, restarts, off, restarting, inbox, outbox, errors, erred, throws, page>>

(***************************************************************************)
(* The editors.                                                            *)
(***************************************************************************)
Editing(uri) == started /\ edits < MaxEdits /\ edits' = edits + 1

\* A new editor's document, also while another editor has it open, whose place
\* it takes: its gutter is empty.
OpenDocument(uri) ==
  /\ Editing(uri)
  /\ documents' = Put(documents, uri, [version |-> 1, text |-> edits'])
  /\ shown' = [shown EXCEPT ![uri] = NoText]
  /\ Notify(DidOpen(uri, 1, edits'))
  /\ UNCHANGED <<port, ready, nextId, pending, restarts, off, restarting, started, thread, outbox,
                 errors, erred, throws, notice, asked, answers>>

ChangeDocument(uri) ==
  /\ Editing(uri)
  /\ uri \in DOMAIN documents
  /\ documents' = [documents EXCEPT ![uri] = [version |-> @.version + 1, text |-> edits']]
  /\ Notify(Message("didChange", 0, uri, documents'[uri].version, edits'))
  /\ UNCHANGED <<port, ready, nextId, pending, restarts, off, restarting, started, thread, outbox,
                 errors, erred, throws, notice, shown, asked, answers>>

\* The document leaves the replay set, and its editor is gone.
CloseDocument(uri) ==
  /\ Editing(uri)
  /\ uri \in DOMAIN documents
  /\ documents' = Restrict(documents, DOMAIN documents \ {uri})
  /\ shown' = [shown EXCEPT ![uri] = NoText]
  /\ Notify(Message("didClose", 0, uri, 0, NoText))
  /\ UNCHANGED <<port, ready, nextId, pending, restarts, off, restarting, started, thread, outbox,
                 errors, erred, throws, notice, asked, answers>>

\* format, documentSymbols, hover, definition, references.
Request(uri) ==
  /\ started /\ ~off
  /\ Cardinality(DOMAIN asked) < MaxRequests
  /\ nextId' = nextId + 1
  /\ pending' = pending \cup {nextId}
  /\ Send(<<Message("request", nextId, uri, 0, NoText)>>)
  /\ asked' = Put(asked, nextId, IF uri \in DOMAIN documents THEN documents[uri].text ELSE NoText)
  /\ UNCHANGED <<port, ready, documents, restarts, off, restarting, started, thread, outbox, errors,
                 erred, throws, notice, shown, answers, edits>>

(***************************************************************************)
(* What the client receives.                                               *)
(***************************************************************************)
\* Mutant: every worker's events count as the one's in use.
MineAny(w) == port # NoPort
\* A worker that was terminated may still have events under way.
Mine(w) == port = w

\* The module will not load, so there is nothing to restart.
OnFailed ==
  /\ off' = TRUE
  /\ restarting' = FALSE
  /\ Terminated(port)
  /\ port' = NoPort
  /\ pending' = {}
  /\ notice' = "unavailable"
  /\ UNCHANGED <<ready, queued, nextId, documents, restarts, started, shown, asked, answers, edits>>

OnReady ==
  /\ ready' = TRUE
  /\ inbox' = [inbox EXCEPT ![port] = @ \o queued]
  /\ queued' = <<>>
  /\ restarting' = FALSE
  /\ notice' = IF restarting THEN "back" ELSE notice
  /\ UNCHANGED <<port, nextId, pending, documents, restarts, off, started, thread, shown, asked,
                 answers, edits>>

\* An answer nobody waits for, and diagnostics of a closed document, are dropped.
OnOut(m) ==
  /\ IF m.kind = "response" /\ m.id \in pending
     THEN /\ pending' = pending \ {m.id}
          /\ answers' = IF m.id \in DOMAIN asked
                       THEN Put(answers, m.id, [from |-> port, result |-> m.result]) ELSE answers
     ELSE UNCHANGED <<pending, answers>>
  /\ shown' = IF m.kind = "diagnostics" /\ m.uri \in DOMAIN documents
              THEN [shown EXCEPT ![m.uri] = m.text] ELSE shown
  /\ UNCHANGED <<port, ready, queued, inbox, nextId, documents, restarts, off, restarting, started,
                 thread, notice, asked, edits>>

Deliver(w) ==
  /\ outbox[w] # <<>>
  /\ outbox' = [outbox EXCEPT ![w] = Tail(@)]
  /\ LET m == Head(outbox[w])
     IN  IF ~Mine(w) THEN UNCHANGED <<client, thread, inbox, page>>
         ELSE \/ m.kind = "failed" /\ OnFailed
              \/ m.kind = "ready" /\ OnReady
              \/ m.kind \in {"response", "diagnostics"} /\ OnOut(m)
  /\ UNCHANGED <<errors, erred, throws>>

\* Mutants: a restarted server is told of no document, or of changes of
\* documents it never had.
ReplayNothing == {<<>>}
ReplayAsChanges ==
  {[i \in 1..Cardinality(DOMAIN documents) |->
      Message("didChange", 0, order[i], documents[order[i]].version, documents[order[i]].text)]
     : order \in [1..Cardinality(DOMAIN documents) -> DOMAIN documents]}
\* The didOpens of a restart, in some order.
Replay ==
  LET open == DOMAIN documents
      n    == Cardinality(open)
  IN  {[i \in 1..n |-> DidOpen(order[i], documents[order[i]].version, documents[order[i]].text)]
         : order \in {f \in [1..n -> open] : \A i, j \in 1..n : f[i] = f[j] => i = j}}

\* Every pending request is rejected.  The first death starts a new worker
\* and tells it the open documents, the second turns the client off.
Died ==
  /\ IF restarts >= 1
     THEN /\ off' = TRUE
          /\ notice' = "stopped twice"
          /\ Terminated(port)
          /\ port' = NoPort /\ ready' = FALSE /\ queued' = <<>> /\ pending' = {}
          /\ UNCHANGED <<nextId, restarts, restarting>>
     ELSE /\ restarts' = restarts + 1
          /\ restarting' = TRUE
          /\ \E replay \in Replay : Spawn(port + 1, replay)
          /\ thread' = [thread EXCEPT ![port] = Gone, ![port + 1].state = "loading"]
          /\ inbox' = [inbox EXCEPT ![port] = <<>>]
          /\ UNCHANGED <<off, notice>>
  /\ UNCHANGED <<documents, started, shown, asked, answers, edits>>

DeliverError(w) ==
  /\ errors[w] > 0
  /\ errors' = [errors EXCEPT ![w] = @ - 1]
  /\ IF Mine(w) THEN Died ELSE UNCHANGED <<client, thread, inbox, page>>
  /\ UNCHANGED <<outbox, erred, throws>>

(***************************************************************************)
(* The worker's thread.                                                    *)
(***************************************************************************)
Posted(w, messages) == outbox' = [outbox EXCEPT ![w] = @ \o messages]

\* What a server posts for a sequence of messages.
Answered(server, messages) ==
  FlattenSeq([i \in DOMAIN messages |->
                Outgoing(Handled(server, SubSeq(messages, 1, i - 1)), messages[i])])

\* init() resolves: the server exists, and what came before it is answered.
Loads(w) ==
  /\ thread[w].state = "loading"
  /\ thread' = [thread EXCEPT ![w] = [state |-> "up", server |-> Handled(NewServer, @.waiting),
                                      waiting |-> <<>>]]
  /\ Posted(w, <<[kind |-> "ready"]>> \o Answered(NewServer, thread[w].waiting))
  /\ UNCHANGED <<client, page, inbox, errors, erred, throws>>

\* init() rejects.
LoadFails(w) ==
  /\ thread[w].state = "loading"
  /\ thread' = [thread EXCEPT ![w].state = "failed"]
  /\ Posted(w, <<[kind |-> "failed"]>>)
  /\ UNCHANGED <<client, page, inbox, errors, erred, throws>>

\* The message listener; before the server exists a message waits.
Receive(w) ==
  /\ thread[w].state \in {"loading", "failed", "up"}
  /\ inbox[w] # <<>>
  /\ inbox' = [inbox EXCEPT ![w] = Tail(@)]
  /\ LET m == Head(inbox[w])
     IN  IF thread[w].state = "up"
         THEN /\ thread' = [thread EXCEPT ![w].server = ServerAfter(@, m)]
              /\ Posted(w, Outgoing(thread[w].server, m))
         ELSE thread' = [thread EXCEPT ![w].waiting = Append(@, m)] /\ UNCHANGED outbox
  /\ UNCHANGED <<client, page, errors, erred, throws>>

\* An uncaught throw, out of the handling of a message or out of the script:
\* the message is lost, its effect on the server done or not, and the thread
\* goes on.
Throw(w) ==
  /\ throws < MaxThrows
  /\ throws' = throws + 1
  /\ \/ thread[w].state = "loading" /\ thread' = [thread EXCEPT ![w].state = "failed"] /\ UNCHANGED inbox
     \/ /\ thread[w].state = "up" /\ inbox[w] # <<>>
        /\ inbox' = [inbox EXCEPT ![w] = Tail(@)]
        /\ thread' \in {thread, [thread EXCEPT ![w].server = ServerAfter(@, Head(inbox[w]))]}
  /\ errors' = [errors EXCEPT ![w] = @ + 1]
  /\ erred' = erred \cup {w}
  /\ UNCHANGED <<client, page, outbox>>

ThreadStep(w) == Loads(w) \/ LoadFails(w) \/ Receive(w) \/ Throw(w)

Next ==
  \/ Start
  \/ \E u \in Uris : OpenDocument(u) \/ ChangeDocument(u) \/ CloseDocument(u) \/ Request(u)
  \/ \E w \in Workers : Deliver(w) \/ DeliverError(w) \/ ThreadStep(w)

\* Both threads run on and the browser delivers what was posted; whether and
\* when the page's user does anything is open.
Fairness ==
  /\ WF_vars(Start)
  /\ \A w \in Workers :
       /\ WF_vars(Deliver(w))
       /\ WF_vars(DeliverError(w))
       /\ WF_vars(ThreadStep(w))

Spec == Init /\ [][Next]_vars /\ Fairness
-----------------------------------------------------------------------------
(***************************************************************************)
(* Properties.                                                             *)
(***************************************************************************)
\* Once it has handled what is on its way, the worker in use holds exactly the
\* page's documents at their last text, its caches built from that text:
\* through the queue before ready, closes, and the replay of a restart
\* (lsp-client.ts:258, 270).  A worker that threw is about to be replaced.
ServerHasDocuments ==
  port # NoPort /\ thread[port].state \in {"loading", "up"} /\ errors[port] = 0 =>
    LET t == thread[port]
    IN  Handled(t.server, t.waiting \o inbox[port] \o queued).documents
          = [u \in DOMAIN documents |-> NewDocument(documents[u].version, documents[u].text)]

\* A question is answered from the text its document had when it was asked, by
\* a server that was initialised first, whatever was typed, closed, queued or
\* restarted since (document.rs:33, lib.rs:475).
AnswersAreCurrent ==
  \A id \in DOMAIN answers :
    answers[id].from \notin erred =>
      answers[id].result = [text |-> asked[id], nav |-> asked[id], tree |-> TRUE]

\* What the user was last told holds: features are back only with a server
\* that answers, and are off for good only after two workers died or one could
\* not be loaded; two events of one dead worker are one death
\* (lsp-client.ts:153, 207, 241).
NoticesAreTrue ==
  /\ notice = "back" => ready /\ ~off /\ thread[port].state = "up"
  /\ notice = "stopped twice" => off /\ erred = Workers
  /\ notice = "unavailable" => off
  /\ off => notice \in {"stopped twice", "unavailable"}

\* Every question is settled, answered or rejected, without a timer: a worker
\* that dies or never loads rejects what waits for it (lsp-client.ts:265).  And
\* once the page stops editing, every editor shows the diagnostics of its last
\* text, or language features are off.
EverythingSettles ==
  /\ \A id \in 1..(MaxRequests + 2) : (id \in pending) ~> (id \notin pending)
  /\ <>[](off \/ \A u \in DOMAIN documents : shown[u] = documents[u].text)
=============================================================================
