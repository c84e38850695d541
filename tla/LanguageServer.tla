--------------------------- MODULE LanguageServer ---------------------------
(***************************************************************************)
(* The language server of crates/redextape-lsp: what one message of the    *)
(* client does to the documents it holds, and what it answers.             *)
(*                                                                         *)
(* A document is [version, text, index, nav].  index and nav are the line  *)
(* and name indexes cached beside the text; each is named by the text it   *)
(* was built from.  Diagnostics too are named by the text they are about.  *)
(* Every document is in a language the server serves.                      *)
(***************************************************************************)
EXTENDS Integers, Sequences, SequencesExt, Functions

NoText == 0         \* an untracked document, the clean list, and the answer null

Message(method, id, uri, version, text) ==
  [method |-> method, id |-> id, uri |-> uri, version |-> version, text |-> text]
Response(id, result) == [kind |-> "response", id |-> id, result |-> result]
Diagnostics(uri, text) == [kind |-> "diagnostics", uri |-> uri, text |-> text]

NewServer == [documents |-> <<>>, hierarchical |-> FALSE]

NewDocument(version, text) == [version |-> version, text |-> text, index |-> text, nav |-> text]

\* Mutant: the cached indexes stay those of the text replaced.
ReplacedTextOnly(doc, version, text) == [doc EXCEPT !.version = version, !.text = text]
\* Both caches are rebuilt with the text.
Replaced(doc, version, text) ==
  [doc EXCEPT !.version = version, !.text = text, !.index = text, !.nav = text]

\* A map with one entry put in.
Put(f, x, v) == [y \in DOMAIN f \cup {x} |-> IF y = x THEN v ELSE f[y]]

Opened(docs, m) == Put(docs, m.uri, NewDocument(m.version, m.text))
\* A change of a document that was never opened is left alone.
Changed(docs, m) ==
  IF m.uri \in DOMAIN docs THEN [docs EXCEPT ![m.uri] = Replaced(@, m.version, m.text)] ELSE docs
Closed(docs, m) == Restrict(docs, DOMAIN docs \ {m.uri})

DocumentsAfter(docs, m) ==
  CASE m.method = "didOpen" -> Opened(docs, m)
    [] m.method = "didChange" -> Changed(docs, m)
    [] m.method = "didClose" -> Closed(docs, m)
    [] m.method \notin {"didOpen", "didChange", "didClose"} -> docs

ServerAfter(server, m) ==
  [documents |-> DocumentsAfter(server.documents, m),
   hierarchical |-> server.hierarchical \/ m.method = "initialize"]

\* What a question about a document is answered from.
Answer(server, m) ==
  IF m.uri \notin DOMAIN server.documents THEN [text |-> NoText, nav |-> NoText, tree |-> server.hierarchical]
  ELSE [text |-> server.documents[m.uri].index, nav |-> server.documents[m.uri].nav,
        tree |-> server.hierarchical]

\* Always a notification, also of an untracked document: the empty list is
\* what clears the one before.
Publish(docs, uri) == Diagnostics(uri, IF uri \in DOMAIN docs THEN docs[uri].text ELSE NoText)

\* A request is answered once, a notification never.
Outgoing(server, m) ==
  IF m.method \in {"didOpen", "didChange", "didClose"}
  THEN <<Publish(DocumentsAfter(server.documents, m), m.uri)>>
  ELSE IF m.id # 0 THEN <<Response(m.id, Answer(server, m))>>
  ELSE <<>>

\* The server once it has handled a sequence of messages.
Handled(server, messages) ==
  LET after[n \in 0..Len(messages)] ==
        IF n = 0 THEN server ELSE ServerAfter(after[n - 1], messages[n])
  IN  after[Len(messages)]
=============================================================================
