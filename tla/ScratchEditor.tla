--------------------------- MODULE ScratchEditor ---------------------------
(***************************************************************************)
(* The editor of one copy's text: a document, a debounced send and a        *)
(* format that answers later.  A text is a number: a later one was typed,   *)
(* or formatted, later.  The sink of an editor is its copy's, `of', for     *)
(* good; `at' is the view it is mounted on, or one of the two places below. *)
(***************************************************************************)
EXTENDS Integers

NoText == -1

Held == 0     \* in custody: mounted nowhere, found under its copy
Loose == -1   \* neither mounted nor in custody, and never destroyed

Editor(c, place, t) ==
    [of |-> c, at |-> place, doc |-> t,
     timer |-> FALSE,      \* the debounce is running
     owed |-> NoText,      \* what a format took off the debounce
     asked |-> NoText]     \* the document a format in flight was asked for

(* An edit not handed over yet, and the text `flush' would hand over.       *)
Owes(e) == e.timer \/ e.owed # NoText
Due(e) == IF e.timer THEN e.doc ELSE e.owed

\* Mutant: what a format took off the debounce is still owed after a flush.
FlushedTimer(e) == [e EXCEPT !.timer = FALSE]
Flushed(e) == [e EXCEPT !.timer = FALSE, !.owed = NoText]

Typed(e, t) == [e EXCEPT !.doc = t, !.timer = TRUE]

(* A build's answer never replaces what is still owed.                      *)
SetText(e, t) == IF Owes(e) THEN e ELSE [e EXCEPT !.doc = t]

Asking(e) ==
    [e EXCEPT !.timer = FALSE,
              !.owed = IF e.timer THEN e.doc ELSE @,
              !.asked = e.doc]

(* The format answers and the document is then t: an applied edit is a      *)
(* change like a key's, and starts the debounce.                            *)
Answered(e, t) ==
    [e EXCEPT !.doc = t, !.timer = @ \/ t # e.doc,
              !.owed = NoText, !.asked = NoText]
HandsOver(e, t) == e.owed # NoText \/ t # e.asked
=============================================================================
