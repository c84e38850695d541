--------------------------- MODULE ScratchCopies ---------------------------
(***************************************************************************)
(* The copies of a page: made from the program, typed into, formatted,      *)
(* paused, resumed, deleted and brought back, while views of one leg come   *)
(* to show them and leave, their workers answer, and the page is loaded     *)
(* again.  Each action is one event of the page, run to its end; what it    *)
(* stored is all that a reload finds.                                       *)
(***************************************************************************)
EXTENDS EditorCustody

CONSTANTS MaxText,   \* bound on the texts
          Setups     \* the pages looked at, and how far each is followed

(* The leg and the cap of warm copies are the program's; the others are     *)
(* bounds: on copies, texts and reloads, on whether builds and workers may  *)
(* fail and whether texts are formatted.                                    *)
ASSUME SetupsAssumption ==
    /\ MaxText \in Nat \ {0}
    /\ \A s \in Setups :
          /\ s.leg \in {"lambda", "machine"} /\ s.cap \in Nat \ {0}
          /\ s.copies \in Copies /\ s.texts \in 1..MaxText /\ s.reloads \in Nat
          /\ {s.failures, s.formats} \subseteq BOOLEAN

VARIABLES
    setup,                    \* the page this is, fixed from the start
    minted, text, worker,     \* the registry of copies
    shows, claims, editors,   \* the views and the editors
    stored,                   \* the page's storage
    undo,                     \* the delete the notice line can take back
    newest,                   \* the last text made, so that texts are told apart
    meant,                    \* each copy's text as its user last saw it
    reloads

registry == <<minted, text, worker>>
desk == <<shows, claims, editors>>
vars == <<setup, minted, text, worker, shows, claims, editors, stored, undo, newest,
          meant, reloads>>

Texts == Seed..MaxText
NoUndo == [copy |-> 0, text |-> NoText, views |-> {}]

Page == [setup |-> setup, minted |-> minted, text |-> text, worker |-> worker, shows |-> shows,
         claims |-> claims, editors |-> editors, thrown |-> FALSE]
IsLambda == setup.leg = "lambda"

(* The page after an event that ends by storing what it holds.              *)
Becomes(p) ==
    /\ minted' = p.minted /\ text' = p.text /\ worker' = p.worker
    /\ shows' = p.shows /\ claims' = p.claims /\ editors' = p.editors
    /\ stored' = Snapshot(p)

Init ==
    /\ setup \in Setups
    /\ minted = 0
    /\ text = [c \in Copies |-> NoText]
    /\ worker = [c \in Copies |-> Asleep]
    /\ shows = [l \in Views |-> IF l = 1 THEN Source ELSE Closed]
    /\ claims = [c \in Copies |-> Nobody]
    /\ editors = {}
    /\ stored = Snapshot(Page)
    /\ undo = NoUndo
    /\ newest = Derived
    /\ meant = [c \in Copies |-> NoText]
    /\ reloads = 0

-----------------------------------------------------------------------------
(* The views.  Every one of these gestures ends in a notice, which takes    *)
(* the place of an undo on offer.                                           *)

NoticeWith(u) == undo' = u /\ UNCHANGED <<setup, newest, meant, reloads>>
(* A sweep that throws ends its gesture: the page is stored and drawn, but  *)
(* the notice is not given.                                                 *)
Swept(p, u) == Becomes(p) /\ NoticeWith(IF p.thrown THEN undo ELSE u)
Unseen == UNCHANGED <<setup, undo, newest, meant, reloads>>

(* A copy is made from the view's own program, at a step or at the start.   *)
(* A blank one has no view yet, and is never a lambda copy.                 *)
Fork(l, t) ==
    /\ shows[l] = Source
    /\ HasRoom(Page)
    /\ minted < setup.copies
    /\ LET p == Mint(Page, t)
       IN  Becomes(Claim([p EXCEPT !.shows[l] = p.minted], p.minted, l))
    /\ NoticeWith(NoUndo)

ForkBlank ==
    /\ ~IsLambda
    /\ HasRoom(Page)
    /\ minted < setup.copies
    /\ Becomes(Mint(Page, Seed))
    /\ NoticeWith(NoUndo)

(* A split or an added view, showing the program or a warm copy.            *)
OpenView(l, s) ==
    /\ shows[l] = Closed
    /\ \E order \in Orders :
          LET p == DropClaimsOn([Page EXCEPT !.shows[l] = s], l)
          IN  Swept(Reconcile(IF s = Source THEN p ELSE MountScratchEditor(p, l, s),
                              order), NoUndo)

(* The view goes, and a machine copy's editor with it: it is mounted anew   *)
(* on the first view still showing the copy.                                *)
CloseView(l) ==
    /\ shows[l] # Closed
    /\ \E order \in Orders :
          LET p == [LetGo(Page, l) EXCEPT !.shows[l] = Closed]
              lost == ~IsLambda /\ On(Page, l) # {}
          IN  Swept(Reconcile(IF lost THEN MountOnViewOf(p, shows[l]) ELSE p, order),
                    NoUndo)

(* The view is moved to another session of its leg.  No sweep follows.      *)
Rebind(l, s) ==
    /\ shows[l] \notin {Closed, s}
    /\ LET p == [LetGo(Page, l) EXCEPT !.shows[l] = s]
           q == IF s = Source THEN p ELSE MountScratchEditor(p, l, s)
           lost == ~IsLambda /\ On(Page, l) # {}
       IN  Becomes(IF lost THEN MountOnViewOf(q, shows[l]) ELSE q)
    /\ NoticeWith(NoUndo)

(* "Move the editor here", offered on a view of a copy that has one elsewhere. *)
ShowEditor(l) ==
    /\ shows[l] \in Copies
    /\ On(Page, l) = {}
    /\ HasEditor(Page, shows[l])
    /\ \E order \in Orders : Becomes(Reconcile(Claim(Page, shows[l], l), order))
    /\ Unseen

(* Any other gesture that lays the page out again.                          *)
ApplyLayout ==
    /\ \E order \in Orders : Becomes(Reconcile(Page, order))
    /\ Unseen

-----------------------------------------------------------------------------
(* The copies menu.                                                         *)

Pause(c) ==
    /\ c \in Warm(Page)
    /\ \E order \in Orders :
          Swept(Draw(Reconcile(Cool(FlushCopy(Page, c), c, Source), order)), NoUndo)

Resume(c) ==
    /\ c \in Known(Page) \ Warm(Page)
    /\ HasRoom(Page)
    /\ \E order \in Orders : Swept(Reconcile(Warmed(Page, c), order), NoUndo)

(* At the cap the copy stays paused, and the notice says so.                *)
ResumeRefused(c) ==
    /\ c \in Known(Page) \ Warm(Page)
    /\ ~HasRoom(Page)
    /\ NoticeWith(NoUndo)
    /\ UNCHANGED <<registry, desk, stored>>

Delete(c) ==
    /\ c \in Known(Page)
    /\ LET p == FlushCopy(Page, c)
       IN  \E order \in Orders :
              Swept(Draw(Reconcile(Retire(p, c, Source), order)),
                    [copy |-> c, text |-> p.text[c], views |-> ViewsOf(p, c)])

(* The views a delete moved to the program go back to the copy, and the     *)
(* first of them mounts its editor.  The claim moved back last only matters *)
(* to the undo of an opened link, which is not modelled.                    *)
MoveBack(p, c, views) ==
    LET back(q, l) == IF l \notin views \/ q.shows[l] # Source THEN q
                      ELSE MountScratchEditor([q EXCEPT !.shows[l] = c], l, c)
    IN  InTurn(p, Leaves, back)

Undo ==
    /\ undo # NoUndo
    /\ LET c == undo.copy
           p == Reinstate(Page, c, undo.text)
       IN  Becomes(IF HasRoom(p) THEN MoveBack(Warmed(p, c), c, undo.views) ELSE p)
    /\ NoticeWith(NoUndo)

-----------------------------------------------------------------------------
(* The editors.  A text newly typed or formatted is what its copy's user    *)
(* means from then on.                                                      *)

Means(c, t) == newest' = t /\ meant' = [meant EXCEPT ![c] = t]

Type(e) ==
    /\ e.at \in Views
    /\ newest < setup.texts
    /\ editors' = (editors \ {e}) \cup {Typed(e, newest + 1)}
    /\ Means(e.of, newest + 1)
    /\ UNCHANGED <<setup, registry, shows, claims, stored, undo, reloads>>

(* The debounces are all as long, so they run out in the order they began.  *)
DebounceFires(e) ==
    /\ e.timer
    /\ \A f \in editors : f.timer => e.doc <= f.doc
    /\ Becomes(Flush(Page, e))
    /\ Unseen

(* A format is asked for, from the menu or by leaving the editor; one at a  *)
(* time of each editor.                                                     *)
AskFormat(e) ==
    /\ setup.formats
    /\ e.at \in Views
    /\ e.asked = NoText
    /\ editors' = (editors \ {e}) \cup {Asking(e)}
    /\ UNCHANGED <<setup, registry, shows, claims, stored, undo, newest, meant,
                   reloads>>

(* Its edits apply only to the document it was asked for.                   *)
FormatAnswers(e) ==
    /\ e.asked # NoText
    /\ \E t \in {e.doc} \cup (IF e.doc = e.asked /\ newest < setup.texts
                              THEN {newest + 1} ELSE {}) :
          LET p == Change(Page, e, Answered(e, t))
          IN  /\ Becomes(IF HandsOver(e, t) THEN Recompile(p, e.of, t) ELSE p)
              /\ IF t = e.doc THEN UNCHANGED <<newest, meant>> ELSE Means(e.of, t)
    /\ UNCHANGED <<setup, undo, reloads>>

-----------------------------------------------------------------------------
(* The workers.                                                             *)

AnswerOf(p, c) == [p EXCEPT !.worker[c].posts = Tail(@)]
\* Mutant: every reply is taken for the last one's.
AnyReply(p, c) == TRUE
IsCurrent(p, c) == Len(p.worker[c].posts) = 1

\* Mutant: the text is recorded by way of the editor only.
LandAtHome(p, c, t) ==
    LET home == HomeFor(p, c)
        q == [AnswerOf(p, c) EXCEPT !.worker[c].holds = t]
    IN  IF home = Nobody THEN q
        ELSE SetEditor([q EXCEPT !.text[c] = IF IsLambda THEN t ELSE @], home, t)

(* A build lands.  A lambda copy's answers with the text it was built from, *)
(* which becomes the editor's and the copy's.                               *)
Land(p, c, t) ==
    LET home == HomeFor(p, c)
        q == [AnswerOf(p, c) EXCEPT !.worker[c].holds = t,
                                    !.text[c] = IF IsLambda THEN t ELSE @]
    IN  IF home = Nobody THEN q ELSE SetEditor(q, home, q.text[c])

Stale(c) ==
    /\ worker[c].posts # <<>>
    /\ ~IsCurrent(Page, c)
    /\ Becomes(AnswerOf(Page, c))
    /\ Unseen

BuildLands(c) ==
    /\ worker[c].posts # <<>>
    /\ IsCurrent(Page, c)
    /\ Becomes(Land(Page, c, Head(worker[c].posts)))
    /\ Unseen

(* Nothing was built; the views and the editor stay as they are.            *)
NoSession(c) ==
    /\ setup.failures
    /\ worker[c].posts # <<>>
    /\ IsCurrent(Page, c)
    /\ Becomes([AnswerOf(Page, c) EXCEPT !.worker[c].holds = NoText])
    /\ Unseen

(* The worker threw: the copy's mounted editor comes down.                  *)
WorkerError(c) ==
    /\ setup.failures
    /\ worker[c].posts # <<>>
    /\ IsCurrent(Page, c)
    /\ LET p == [AnswerOf(Page, c) EXCEPT !.worker[c].holds = NoText,
                                          !.worker[c].bare = TRUE]
           home == HomeFor(p, c)
       IN  Becomes(IF home = Nobody THEN p ELSE UnsetEditor(p, home))
    /\ NoticeWith(NoUndo)

-----------------------------------------------------------------------------
(* The page is loaded again.  Every copy comes back cold; each one a view   *)
(* showed is warmed, or its views show the program, and the views' editors  *)
(* are mounted from the texts of record.                                    *)

Restore ==
    [setup |-> setup, minted |-> stored.minted, text |-> stored.text,
     worker |-> [c \in Copies |-> Asleep],
     shows |-> stored.shows, claims |-> [c \in Copies |-> Nobody],
     editors |-> {}, thrown |-> FALSE]

WarmShown(p, l) ==
    LET c == p.shows[l]
    IN  IF c \notin Copies THEN p
        ELSE IF c \in Warm(p) \/ HasRoom(p) THEN Warmed(p, c)
        ELSE [p EXCEPT !.shows = [m \in Views |-> IF @[m] = c THEN Source ELSE @[m]]]

MountShown(p, l) ==
    IF p.shows[l] \in Copies THEN MountScratchEditor(p, l, p.shows[l]) ELSE p

Reload ==
    /\ reloads < setup.reloads
    /\ reloads' = reloads + 1
    /\ Becomes(InTurn(InTurn(Restore, Leaves, WarmShown), Leaves, MountShown))
    /\ undo' = NoUndo
    /\ meant' = stored.text
    /\ UNCHANGED <<setup, newest>>

-----------------------------------------------------------------------------
Steps == IF IsLambda THEN {Seed, Derived} ELSE {Seed}

ViewNext ==
    \E l \in Views :
        \/ \E t \in Steps : Fork(l, t)
        \/ \E s \in {Source} \cup Warm(Page) : OpenView(l, s) \/ Rebind(l, s)
        \/ CloseView(l)
        \/ ShowEditor(l)

CopyNext ==
    \E c \in Copies :
        \/ Pause(c) \/ Resume(c) \/ ResumeRefused(c) \/ Delete(c)
        \/ Stale(c) \/ BuildLands(c) \/ NoSession(c) \/ WorkerError(c)

EditorNext ==
    \E e \in editors : Type(e) \/ DebounceFires(e) \/ AskFormat(e) \/ FormatAnswers(e)

Next == ViewNext \/ CopyNext \/ EditorNext \/ ForkBlank \/ ApplyLayout \/ Undo \/ Reload

Spec == Init /\ [][Next]_vars

-----------------------------------------------------------------------------
(* Properties                                                               *)

TypeOK ==
    /\ minted \in 0..MaxCopies
    /\ text \in [Copies -> {NoText} \cup Texts]
    /\ worker \in [Copies -> [warm : BOOLEAN, posts : Seq(Texts),
                              holds : {NoText} \cup Texts, bare : BOOLEAN]]
    /\ shows \in [Views -> {Closed, Source} \cup Copies]
    /\ claims \in [Copies -> {Nobody} \cup Views]
    /\ \A c \in Copies : worker[c].warm \/ worker[c] = Asleep
    /\ \A e \in editors :
          /\ e.of \in Copies /\ e.at \in {Held, Loose} \cup Views
          /\ e.doc \in Texts /\ e.timer \in BOOLEAN
          /\ {e.owed, e.asked} \subseteq {NoText} \cup Texts

(* Two editors over one copy would overwrite each other's text: there is at *)
(* most one alive, wherever it is (editor-custody.ts:116).                  *)
OneEditor ==
    \A c \in Copies : Cardinality({e \in editors : e.of = c}) <= 1

(* What is typed on a view goes to the copy that view shows.                *)
EditorIsOfItsView ==
    \A e \in editors : e.at \in Views => e.of = shows[e.at]

(* A view of a copy has its editor or can ask for it, but for a copy that   *)
(* waits for its first build and one whose worker threw.                    *)
EditorIsInReach ==
    \A l \in Views :
        shows[l] \in Copies =>
            HasEditor(Page, shows[l]) \/ worker[shows[l]].bare

(* A view shows the program or a copy with a worker, or every frame drawn   *)
(* would throw; and there are never more workers than the cap allows.       *)
ViewsResolve ==
    /\ \A l \in Views : shows[l] \in {Closed, Source} \cup Warm(Page)
    /\ Cardinality(Warm(Page)) <= setup.cap

(* Wherever views go, close and come from, at whatever moment a build lands *)
(* or fails: every view has a session, and each copy's editor is where its  *)
(* user can find it.  A lambda copy may have two, as OneEditor shows.       *)
EditorsInPlace ==
    /\ ViewsResolve
    /\ EditorIsOfItsView
    /\ EditorIsInReach
    /\ IsLambda \/ OneEditor

(* The last text its user typed is the copy's text of record, or an editor  *)
(* still owes it: pausing, deleting, closing and moving lose none of it.    *)
TypedIsKept ==
    \A c \in Known(Page) :
        meant[c] > Derived =>
            \/ text[c] = meant[c]
            \/ \E e \in editors : e.of = c /\ Owes(e) /\ Due(e) = meant[c]

(* An editor that owes nothing shows its copy's text of record.             *)
EditorShowsRecord ==
    \A e \in editors : Owes(e) \/ e.doc = text[e.of]

(* A worker with nothing left to answer holds the text of record's build,   *)
(* or none.                                                                 *)
WorkerFollowsRecord ==
    \A c \in Warm(Page) :
        worker[c].posts = <<>> => worker[c].holds \in {NoText, text[c]}

(* The editor, the record and the worker of a copy come to hold one text,   *)
(* the last one typed.  Of a lambda copy only the last two do: a second     *)
(* editor loses text, and one in custody misses the first build's.          *)
TextsAgree ==
    /\ WorkerFollowsRecord
    /\ IsLambda \/ (TypedIsKept /\ EditorShowsRecord)

(* The text of record is never replaced by an older one, neither by a late  *)
(* answer nor by what a format or the storage kept, but for a lambda copy's *)
(* by the text of one of its editors, of which it may have two; and a       *)
(* reload brings back every copy with its text, and every view with what it *)
(* showed.                                                                  *)
RecordSurvives ==
    [][/\ \A c \in Copies :
             (text[c] # NoText /\ text'[c] # NoText) =>
                 \/ text[c] <= text'[c]
                 \/ IsLambda /\ \E e \in editors : e.of = c /\ e.doc = text'[c]
       /\ reloads' # reloads => text' = text /\ shows' = shows]_vars
=============================================================================
