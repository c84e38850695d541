--------------------------- MODULE EditorCustody ---------------------------
(***************************************************************************)
(* Where the copies' editors are: mounted on a view, in custody while no    *)
(* view has them, and which view each copy's editor belongs to.  Of the     *)
(* page p:                                                                  *)
(*   p.shows    what each view shows: the program, a copy, or it is closed, *)
(*   p.claims   the view that last asked for each copy's editor,            *)
(*   p.editors  the editors alive,                                          *)
(*   p.thrown   whether the sweep under way has thrown,                     *)
(*   p.setup.leg   the leg of the copies and of the views that show them.   *)
(* The views stand in the order of the layout tree.                         *)
(***************************************************************************)
EXTENDS ScratchBuffers

CONSTANT Leaves   \* bound on the views open at once

ASSUME CustodyAssumption == Leaves \in Nat \ {0}

Views == 1..Leaves
Closed == -1
Source == 0
Nobody == 0

ViewsOf(p, c) == {l \in Views : p.shows[l] = c}
On(p, l) == {e \in p.editors : e.at = l}
HeldFor(p, c) == {e \in p.editors : e.at = Held /\ e.of = c}
(* Of a view, or in custody for a copy, there is one editor at most.        *)
TheEditor(s) == CHOOSE e \in s : TRUE

(* The page after each of 1..last was visited in turn.                      *)
InTurn(p, last, visit(_, _)) ==
    LET at[k \in 0..last] == IF k = 0 THEN p ELSE visit(at[k - 1], k)
    IN  at[last]

Change(p, e, f) == [p EXCEPT !.editors = (@ \ {e}) \cup {f}]
Place(p, e, place) == Change(p, e, [e EXCEPT !.at = place])

\* Mutant: the view that claimed the copy is home to it even after it left.
HomeClaimed(p, c) == p.claims[c]
HomeFor(p, c) ==
    LET l == p.claims[c]
    IN  IF l # Nobody /\ p.shows[l] = c THEN l ELSE Nobody

\* Mutant: only custody is asked.
HasHeld(p, c) == HeldFor(p, c) # {}
HasEditor(p, c) ==
    \/ HeldFor(p, c) # {}
    \/ HomeFor(p, c) # Nobody /\ On(p, HomeFor(p, c)) # {}

Claim(p, c, l) == [p EXCEPT !.claims[c] = l]
DropClaimsOn(p, l) ==
    [p EXCEPT !.claims = [c \in Copies |-> IF @[c] = l THEN Nobody ELSE @[c]]]

(* What an editor owes goes to its own copy, wherever the editor is.        *)
Flush(p, e) ==
    LET q == Change(p, e, Flushed(e))
    IN  IF Owes(e) THEN Recompile(q, e.of, Due(e)) ELSE q

Destroy(p, e) ==
    LET q == [p EXCEPT !.editors = @ \ {e}]
    IN  IF Owes(e) THEN Recompile(q, e.of, Due(e)) ELSE q

\* Mutant: nobody is asked for what he owes.
FlushNobody(p, c) == p
(* The one in custody first, then the views showing the copy.               *)
FlushCopy(p, c) ==
    LET flush(q, his) == IF his = {} THEN q ELSE Flush(q, TheEditor(his))
        visit(q, l) == IF q.shows[l] = c THEN flush(q, On(q, l)) ELSE q
    IN  InTurn(flush(p, HeldFor(p, c)), Leaves, visit)

(* Custody has one place for a copy: a second editor pushes the first out.  *)
Hold(p, e) ==
    [p EXCEPT !.editors =
        {IF f \in HeldFor(p, e.of) THEN [f EXCEPT !.at = Loose] ELSE f : f \in @ \ {e}}
        \cup {[e EXCEPT !.at = Held]}]

(* A view lets go of its editor: a lambda view's waits in custody, a        *)
(* machine view's is destroyed.                                             *)
LetGo(p, l) ==
    LET e == TheEditor(On(p, l))
    IN  IF On(p, l) = {} THEN p
        ELSE IF p.setup.leg = "lambda" THEN Hold(p, e) ELSE Destroy(p, e)

SetEditor(p, l, t) ==
    IF On(p, l) = {}
    THEN [p EXCEPT !.editors = @ \cup {Editor(p.shows[l], l, t)},
                   !.worker[p.shows[l]].bare = FALSE]
    ELSE [p EXCEPT !.editors = {IF e.at = l THEN SetText(e, t) ELSE e : e \in @}]

UnsetEditor(p, l) == IF On(p, l) = {} THEN p ELSE Destroy(p, TheEditor(On(p, l)))

MountScratchEditor(p, l, c) ==
    IF HasEditor(p, c) \/ c \notin Warm(p) THEN p
    ELSE SetEditor(Claim(p, c, l), l, p.text[c])

\* Mutant: no other view is looked for.
MountNowhere(p, c) == p
MountOnViewOf(p, c) ==
    IF ViewsOf(p, c) = {} THEN p
    ELSE MountScratchEditor(p, CHOOSE l \in ViewsOf(p, c) :
                                   \A m \in ViewsOf(p, c) : l <= m, c)

-----------------------------------------------------------------------------
(* The sweep after every change of the layout.  First, for each claim, the  *)
(* editors on other views of the copy go to its home.  A home that holds    *)
(* one already throws, and the editor just taken is lost.                   *)
SweepView(p, c, home, l) ==
    LET e == TheEditor(On(p, l))
    IN  IF p.thrown \/ l = home \/ p.shows[l] # c \/ On(p, l) = {} THEN p
        ELSE IF home = Nobody THEN Destroy(p, e)
        ELSE IF On(p, home) = {} THEN Place(p, e, home)
        ELSE [Place(p, e, Loose) EXCEPT !.thrown = TRUE]

SweepClaim(p, c) ==
    LET visit(q, l) == SweepView(q, c, HomeFor(p, c), l)
    IN  IF p.thrown \/ p.claims[c] = Nobody THEN p
        ELSE IF c \notin Warm(p) THEN Claim(p, c, Nobody)
        ELSE InTurn(p, Leaves, visit)

\* Mutant: an editor without a home goes, its copy awake or not.
SweepHomeless(p, c) ==
    LET home == HomeFor(p, c)
        e == TheEditor(HeldFor(p, c))
    IN  IF p.thrown \/ HeldFor(p, c) = {} THEN p
        ELSE IF home = Nobody THEN Destroy(p, e) ELSE Place(p, e, home)

(* Then custody: an editor goes to its copy's home, or with its copy.       *)
SweepHeld(p, c) ==
    LET home == HomeFor(p, c)
        e == TheEditor(HeldFor(p, c))
    IN  IF p.thrown \/ HeldFor(p, c) = {} THEN p
        ELSE IF home = Nobody THEN (IF c \in Warm(p) THEN p ELSE Destroy(p, e))
        ELSE IF On(p, home) = {} THEN Place(p, e, home)
        ELSE [p EXCEPT !.thrown = TRUE]

(* The copies are swept in the order their claims were made, which is left  *)
(* open; it matters only to a sweep that throws.                            *)
Orders == {s \in [Copies -> Copies] : \A c \in Copies : \E n \in Copies : s[n] = c}
SweepClaims(p, order) ==
    LET visit(q, n) == SweepClaim(q, order[n]) IN InTurn(p, MaxCopies, visit)
SweepCustody(p, order) ==
    LET visit(q, n) == SweepHeld(q, order[n]) IN InTurn(p, MaxCopies, visit)
Reconcile(p, order) == SweepCustody(SweepClaims(p, order), order)

(* A frame drawn takes the editor off a view that shows the program.        *)
Draw(p) ==
    LET visit(q, l) == IF q.shows[l] = Source THEN UnsetEditor(q, l) ELSE q
    IN  InTurn(p, Leaves, visit)
=============================================================================
