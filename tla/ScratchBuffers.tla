--------------------------- MODULE ScratchBuffers ---------------------------
(***************************************************************************)
(* The registry of copies.  Its operators take the page p, a record, and    *)
(* yield the page after the call; here they read p.setup.cap, which is      *)
(* MAX_WARM_BUFFERS, and read and change                                    *)
(*   p.minted   how many copies were ever made,                             *)
(*   p.text     the text of record of each copy held,                       *)
(*   p.worker   a warm copy's worker: the builds posted and not answered,   *)
(*              and the text of the build it holds.                         *)
(* A reply is current exactly when its request was the last one posted.     *)
(***************************************************************************)
EXTENDS ScratchEditor, Sequences, FiniteSets

CONSTANT MaxCopies   \* bound on the copies ever made

ASSUME CopiesAssumption == MaxCopies \in Nat \ {0}

Copies == 1..MaxCopies

Seed == 0      \* the text a copy is made with
Derived == 1   \* the term of the step a lambda copy was asked for

Asleep == [warm |-> FALSE, posts |-> <<>>, holds |-> NoText, bare |-> FALSE]

Known(p) == {c \in Copies : p.text[c] # NoText}
Warm(p) == {c \in Copies : p.worker[c].warm}
\* Mutant: one too many.
RoomAtCap(p) == Cardinality(Warm(p)) <= p.setup.cap
HasRoom(p) == Cardinality(Warm(p)) < p.setup.cap

(* A fresh worker and its first build.  `bare': no editor was mounted since *)
(* the copy was made, or since its worker threw.                            *)
Spawn(p, c, t, bare) ==
    [p EXCEPT !.worker[c] = [warm |-> TRUE, posts |-> <<t>>,
                             holds |-> NoText, bare |-> bare]]

Mint(p, t) ==
    LET c == p.minted + 1
    IN  Spawn([p EXCEPT !.minted = c, !.text[c] = Seed], c, t, TRUE)

Recompile(p, c, t) ==
    IF c \notin Known(p) THEN p
    ELSE [p EXCEPT !.text[c] = t,
                   !.worker[c].posts = IF c \in Warm(p) THEN Append(@, t) ELSE @]

Warmed(p, c) == IF c \in Warm(p) THEN p ELSE Spawn(p, c, p.text[c], FALSE)

\* Mutant: what was posted to the worker outlives it.
CoolDeaf(p, c, home) ==
    [p EXCEPT !.worker[c].warm = FALSE,
              !.shows = [l \in DOMAIN @ |-> IF @[l] = c THEN home ELSE @[l]]]
(* The worker is terminated and takes its requests and replies with it.     *)
Cool(p, c, home) ==
    [p EXCEPT !.worker[c] = Asleep,
              !.shows = [l \in DOMAIN @ |-> IF @[l] = c THEN home ELSE @[l]]]

Retire(p, c, home) == [Cool(p, c, home) EXCEPT !.text[c] = NoText]

Reinstate(p, c, t) == [p EXCEPT !.text[c] = t]

\* Mutant: a paused copy is left out.
SnapshotWarm(p) ==
    [minted |-> p.minted, shows |-> p.shows,
     text |-> [c \in Copies |-> IF c \in Warm(p) THEN p.text[c] ELSE NoText]]
Snapshot(p) == [minted |-> p.minted, text |-> p.text, shows |-> p.shows]
=============================================================================
