---------------------------- MODULE CopiesProofs ----------------------------
(***************************************************************************)
(* Proofs about the copies of a page: where their editors and views are,    *)
(* and that a copy's editor, record and worker hold one text.               *)
(*                                                                         *)
(* What an event does to the page is a chain of calls on the page as a      *)
(* record.  So what holds between events is stated of a page p: Sound of    *)
(* the page at any point of a chain, Settled and Reached of the page as an  *)
(* event leaves it.  m are the texts the users mean, and n is the newest.   *)
(***************************************************************************)
EXTENDS ScratchCopies, DataLemmas, FiniteSetTheorems

EditorSet ==
    [of : Copies, at : {Held, Loose} \cup Views, doc : Texts, timer : BOOLEAN,
     owed : {NoText} \cup Texts, asked : {NoText} \cup Texts]
WorkerSet ==
    [warm : BOOLEAN, posts : Seq(Texts), holds : {NoText} \cup Texts, bare : BOOLEAN]
Pages ==
    [setup : Setups, minted : 0..MaxCopies, text : [Copies -> {NoText} \cup Texts],
     worker : [Copies -> WorkerSet], shows : [Views -> {Closed, Source} \cup Copies],
     claims : [Copies -> {Nobody} \cup Views], editors : SUBSET EditorSet,
     thrown : BOOLEAN]
IsMachine(p) == p.setup.leg = "machine"

(* The registry: the copies held were made and their texts typed; no more   *)
(* workers than the cap, each of a copy held; the last build posted is of   *)
(* the text of record, but for the first one of a lambda copy; and a worker *)
(* that owes no answer holds that text's build, or none.                    *)
FollowsRecord(p, c) ==
    LET w == p.worker[c]
    IN  /\ w.posts = <<>> => w.holds \in {NoText, p.text[c]}
        /\ w.posts # <<>> =>
              \/ w.posts[Len(w.posts)] = p.text[c]
              \/ ~IsMachine(p) /\ w.posts[Len(w.posts)] = Derived /\ p.text[c] = Seed
Registered(p, n) ==
    /\ \A c \in Known(p) : c <= p.minted /\ p.text[c] <= n
    /\ \A c \in Copies : p.worker[c].warm \/ p.worker[c] = Asleep
    /\ Warm(p) \subseteq Known(p)
    /\ Cardinality(Warm(p)) <= p.setup.cap
    /\ \A c \in Warm(p) : FollowsRecord(p, c)
    /\ \A l \in Views : p.shows[l] \in {Closed, Source} \cup Warm(p)

(* The seats: one editor to a view and, of a copy, one in custody.  The     *)
(* editor on a view is of the copy shown, unless that has just left.  Only  *)
(* one view of a copy has its editor, and the copy has a home then.  A      *)
(* machine copy's editor is on a view, and is the only one.                 *)
Mounted(p) == {e \in p.editors : e.at \in Views}
AtOwn(p) == {e \in Mounted(p) : p.shows[e.at] = e.of}
Seated(p) ==
    /\ \A e, f \in Mounted(p) : e.at = f.at => e = f
    /\ \A e, f \in p.editors : e.at = Held /\ f.at = Held /\ e.of = f.of => e = f
    /\ \A e \in Mounted(p) : p.shows[e.at] \in {Source, e.of}
    /\ \A e, f \in AtOwn(p) : e.of = f.of => e = f
    /\ \A e \in AtOwn(p) : HomeFor(p, e.of) # Nobody
    /\ IsMachine(p) => /\ \A e \in p.editors : e.at \in Views
                       /\ \A e, f \in p.editors : e.of = f.of => e = f

(* The documents: what a format took off the debounce is still in the       *)
(* editor.  An editor of a machine copy that owes its text has the one its  *)
(* user means, and no older one than the record; one that owes nothing has  *)
(* the record's; and what the user means is recorded or owed.               *)
Documented(p, m, n) ==
    /\ \A e \in p.editors :
          /\ e.of <= p.minted /\ e.doc <= n
          /\ ~e.timer /\ e.owed # NoText => e.owed = e.doc
    /\ IsMachine(p) =>
          /\ \A e \in p.editors :
                IF Owes(e) THEN e.doc = m[e.of] /\ p.text[e.of] <= e.doc
                ELSE p.text[e.of] \in {NoText, e.doc}
          /\ \A c \in Known(p) :
                m[c] > Derived => \/ p.text[c] = m[c]
                                  \/ \E e \in p.editors : e.of = c /\ Owes(e)

Sound(p, m, n) == p \in Pages /\ Registered(p, n) /\ Seated(p) /\ Documented(p, m, n)

(* Every editor on a view is of the copy shown there, and at home.          *)
Resolved(p) == \A e \in Mounted(p) : p.shows[e.at] = e.of
HomeOnly(p, c) == \A e \in AtOwn(p) : e.of = c => p.claims[c] = e.at
AtHome(p) == \A c \in Copies : HomeOnly(p, c)
Settled(p) == Resolved(p) /\ AtHome(p)

(* A copy on view has an editor, or never had one to show.                  *)
Reached(p, c) ==
    \/ ViewsOf(p, c) = {} \/ p.worker[c].bare
    \/ \E e \in p.editors : e.of = c /\ (e.at = Held \/ e \in AtOwn(p))
AllReached(p) == \A c \in Copies : Reached(p, c)

(* What the page keeps between events, and what the storage has of it.      *)
UndoFits ==
    undo = NoUndo \/
      /\ undo = [copy |-> undo.copy, text |-> undo.text, views |-> undo.views]
      /\ undo.copy \in 1..minted /\ text[undo.copy] = NoText
      /\ undo.text \in 0..newest /\ undo.views \subseteq Views
      /\ ~IsLambda /\ meant[undo.copy] > Derived => undo.text = meant[undo.copy]
IInv ==
    /\ newest \in Derived..MaxText
    /\ meant \in [Copies -> {NoText} \cup Texts]
    /\ \A c \in Copies : c > minted => meant[c] = NoText
    /\ Sound(Page, meant, newest)
    /\ Settled(Page)
    /\ AllReached(Page)
    /\ stored = Snapshot(Page)
    /\ UndoFits

-----------------------------------------------------------------------------
(* The places, the copies and the texts are told apart by their numbers.    *)
LEMMA Apart ==
  /\ Held \notin Views /\ Loose \notin Views /\ Nobody \notin Views /\ Held # Loose
  /\ Source \notin Copies /\ Closed \notin Copies /\ Source # Closed
  /\ NoText \notin Texts /\ NoText < Seed /\ Seed < Derived
  /\ Views \subseteq Nat /\ Copies \subseteq Nat /\ Texts \subseteq Nat
  /\ MaxCopies \in Nat /\ MaxText \in Nat /\ Leaves \in Nat
  /\ Views = 1..Leaves /\ Copies = 1..MaxCopies
BY CopiesAssumption, CustodyAssumption, SetupsAssumption
   DEF Held, Loose, Nobody, Views, Source, Closed, Copies, NoText, Texts, Seed, Derived

(* A page's setup is of one leg and has a cap.                              *)
LEMMA Legs ==
  ASSUME NEW p \in Pages
  PROVE  /\ p.setup \in Setups /\ p.setup.cap \in Nat
         /\ p.setup.leg \in {"lambda", "machine"}
         /\ IsMachine(p) <=> p.setup.leg # "lambda"
BY SetupsAssumption DEF Pages, IsMachine

(* There are finitely many copies awake.                                    *)
LEMMA WarmFinite ==
  ASSUME NEW p PROVE IsFiniteSet(Warm(p)) /\ Cardinality(Warm(p)) \in Nat
<1>1. IsFiniteSet(Copies)
  BY Apart, FS_Interval
<1>2. IsFiniteSet(Warm(p))
  BY <1>1, FS_Subset DEF Warm
<1> QED BY <1>2, FS_CardinalityType

(* What an editor that owes something would hand over, by what a format     *)
(* leaves in it.                                                            *)
LEMMA DueIsDoc ==
  ASSUME NEW p \in Pages, NEW m, NEW n, Documented(p, m, n), NEW e \in p.editors, Owes(e)
  PROVE  Due(e) = e.doc /\ Due(e) \in Texts
BY DEF Documented, Owes, Due, Pages, EditorSet

(* What an editor hands over is recorded and, of a copy awake, posted; e    *)
(* gives way to the editors of g.                                           *)
Handed(p, e, g) ==
    LET q == [p EXCEPT !.editors = (@ \ {e}) \cup g]
    IN  IF Owes(e) THEN Recompile(q, e.of, Due(e)) ELSE q
SameDesk(p, q) ==
    /\ q.setup = p.setup /\ q.minted = p.minted
    /\ q.shows = p.shows /\ q.claims = p.claims /\ q.thrown = p.thrown
SameWorkers(p, q) ==
    \A c \in Copies : /\ q.worker[c].warm = p.worker[c].warm
                      /\ q.worker[c].bare = p.worker[c].bare

(* The page after that, field by field.                                     *)
LEMMA HandedFacts ==
  ASSUME NEW p \in Pages, NEW e \in p.editors, Owes(e) => Due(e) \in Texts,
         NEW g \in SUBSET EditorSet
  PROVE  LET q == Handed(p, e, g) IN
         /\ q \in Pages /\ SameDesk(p, q) /\ SameWorkers(p, q)
         /\ q.editors = (p.editors \ {e}) \cup g
         /\ \A c \in Copies :
              LET told == Owes(e) /\ c = e.of /\ c \in Known(p)
              IN  /\ q.text[c] = IF told THEN Due(e) ELSE p.text[c]
                  /\ q.worker[c].holds = p.worker[c].holds
                  /\ q.worker[c].posts = IF told /\ c \in Warm(p)
                                         THEN Append(p.worker[c].posts, Due(e))
                                         ELSE p.worker[c].posts
                  /\ (told /\ c \in Warm(p)) \/ q.worker[c] = p.worker[c]
<1> DEFINE r == [p EXCEPT !.editors = (@ \ {e}) \cup g]
           d == Due(e)
           c0 == e.of
<1>0. c0 \in Copies
  BY DEF Pages, EditorSet
<1>1. /\ r \in Pages /\ SameDesk(p, r) /\ r.text = p.text /\ r.worker = p.worker
      /\ r.editors = (p.editors \ {e}) \cup g
      /\ Known(r) = Known(p) /\ Warm(r) = Warm(p)
  BY DEF Pages, SameDesk, Known, Warm
<1>2. CASE ~(Owes(e) /\ c0 \in Known(p))
  <2>1. Handed(p, e, g) = r
    BY <1>1, <1>2 DEF Handed, Recompile
  <2> HIDE DEF r
  <2> QED BY <1>1, <1>2, <2>1 DEF SameWorkers
<1>3. CASE Owes(e) /\ c0 \in Known(p)
  <2> DEFINE w == [p.worker[c0] EXCEPT !.posts = IF c0 \in Warm(p) THEN Append(@, d) ELSE @]
             q == [r EXCEPT !.text = [@ EXCEPT ![c0] = d], !.worker = [@ EXCEPT ![c0] = w]]
  <2>1. Handed(p, e, g) = q
    <3>1. Handed(p, e, g) = Recompile(r, c0, d)
      BY <1>3 DEF Handed
    <3>2. Recompile(r, c0, d) =
            [r EXCEPT !.text[c0] = d,
                      !.worker[c0].posts = IF c0 \in Warm(r) THEN Append(@, d) ELSE @]
      <4> HIDE DEF r, d, c0
      <4> QED BY <1>1, <1>3 DEF Recompile
    <3> HIDE DEF r, d, c0
    <3> QED BY <1>1, <3>1, <3>2
  <2>2. p.worker[c0] \in WorkerSet /\ d \in Texts /\ p.worker \in [Copies -> WorkerSet]
    BY <1>0, <1>3 DEF Pages
  <2> HIDE DEF d, c0, r
  <2>3. /\ w \in WorkerSet /\ w.warm = p.worker[c0].warm /\ w.bare = p.worker[c0].bare
        /\ w.holds = p.worker[c0].holds
        /\ w.posts = IF c0 \in Warm(p) THEN Append(p.worker[c0].posts, d) ELSE p.worker[c0].posts
        /\ c0 \notin Warm(p) => w = p.worker[c0]
    <3>1. p.worker[c0].posts \in Seq(Texts)
      BY <2>2 DEF WorkerSet
    <3>2. Append(p.worker[c0].posts, d) \in Seq(Texts)
      BY <2>2, <3>1
    <3> DEFINE x == p.worker[c0]
               s == IF c0 \in Warm(p) THEN Append(x.posts, d) ELSE x.posts
    <3>3. x \in WorkerSet /\ s \in Seq(Texts) /\ (c0 \notin Warm(p) => s = x.posts)
      BY <2>2, <3>1, <3>2
    <3>4. w = [x EXCEPT !.posts = s]
      OBVIOUS
    <3>5. s = IF c0 \in Warm(p) THEN Append(p.worker[c0].posts, d) ELSE p.worker[c0].posts
      OBVIOUS
    <3> HIDE DEF x, s, w
    <3>6. /\ w \in WorkerSet /\ w.warm = x.warm /\ w.bare = x.bare /\ w.holds = x.holds
          /\ w.posts = s /\ (s = x.posts => w = x)
      BY <3>3, <3>4 DEF WorkerSet
    <3> QED BY <3>3, <3>5, <3>6 DEF x
  <2> HIDE DEF w
  <2>4. /\ q.text = [p.text EXCEPT ![c0] = d] /\ q.worker = [p.worker EXCEPT ![c0] = w]
        /\ q.editors = r.editors /\ SameDesk(p, q) /\ q \in Pages
    BY <1>0, <1>1, <2>2, <2>3 DEF Pages, SameDesk
  <2> HIDE DEF q
  <2>5. SameWorkers(p, q)
    BY <1>0, <2>2, <2>3, <2>4 DEF SameWorkers
  <2>6. ASSUME NEW c \in Copies
        PROVE  LET told == Owes(e) /\ c = c0 /\ c \in Known(p)
               IN  /\ q.text[c] = IF told THEN d ELSE p.text[c]
                   /\ q.worker[c].holds = p.worker[c].holds
                   /\ q.worker[c].posts = IF told /\ c \in Warm(p)
                                         THEN Append(p.worker[c].posts, d)
                                         ELSE p.worker[c].posts
                   /\ (told /\ c \in Warm(p)) \/ q.worker[c] = p.worker[c]
    <3>1. p.text \in [Copies -> {NoText} \cup Texts]
      BY DEF Pages
    <3>2. CASE c = c0
      BY <1>3, <2>2, <2>3, <2>4, <3>1, <3>2
    <3>3. CASE c # c0
      BY <1>3, <2>2, <2>3, <2>4, <3>1, <3>3
    <3> QED BY <3>2, <3>3
  <2> QED BY <1>1, <2>1, <2>4, <2>5, <2>6 DEF d, c0
<1> QED BY <1>2, <1>3

(* What a chain of calls may do to the record: it takes a text over from an *)
(* editor that owed it, and forgets it, and no editor comes to owe another. *)
OwedIn(p, c, t) == \E e \in p.editors : Owes(e) /\ e.of = c /\ e.doc = t
Kept(p, q) ==
    /\ \A f \in q.editors : Owes(f) => OwedIn(p, f.of, f.doc)
    /\ \A c \in Copies : q.text[c] \in {NoText, p.text[c]} \/ OwedIn(p, c, q.text[c])

(* The relation holds of a chain that does nothing, and of one after another. *)
LEMMA KeptChains ==
  ASSUME NEW p \in Pages, NEW q \in Pages, NEW r \in Pages
  PROVE  Kept(p, p) /\ (Kept(p, q) /\ Kept(q, r) => Kept(p, r))
<1>1. Kept(p, p)
  BY DEF Kept, OwedIn
<1>2. ASSUME Kept(p, q), Kept(q, r) PROVE Kept(p, r)
  <2>1. ASSUME NEW c \in Copies, NEW t, OwedIn(q, c, t) PROVE OwedIn(p, c, t)
    BY <1>2, <2>1 DEF Kept, OwedIn
  <2>2. \A f \in r.editors : f.of \in Copies
    BY DEF Pages, EditorSet
  <2>3. ASSUME NEW f \in r.editors, Owes(f) PROVE OwedIn(p, f.of, f.doc)
    BY <1>2, <2>1, <2>2, <2>3 DEF Kept
  <2>4. ASSUME NEW c \in Copies
        PROVE  r.text[c] \in {NoText, p.text[c]} \/ OwedIn(p, c, r.text[c])
    <3>1. q.text[c] \in {NoText, p.text[c]} \/ OwedIn(p, c, q.text[c])
      BY <1>2 DEF Kept
    <3>2. r.text[c] \in {NoText, q.text[c]} \/ OwedIn(q, c, r.text[c])
      BY <1>2 DEF Kept
    <3> QED BY <2>1, <3>1, <3>2
  <2> QED BY <2>3, <2>4 DEF Kept
<1> QED BY <1>1, <1>2

(* An editor gives way to none, or to one in the same place.                *)
SameSeat(e, g) == g = {} \/ \E f : g = {f} /\ f.of = e.of /\ f.at = e.at

(* That leaves the seats as they are.                                       *)
LEMMA SwapSeated ==
  ASSUME NEW p \in Pages, NEW q \in Pages, SameDesk(p, q), SameWorkers(p, q),
         NEW e \in p.editors, NEW g, SameSeat(e, g),
         q.editors = (p.editors \ {e}) \cup g
  PROVE  /\ Seated(p) => Seated(q)
         /\ Resolved(p) => Resolved(q)
         /\ AtHome(p) => AtHome(q)
         /\ \A c \in Copies :
              Reached(p, c) /\ (g # {} \/ c # e.of \/ (e.at # Held /\ e \notin AtOwn(p)))
                => Reached(q, c)
<1>1. /\ q.shows = p.shows /\ q.claims = p.claims /\ IsMachine(q) = IsMachine(p)
      /\ \A c \in Copies : HomeFor(q, c) = HomeFor(p, c) /\ ViewsOf(q, c) = ViewsOf(p, c)
  BY DEF SameDesk, IsMachine, HomeFor, ViewsOf
<1>2. \A f \in q.editors : \E d \in p.editors :
         d.of = f.of /\ d.at = f.at /\ ((f = d /\ d # e) \/ (f \in g /\ d = e))
  <2> TAKE f \in q.editors
  <2>1. CASE f \in g
    <3>1. f.of = e.of /\ f.at = e.at
      BY <2>1 DEF SameSeat
    <3> QED BY <2>1, <3>1
  <2>2. CASE f \notin g
    <3>1. f \in p.editors /\ f # e
      BY <2>2
    <3> QED BY <3>1
  <2> QED BY <2>1, <2>2
<1>3. \A f, h \in g : f = h
  BY DEF SameSeat
<1>4. \A f \in q.editors : f.of \in Copies
  BY DEF Pages, EditorSet
<1>5. ASSUME NEW f \in q.editors, NEW h \in q.editors
      PROVE  \E d, k \in p.editors :
               /\ d.of = f.of /\ d.at = f.at /\ k.of = h.of /\ k.at = h.at
               /\ d = k => f = h
  BY <1>2, <1>3
<1>6. ASSUME Seated(p) PROVE Seated(q)
  <2>1. \A f, h \in Mounted(q) : f.at = h.at => f = h
    <3> SUFFICES ASSUME NEW f \in Mounted(q), NEW h \in Mounted(q), f.at = h.at PROVE f = h
      OBVIOUS
    <3>1. PICK d \in p.editors, k \in p.editors :
               /\ d.of = f.of /\ d.at = f.at /\ k.of = h.of /\ k.at = h.at
               /\ d = k => f = h
      BY <1>5 DEF Mounted
    <3> QED BY <1>6, <3>1 DEF Seated, Mounted
  <2>2. \A f, h \in q.editors : f.at = Held /\ h.at = Held /\ f.of = h.of => f = h
    <3> SUFFICES ASSUME NEW f \in q.editors, NEW h \in q.editors, f.at = Held, h.at = Held,
                        f.of = h.of
                 PROVE  f = h
      OBVIOUS
    <3>1. PICK d \in p.editors, k \in p.editors :
               /\ d.of = f.of /\ d.at = f.at /\ k.of = h.of /\ k.at = h.at
               /\ d = k => f = h
      BY <1>5
    <3> QED BY <1>6, <3>1 DEF Seated
  <2>3. \A f \in Mounted(q) : q.shows[f.at] \in {Source, f.of}
    <3> SUFFICES ASSUME NEW f \in Mounted(q) PROVE q.shows[f.at] \in {Source, f.of}
      OBVIOUS
    <3> QED BY <1>1, <1>2, <1>6 DEF Seated, Mounted
  <2>4. \A f, h \in AtOwn(q) : f.of = h.of => f = h
    <3> SUFFICES ASSUME NEW f \in AtOwn(q), NEW h \in AtOwn(q), f.of = h.of PROVE f = h
      OBVIOUS
    <3>1. f \in q.editors /\ h \in q.editors
      BY DEF AtOwn, Mounted
    <3>2. PICK d \in p.editors, k \in p.editors :
               /\ d.of = f.of /\ d.at = f.at /\ k.of = h.of /\ k.at = h.at
               /\ d = k => f = h
      BY <1>5, <3>1
    <3>3. d \in AtOwn(p) /\ k \in AtOwn(p)
      BY <1>1, <3>2 DEF AtOwn, Mounted
    <3> QED BY <1>6, <3>2, <3>3 DEF Seated
  <2>5. \A f \in AtOwn(q) : HomeFor(q, f.of) # Nobody
    <3> SUFFICES ASSUME NEW f \in AtOwn(q) PROVE HomeFor(q, f.of) # Nobody
      OBVIOUS
    <3>1. PICK d \in p.editors : d.of = f.of /\ d.at = f.at
      BY <1>2 DEF AtOwn, Mounted
    <3>2. d \in AtOwn(p) /\ f.of \in Copies
      BY <1>1, <1>4, <3>1 DEF AtOwn, Mounted
    <3> QED BY <1>1, <1>6, <3>1, <3>2 DEF Seated
  <2>6. IsMachine(q) => /\ \A f \in q.editors : f.at \in Views
                        /\ \A f, h \in q.editors : f.of = h.of => f = h
    <3> SUFFICES ASSUME IsMachine(q)
                 PROVE  /\ \A f \in q.editors : f.at \in Views
                        /\ \A f, h \in q.editors : f.of = h.of => f = h
      OBVIOUS
    <3>1. \A f \in q.editors : f.at \in Views
      BY <1>1, <1>2, <1>6 DEF Seated
    <3>2. ASSUME NEW f \in q.editors, NEW h \in q.editors, f.of = h.of PROVE f = h
      BY <1>1, <1>5, <1>6, <3>2 DEF Seated
    <3> QED BY <3>1, <3>2
  <2> QED BY <2>1, <2>2, <2>3, <2>4, <2>5, <2>6 DEF Seated
<1>7. ASSUME Resolved(p) PROVE Resolved(q)
  BY <1>1, <1>2, <1>7 DEF Resolved, Mounted
<1>8. ASSUME AtHome(p) PROVE AtHome(q)
  BY <1>1, <1>2, <1>8 DEF AtHome, HomeOnly, AtOwn, Mounted
<1>9. ASSUME NEW c \in Copies, Reached(p, c),
             g # {} \/ c # e.of \/ (e.at # Held /\ e \notin AtOwn(p))
      PROVE  Reached(q, c)
  <2>1. CASE ViewsOf(p, c) = {} \/ p.worker[c].bare
    BY <1>1, <2>1 DEF Reached, SameWorkers
  <2>2. CASE \E d \in p.editors : d.of = c /\ (d.at = Held \/ d \in AtOwn(p))
    <3>1. PICK d \in p.editors : d.of = c /\ (d.at = Held \/ d \in AtOwn(p))
      BY <2>2
    <3>2. PICK f \in q.editors : f.of = d.of /\ f.at = d.at
      BY <1>9, <3>1 DEF SameSeat
    <3>3. f.at = Held \/ f \in AtOwn(q)
      BY <1>1, <3>1, <3>2 DEF AtOwn, Mounted
    <3> QED BY <3>1, <3>2, <3>3 DEF Reached
  <2> QED BY <1>9, <2>1, <2>2 DEF Reached
<1> QED BY <1>6, <1>7, <1>8, <1>9

(* An editor flushed owes nothing and is otherwise the same.                *)
LEMMA FlushedFacts ==
  ASSUME NEW e \in EditorSet
  PROVE  /\ Flushed(e) \in EditorSet /\ ~Owes(Flushed(e)) /\ Flushed(e).doc = e.doc
         /\ Flushed(e).of = e.of /\ Flushed(e).at = e.at
         /\ Flushed(e).timer = FALSE /\ Flushed(e).owed = NoText
BY DEF EditorSet, Flushed, Owes

(* Handing over is sound wherever the chain is: the record gets no older.   *)
LEMMA HandedSound ==
  ASSUME NEW p \in Pages, NEW m, NEW n \in Nat, Sound(p, m, n), NEW e \in p.editors,
         NEW g, g = {} \/ g = {Flushed(e)}
  PROVE  LET q == Handed(p, e, g) IN
         /\ Sound(q, m, n) /\ Kept(p, q) /\ SameDesk(p, q) /\ SameWorkers(p, q)
         /\ Known(q) = Known(p) /\ q.editors = (p.editors \ {e}) \cup g
         /\ Resolved(p) => Resolved(q)
         /\ AtHome(p) => AtHome(q)
         /\ \A c \in Copies :
              Reached(p, c) /\ (g # {} \/ c # e.of \/ (e.at # Held /\ e \notin AtOwn(p)))
                => Reached(q, c)
<1> DEFINE q == Handed(p, e, g)
           told(c) == Owes(e) /\ c = e.of /\ c \in Known(p)
<1>1. e \in EditorSet /\ e.of \in Copies /\ p.editors \subseteq EditorSet
  BY DEF Pages, EditorSet
<1>2. Owes(e) => Due(e) = e.doc /\ Due(e) \in Texts
  BY DueIsDoc DEF Sound
<1>3. /\ g \in SUBSET EditorSet /\ SameSeat(e, g)
      /\ \A f \in g : ~Owes(f) /\ f.of = e.of /\ f.doc = e.doc /\ f.timer = FALSE /\ f.owed = NoText
  BY <1>1, FlushedFacts DEF SameSeat
<1>4. /\ q \in Pages /\ SameDesk(p, q) /\ SameWorkers(p, q)
      /\ q.editors = (p.editors \ {e}) \cup g
      /\ \A c \in Copies :
           /\ q.text[c] = IF told(c) THEN e.doc ELSE p.text[c]
           /\ q.worker[c].holds = p.worker[c].holds
           /\ q.worker[c].posts = IF told(c) /\ c \in Warm(p)
                                  THEN Append(p.worker[c].posts, e.doc)
                                  ELSE p.worker[c].posts
           /\ (told(c) /\ c \in Warm(p)) \/ q.worker[c] = p.worker[c]
  BY <1>2, <1>3, HandedFacts
<1> HIDE DEF q
<1>5. Warm(q) = Warm(p) /\ IsMachine(q) = IsMachine(p) /\ q.setup = p.setup
  BY <1>4 DEF Warm, SameWorkers, SameDesk, IsMachine
<1>6. Known(q) = Known(p)
  BY <1>1, <1>2, <1>4, Apart DEF Known
<1>7. e.doc \in Nat /\ e.doc <= n /\ e.doc # NoText
  BY <1>1, Apart DEF Sound, Documented, EditorSet
<1>8. Registered(q, n)
  <2>0. Registered(p, n) /\ q.minted = p.minted /\ q.shows = p.shows
    BY <1>4 DEF Sound, SameDesk
  <2>1. \A c \in Known(q) : c <= q.minted /\ q.text[c] <= n
    BY <1>4, <1>6, <1>7, <2>0 DEF Registered, Known
  <2>2. \A c \in Copies : q.worker[c].warm \/ q.worker[c] = Asleep
    BY <1>4, <1>5, <2>0 DEF Registered, Warm
  <2>3. ASSUME NEW c \in Warm(q) PROVE FollowsRecord(q, c)
    <3>0. c \in Copies /\ c \in Warm(p) /\ FollowsRecord(p, c) /\ IsSeq(p.worker[c].posts)
      <4>1. c \in Copies /\ c \in Warm(p) /\ FollowsRecord(p, c)
        BY <1>5, <2>0 DEF Registered, Warm
      <4>2. p.worker[c].posts \in Seq(Texts)
        BY <4>1 DEF Pages, WorkerSet
      <4> QED BY <4>1, <4>2, SeqIsSeq
    <3>1. CASE told(c)
      <4> DEFINE s == p.worker[c].posts
                 z == Append(s, e.doc)
      <4>1. q.worker[c].posts = z /\ q.text[c] = e.doc
        BY <1>4, <3>0, <3>1
      <4>2. z \in Seq(Range(s) \cup {e.doc}) /\ Len(z) = Len(s) + 1 /\ z[Len(s) + 1] = e.doc
            /\ Len(s) \in Nat
        <5>1. s \in Seq(Range(s) \cup {e.doc})
          <6>1. s \in Seq(Range(s))
            BY <3>0 DEF IsSeq
          <6> HIDE DEF s
          <6> QED BY <6>1, SeqMonotonic
        <5> HIDE DEF s
        <5> QED BY <5>1
      <4>3. z # <<>>
        BY <4>2
      <4> HIDE DEF z
      <4> QED BY <4>1, <4>2, <4>3 DEF FollowsRecord
    <3>2. CASE ~told(c)
      <4>1. /\ q.worker[c].posts = p.worker[c].posts /\ q.text[c] = p.text[c]
            /\ q.worker[c].holds = p.worker[c].holds
        BY <1>4, <3>0, <3>2
      <4> QED BY <1>5, <3>0, <4>1 DEF FollowsRecord
    <3> QED BY <3>1, <3>2
  <2> QED BY <1>5, <1>6, <2>0, <2>1, <2>2, <2>3 DEF Registered
<1>9. Documented(q, m, n)
  <2>0. Documented(p, m, n) /\ Seated(p) /\ q.minted = p.minted
    BY <1>4 DEF Sound, SameDesk
  <2>1. \A f \in q.editors :
          /\ f.of <= q.minted /\ f.doc <= n
          /\ ~f.timer /\ f.owed # NoText => f.owed = f.doc
    BY <1>3, <1>4, <2>0 DEF Documented
  <2>2. ASSUME IsMachine(q), NEW f \in q.editors
        PROVE  IF Owes(f) THEN f.doc = m[f.of] /\ q.text[f.of] <= f.doc
               ELSE q.text[f.of] \in {NoText, f.doc}
    <3>1. CASE f \in g
      BY <1>1, <1>3, <1>4, <1>5, <2>0, <2>2, <3>1 DEF Documented, Known
    <3>2. CASE f \notin g
      <4>1. f \in p.editors /\ f # e /\ f.of \in Copies
        BY <1>1, <1>4, <3>2 DEF EditorSet
      <4>2. f.of # e.of
        BY <1>5, <2>0, <2>2, <4>1 DEF Seated
      <4> QED BY <1>4, <1>5, <2>0, <2>2, <4>1, <4>2 DEF Documented
    <3> QED BY <3>1, <3>2
  <2>3. ASSUME IsMachine(q), NEW c \in Known(q), m[c] > Derived
        PROVE  q.text[c] = m[c] \/ \E f \in q.editors : f.of = c /\ Owes(f)
    <3>0. c \in Copies /\ c \in Known(p) /\ IsMachine(p)
      BY <1>5, <1>6, <2>3 DEF Known
    <3>1. CASE c = e.of /\ Owes(e)
      BY <1>4, <2>0, <3>0, <3>1 DEF Documented
    <3>2. CASE ~(c = e.of /\ Owes(e))
      <4>1. q.text[c] = p.text[c]
        BY <1>4, <3>0, <3>2
      <4>2. p.text[c] = m[c] \/ \E f \in p.editors : f.of = c /\ Owes(f)
        BY <2>0, <2>3, <3>0 DEF Documented
      <4> QED BY <1>4, <3>2, <4>1, <4>2
    <3> QED BY <3>1, <3>2
  <2> QED BY <2>1, <2>2, <2>3 DEF Documented
<1>10. Kept(p, q)
  BY <1>1, <1>3, <1>4 DEF Kept, OwedIn
<1>11. /\ Seated(q)
       /\ Resolved(p) => Resolved(q)
       /\ AtHome(p) => AtHome(q)
       /\ \A c \in Copies :
            Reached(p, c) /\ (g # {} \/ c # e.of \/ (e.at # Held /\ e \notin AtOwn(p)))
              => Reached(q, c)
  BY <1>3, <1>4, SwapSeated DEF Sound
<1> QED BY <1>4, <1>6, <1>8, <1>9, <1>10, <1>11 DEF Sound, q

-----------------------------------------------------------------------------
(* The calls that only hand over.                                           *)
LEMMA HandingOver ==
  ASSUME NEW p \in Pages, NEW e
  PROVE  /\ Flush(p, e) = Handed(p, e, {Flushed(e)})
         /\ Destroy(p, e) = Handed(p, e, {})
<1>1. Flush(p, e) = Handed(p, e, {Flushed(e)})
  BY DEF Flush, Change, Handed
<1>2. [p EXCEPT !.editors = @ \ {e}] = [p EXCEPT !.editors = (@ \ {e}) \cup {}]
  <2>1. p.editors \ {e} = (p.editors \ {e}) \cup {}
    OBVIOUS
  <2> QED BY <2>1
<1>3. Destroy(p, e) = Handed(p, e, {})
  BY <1>2 DEF Destroy, Handed
<1> QED BY <1>1, <1>3

(* Of the editors there are, the one taken is one.                          *)
LEMMA OneOf ==
  ASSUME NEW s, s # {} PROVE TheEditor(s) \in s
BY DEF TheEditor

Along(p, q, m, n) ==
    /\ Sound(q, m, n) /\ Kept(p, q) /\ SameDesk(p, q) /\ SameWorkers(p, q)
    /\ Known(q) = Known(p)
    /\ Resolved(p) => Resolved(q)
    /\ AtHome(p) => AtHome(q)
AllReachedStill(p, q) == \A c \in Copies : Reached(p, c) => Reached(q, c)

(* The calls that hand over follow on one another.                          *)
LEMMA AlongChains ==
  ASSUME NEW p \in Pages, NEW m, NEW n, Sound(p, m, n), NEW q \in Pages, NEW r \in Pages
  PROVE  /\ Along(p, p, m, n)
         /\ Along(p, q, m, n) /\ Along(q, r, m, n) => Along(p, r, m, n)
<1>1. Along(p, p, m, n)
  <2>1. Kept(p, p)
    BY KeptChains
  <2> QED BY <2>1 DEF Along, SameDesk, SameWorkers
<1>2. ASSUME Along(p, q, m, n), Along(q, r, m, n) PROVE Along(p, r, m, n)
  <2>1. Kept(p, r)
    BY <1>2, KeptChains DEF Along
  <2>2. SameDesk(p, r) /\ SameWorkers(p, r)
    BY <1>2 DEF Along, SameDesk, SameWorkers
  <2> QED BY <1>2, <2>1, <2>2 DEF Along
<1> QED BY <1>1, <1>2

(* A flush, and what it leaves unflushed.                                   *)
LEMMA FlushAlong ==
  ASSUME NEW p \in Pages, NEW m, NEW n \in Nat, Sound(p, m, n), NEW e \in p.editors
  PROVE  LET q == Flush(p, e) IN
         /\ q \in Pages /\ Along(p, q, m, n) /\ AllReachedStill(p, q)
         /\ q.editors = (p.editors \ {e}) \cup {Flushed(e)}
<1>1. Flush(p, e) = Handed(p, e, {Flushed(e)})
  BY HandingOver
<1> DEFINE q == Handed(p, e, {Flushed(e)})
<1>2. /\ Sound(q, m, n) /\ Kept(p, q) /\ SameDesk(p, q) /\ SameWorkers(p, q)
      /\ Known(q) = Known(p) /\ q.editors = (p.editors \ {e}) \cup {Flushed(e)}
      /\ Resolved(p) => Resolved(q)
      /\ AtHome(p) => AtHome(q)
      /\ \A c \in Copies : Reached(p, c) => Reached(q, c)
  BY HandedSound
<1> HIDE DEF q
<1>3. q \in Pages
  BY <1>2 DEF Sound
<1> QED BY <1>1, <1>2, <1>3 DEF Along, AllReachedStill, q

(* After every editor of a copy was asked for what he owes, none on a view  *)
(* of it owes anything.                                                     *)
LEMMA CopyFlushed ==
  ASSUME NEW p \in Pages, NEW m, NEW n \in Nat, Sound(p, m, n), NEW c \in Copies
  PROVE  LET q == FlushCopy(p, c) IN
         /\ q \in Pages /\ Along(p, q, m, n) /\ AllReachedStill(p, q)
         /\ \A f \in AtOwn(q) : f.of = c => ~Owes(f)
<1> DEFINE flush(q, his) == IF his = {} THEN q ELSE Flush(q, TheEditor(his))
           visit(q, l) == IF q.shows[l] = c THEN flush(q, On(q, l)) ELSE q
           p0 == flush(p, HeldFor(p, c))
           P == [k \in 0..Leaves |->
                   {q \in Pages : /\ Along(p, q, m, n) /\ AllReachedStill(p, q)
                                  /\ \A f \in AtOwn(q) : f.of = c /\ f.at \in 1..k => ~Owes(f)}]
           f == [k \in 1..Leaves |-> [q \in P[k - 1] |-> visit(q, k)]]
<1>0. Leaves \in Nat /\ Views = 1..Leaves
  BY Apart
<1>1. p0 \in P[0]
  <2>1. CASE HeldFor(p, c) = {}
    BY <1>0, <2>1, AlongChains DEF AllReachedStill
  <2>2. CASE HeldFor(p, c) # {}
    <3> DEFINE e == TheEditor(HeldFor(p, c))
    <3>1. e \in p.editors
      BY <2>2, OneOf DEF HeldFor
    <3>2. p0 = Flush(p, e)
      BY <2>2
    <3> HIDE DEF e, p0
    <3>3. p0 \in Pages /\ Along(p, p0, m, n) /\ AllReachedStill(p, p0)
      BY <3>1, <3>2, FlushAlong
    <3> QED BY <1>0, <3>3
  <2> QED BY <2>1, <2>2
<1>2. ASSUME NEW k \in 1..Leaves, NEW q \in P[k - 1] PROVE visit(q, k) \in P[k]
  <2>0. /\ k - 1 \in 0..Leaves /\ k \in 0..Leaves /\ k \in Views
        /\ q \in Pages /\ Along(p, q, m, n) /\ AllReachedStill(p, q) /\ Sound(q, m, n)
        /\ \A h \in AtOwn(q) : h.of = c /\ h.at \in 1..(k - 1) => ~Owes(h)
    BY <1>0 DEF Along
  <2>1. CASE q.shows[k] # c \/ On(q, k) = {}
    <3>1. visit(q, k) = q
      BY <2>1
    <3>2. ASSUME NEW h \in AtOwn(q), h.of = c, h.at \in 1..k PROVE ~Owes(h)
      <4>1. h.at # k
        BY <2>1, <3>2 DEF AtOwn, Mounted, On
      <4>2. h.at \in 1..(k - 1)
        BY <3>2, <4>1
      <4> QED BY <2>0, <3>2, <4>2
    <3> HIDE DEF visit
    <3> QED BY <2>0, <3>1, <3>2
  <2>2. CASE q.shows[k] = c /\ On(q, k) # {}
    <3> DEFINE e == TheEditor(On(q, k))
               r == Flush(q, e)
    <3>1. visit(q, k) = r
      BY <2>2
    <3>2. e \in q.editors /\ e.at = k
      BY <2>2, OneOf DEF On
    <3> HIDE DEF e, visit
    <3>3. /\ r \in Pages /\ Along(q, r, m, n) /\ AllReachedStill(q, r)
          /\ r.editors = (q.editors \ {e}) \cup {Flushed(e)}
      BY <2>0, <3>2, FlushAlong
    <3> HIDE DEF r
    <3>4. Along(p, r, m, n) /\ AllReachedStill(p, r)
      BY <2>0, <3>3, AlongChains DEF AllReachedStill
    <3>5. ASSUME NEW h \in AtOwn(r), h.of = c, h.at \in 1..k PROVE ~Owes(h)
      <4>1. CASE h = Flushed(e)
        <5>1. e \in EditorSet
          BY <3>2, <2>0 DEF Pages
        <5> QED BY <4>1, <5>1, FlushedFacts
      <4>2. CASE h # Flushed(e)
        <5>1. h \in q.editors /\ h # e /\ h \in Mounted(q)
          BY <3>3, <4>2 DEF AtOwn, Mounted
        <5>2. h.at # k
          BY <2>0, <3>2, <5>1 DEF Sound, Seated, Mounted
        <5>3. h \in AtOwn(q) /\ h.at \in 1..(k - 1)
          BY <3>3, <3>5, <5>1, <5>2 DEF AtOwn, Along, SameDesk
        <5> QED BY <2>0, <3>5, <5>3
      <4> QED BY <4>1, <4>2
    <3> QED BY <2>0, <3>1, <3>3, <3>4, <3>5
  <2> QED BY <2>1, <2>2
<1> HIDE DEF visit, P, p0
<1>3. PICK at : Walks(at, f, p0, Leaves, P)
  <2>1. \A k \in 1..Leaves : \A q \in P[k - 1] : f[k][q] \in P[k]
    BY <1>2
  <2> HIDE DEF f
  <2> QED BY <1>0, <1>1, <2>1, Turns
<1> DEFINE walk == CHOOSE a : a = [k \in 0..Leaves |-> IF k = 0 THEN p0 ELSE visit(a[k - 1], k)]
<1>4. walk = [k \in 0..Leaves |-> IF k = 0 THEN p0 ELSE visit(walk[k - 1], k)]
  <2>1. ASSUME NEW k \in 0..Leaves PROVE at[k] = IF k = 0 THEN p0 ELSE visit(at[k - 1], k)
    <3>1. k # 0 => k \in 1..Leaves /\ k - 1 \in 0..Leaves
      BY <1>0
    <3> QED BY <1>3, <3>1 DEF Walks
  <2>2. at = [k \in 0..Leaves |-> IF k = 0 THEN p0 ELSE visit(at[k - 1], k)]
    BY <1>3, <2>1 DEF Walks
  <2> QED BY <2>2
<1>5. FlushCopy(p, c) = walk[Leaves]
  BY DEF FlushCopy, InTurn, visit, p0
<1> HIDE DEF walk
<1>6. walk[Leaves] \in P[Leaves]
  <2>1. walk[0] = p0 /\ \A k \in 1..Leaves : walk[k] = visit(walk[k - 1], k)
    BY <1>0, <1>4
  <2>2. \A k \in 1..Leaves : walk[k - 1] \in P[k - 1] => walk[k] \in P[k]
    BY <1>2, <2>1
  <2> QED BY <1>0, <1>1, <2>1, <2>2, TurnsStay
<1> DEFINE q == FlushCopy(p, c)
<1>7. /\ q \in Pages /\ Along(p, q, m, n) /\ AllReachedStill(p, q)
      /\ \A h \in AtOwn(q) : h.of = c /\ h.at \in 1..Leaves => ~Owes(h)
  BY <1>0, <1>5, <1>6 DEF P
<1>8. \A h \in AtOwn(q) : h.at \in 1..Leaves
  BY <1>0 DEF AtOwn, Mounted
<1> HIDE DEF q
<1> QED BY <1>7, <1>8 DEF q

(* An editor that goes leaves every copy reached but the one it was reached *)
(* by.                                                                      *)
LEMMA DestroyAlong ==
  ASSUME NEW p \in Pages, NEW m, NEW n \in Nat, Sound(p, m, n), NEW e \in p.editors
  PROVE  LET q == Destroy(p, e) IN
         /\ q \in Pages /\ Along(p, q, m, n) /\ q.editors = p.editors \ {e}
         /\ \A c \in Copies :
              Reached(p, c) /\ (c # e.of \/ (e.at # Held /\ e \notin AtOwn(p))) => Reached(q, c)
<1>1. Destroy(p, e) = Handed(p, e, {})
  BY HandingOver
<1> DEFINE q == Handed(p, e, {})
<1>2. /\ Sound(q, m, n) /\ Kept(p, q) /\ SameDesk(p, q) /\ SameWorkers(p, q)
      /\ Known(q) = Known(p) /\ q.editors = (p.editors \ {e}) \cup {}
      /\ Resolved(p) => Resolved(q)
      /\ AtHome(p) => AtHome(q)
      /\ \A c \in Copies :
           Reached(p, c) /\ ({} # {} \/ c # e.of \/ (e.at # Held /\ e \notin AtOwn(p)))
             => Reached(q, c)
  BY HandedSound
<1> HIDE DEF q
<1>3. q \in Pages
  BY <1>2 DEF Sound
<1> QED BY <1>1, <1>2, <1>3 DEF Along, q

(* So does a view whose editor is taken off, of the copies it does not      *)
(* show.                                                                    *)
LEMMA UnsetAlong ==
  ASSUME NEW p \in Pages, NEW m, NEW n \in Nat, Sound(p, m, n), NEW l \in Views
  PROVE  LET q == UnsetEditor(p, l) IN
         /\ q \in Pages /\ Along(p, q, m, n) /\ q.editors = p.editors \ On(p, l)
         /\ \A c \in Copies : Reached(p, c) /\ c # p.shows[l] => Reached(q, c)
<1> DEFINE e == TheEditor(On(p, l))
<1>1. CASE On(p, l) = {}
  BY <1>1, AlongChains DEF UnsetEditor
<1>2. CASE On(p, l) # {}
  <2>1. e \in p.editors /\ e.at = l
    BY <1>2, OneOf DEF On
  <2>2. UnsetEditor(p, l) = Destroy(p, e)
    BY <1>2 DEF UnsetEditor
  <2> HIDE DEF e
  <2>3. On(p, l) = {e}
    <3>1. \A h \in On(p, l) : h \in Mounted(p) /\ h.at = e.at
      BY <2>1 DEF On, Mounted
    <3>2. e \in Mounted(p) /\ e \in On(p, l)
      BY <2>1 DEF On, Mounted
    <3> QED BY <3>1, <3>2 DEF Sound, Seated
  <2> DEFINE q == Destroy(p, e)
  <2>4. /\ q \in Pages /\ Along(p, q, m, n) /\ q.editors = p.editors \ {e}
        /\ \A c \in Copies :
              Reached(p, c) /\ (c # e.of \/ (e.at # Held /\ e \notin AtOwn(p))) => Reached(q, c)
    BY <2>1, DestroyAlong
  <2> HIDE DEF q
  <2>5. ASSUME NEW c \in Copies, c # p.shows[l]
        PROVE  c # e.of \/ (e.at # Held /\ e \notin AtOwn(p))
    BY <2>1, <2>5, Apart DEF AtOwn
  <2> QED BY <2>2, <2>3, <2>4, <2>5 DEF q
<1> QED BY <1>1, <1>2

(* After a frame is drawn every editor left on a view is of the copy shown. *)
LEMMA Drawn ==
  ASSUME NEW p \in Pages, NEW m, NEW n \in Nat, Sound(p, m, n)
  PROVE  LET q == Draw(p) IN
         /\ q \in Pages /\ Along(p, q, m, n) /\ AllReachedStill(p, q)
         /\ AtHome(p) => Settled(q)
<1> DEFINE visit(q, l) == IF q.shows[l] = Source THEN UnsetEditor(q, l) ELSE q
           P == [k \in 0..Leaves |->
                   {q \in Pages : /\ Along(p, q, m, n) /\ AllReachedStill(p, q)
                                  /\ \A f \in Mounted(q) :
                                       f.at \in 1..k => q.shows[f.at] # Source}]
           f == [k \in 1..Leaves |-> [q \in P[k - 1] |-> visit(q, k)]]
<1>0. Leaves \in Nat /\ Views = 1..Leaves
  BY Apart
<1>1. p \in P[0]
  BY <1>0, AlongChains DEF AllReachedStill
<1>2. ASSUME NEW k \in 1..Leaves, NEW q \in P[k - 1] PROVE visit(q, k) \in P[k]
  <2>0. /\ k - 1 \in 0..Leaves /\ k \in 0..Leaves /\ k \in Views
        /\ q \in Pages /\ Along(p, q, m, n) /\ AllReachedStill(p, q) /\ Sound(q, m, n)
        /\ \A h \in Mounted(q) : h.at \in 1..(k - 1) => q.shows[h.at] # Source
    BY <1>0 DEF Along
  <2>1. CASE q.shows[k] # Source
    <3>1. visit(q, k) = q
      BY <2>1
    <3>2. ASSUME NEW h \in Mounted(q), h.at \in 1..k PROVE q.shows[h.at] # Source
      <4>1. h.at = k \/ h.at \in 1..(k - 1)
        BY <3>2
      <4> QED BY <2>0, <2>1, <4>1
    <3> HIDE DEF visit
    <3> QED BY <2>0, <3>1, <3>2
  <2>2. CASE q.shows[k] = Source
    <3> DEFINE r == UnsetEditor(q, k)
    <3>1. visit(q, k) = r
      BY <2>2
    <3> HIDE DEF visit
    <3>2. /\ r \in Pages /\ Along(q, r, m, n) /\ r.editors = q.editors \ On(q, k)
          /\ \A c \in Copies : Reached(q, c) /\ c # q.shows[k] => Reached(r, c)
      BY <2>0, UnsetAlong
    <3> HIDE DEF r
    <3>3. Along(p, r, m, n)
      BY <2>0, <3>2, AlongChains
    <3>4. AllReachedStill(p, r)
      BY <2>0, <2>2, <3>2, Apart DEF AllReachedStill
    <3>5. ASSUME NEW h \in Mounted(r), h.at \in 1..k PROVE r.shows[h.at] # Source
      <4>1. h \in Mounted(q) /\ h.at # k
        BY <3>2 DEF Mounted, On
      <4>2. h.at \in 1..(k - 1)
        BY <3>5, <4>1
      <4> QED BY <2>0, <3>2, <4>1, <4>2 DEF Along, SameDesk
    <3> QED BY <2>0, <3>1, <3>2, <3>3, <3>4, <3>5
  <2> QED BY <2>1, <2>2
<1> HIDE DEF visit, P
<1>3. PICK at : Walks(at, f, p, Leaves, P)
  <2>1. \A k \in 1..Leaves : \A q \in P[k - 1] : f[k][q] \in P[k]
    BY <1>2
  <2> HIDE DEF f
  <2> QED BY <1>0, <1>1, <2>1, Turns
<1> DEFINE walk == CHOOSE a : a = [k \in 0..Leaves |-> IF k = 0 THEN p ELSE visit(a[k - 1], k)]
<1>4. walk = [k \in 0..Leaves |-> IF k = 0 THEN p ELSE visit(walk[k - 1], k)]
  <2>1. ASSUME NEW k \in 0..Leaves PROVE at[k] = IF k = 0 THEN p ELSE visit(at[k - 1], k)
    <3>1. k # 0 => k \in 1..Leaves /\ k - 1 \in 0..Leaves
      BY <1>0
    <3> QED BY <1>3, <3>1 DEF Walks
  <2>2. at = [k \in 0..Leaves |-> IF k = 0 THEN p ELSE visit(at[k - 1], k)]
    BY <1>3, <2>1 DEF Walks
  <2> QED BY <2>2
<1>5. Draw(p) = walk[Leaves]
  BY DEF Draw, InTurn, visit
<1> HIDE DEF walk
<1>6. walk[Leaves] \in P[Leaves]
  <2>1. walk[0] = p /\ \A k \in 1..Leaves : walk[k] = visit(walk[k - 1], k)
    BY <1>0, <1>4
  <2>2. \A k \in 1..Leaves : walk[k - 1] \in P[k - 1] => walk[k] \in P[k]
    BY <1>2, <2>1
  <2> QED BY <1>0, <1>1, <2>1, <2>2, TurnsStay
<1> DEFINE q == Draw(p)
<1>7. /\ q \in Pages /\ Along(p, q, m, n) /\ AllReachedStill(p, q)
      /\ \A h \in Mounted(q) : h.at \in 1..Leaves => q.shows[h.at] # Source
  BY <1>0, <1>5, <1>6 DEF P
<1> HIDE DEF q
<1>8. AtHome(p) => Settled(q)
  BY <1>0, <1>7 DEF Along, Sound, Seated, Settled, Resolved, AtOwn, Mounted
<1> QED BY <1>7, <1>8 DEF q

-----------------------------------------------------------------------------
(* Moving editors.  What a sweep keeps: all but the claims and where the    *)
(* editors are.                                                             *)
Across(p, q, m, n) ==
    /\ Sound(q, m, n) /\ Kept(p, q) /\ SameWorkers(p, q) /\ Known(q) = Known(p)
    /\ q.setup = p.setup /\ q.minted = p.minted /\ q.shows = p.shows
    /\ Resolved(p) => Resolved(q)
    /\ AllReachedStill(p, q)

(* It holds of a chain that does nothing, of one after another, and of one  *)
(* that hands over.                                                         *)
LEMMA AcrossChains ==
  ASSUME NEW p \in Pages, NEW m, NEW n, Sound(p, m, n), NEW q \in Pages, NEW r \in Pages
  PROVE  /\ Across(p, p, m, n)
         /\ Across(p, q, m, n) /\ Across(q, r, m, n) => Across(p, r, m, n)
         /\ Along(p, q, m, n) /\ AllReachedStill(p, q) => Across(p, q, m, n)
<1>1. Across(p, p, m, n)
  <2>1. Kept(p, p)
    BY KeptChains
  <2> QED BY <2>1 DEF Across, SameWorkers, AllReachedStill
<1>2. ASSUME Across(p, q, m, n), Across(q, r, m, n) PROVE Across(p, r, m, n)
  <2>1. Kept(p, r)
    BY <1>2, KeptChains DEF Across
  <2>2. SameWorkers(p, r) /\ AllReachedStill(p, r)
    BY <1>2 DEF Across, SameWorkers, AllReachedStill
  <2> QED BY <1>2, <2>1, <2>2 DEF Across
<1>3. Along(p, q, m, n) /\ AllReachedStill(p, q) => Across(p, q, m, n)
  BY DEF Along, Across, SameDesk
<1> QED BY <1>1, <1>2, <1>3

(* An editor goes to its copy's home, where there is none; no other view of *)
(* the copy has one.                                                        *)
LEMMA PlacedAcross ==
  ASSUME NEW p \in Pages, NEW m, NEW n, Sound(p, m, n), NEW e \in p.editors,
         NEW l \in Views, HomeFor(p, e.of) = l, On(p, l) = {},
         \A h \in AtOwn(p) : h.of = e.of => h = e
  PROVE  LET q == Place(p, e, l) IN
         /\ q \in Pages /\ Across(p, q, m, n)
         /\ q.claims = p.claims /\ q.thrown = p.thrown
         /\ \A h \in AtOwn(q) : \/ h \in AtOwn(p) /\ h # e
                                \/ h.of = e.of /\ h.at = l
<1> DEFINE x == [e EXCEPT !.at = l]
           q == Place(p, e, l)
           c == e.of
<1>1. /\ e \in EditorSet /\ c \in Copies /\ x \in EditorSet
      /\ x.of = c /\ x.at = l /\ x.doc = e.doc /\ x.timer = e.timer /\ x.owed = e.owed
      /\ Owes(x) = Owes(e)
  BY DEF Pages, EditorSet, Owes
<1> HIDE DEF x
<1>2. /\ q \in Pages /\ q.editors = (p.editors \ {e}) \cup {x}
      /\ q.setup = p.setup /\ q.minted = p.minted /\ q.shows = p.shows
      /\ q.claims = p.claims /\ q.thrown = p.thrown
      /\ q.text = p.text /\ q.worker = p.worker
  BY <1>1 DEF Pages, Place, Change, x
<1> HIDE DEF q
<1>3. /\ p.claims[c] = l /\ p.shows[l] = c /\ l # Nobody
      /\ \A d \in Copies : HomeFor(q, d) = HomeFor(p, d) /\ ViewsOf(q, d) = ViewsOf(p, d)
      /\ Known(q) = Known(p) /\ Warm(q) = Warm(p) /\ IsMachine(q) = IsMachine(p)
  <2>1. p.claims[c] = l /\ p.shows[l] = c /\ l # Nobody
    BY Apart DEF HomeFor
  <2> QED BY <1>2, <2>1 DEF HomeFor, ViewsOf, Known, Warm, IsMachine
<1>4. /\ Mounted(q) = (Mounted(p) \ {e}) \cup {x}
      /\ AtOwn(q) = (AtOwn(p) \ {e}) \cup {x}
      /\ \A h \in Mounted(p) : h.at # l
      /\ \A h \in AtOwn(p) : h = e \/ h.of # c
  BY <1>1, <1>2, <1>3 DEF Mounted, AtOwn, On
<1>5. Seated(q)
  <2>0. Seated(p)
    BY DEF Sound
  <2>1. \A f, h \in Mounted(q) : f.at = h.at => f = h
    BY <1>1, <1>4, <2>0 DEF Seated
  <2>2. \A f, h \in q.editors : f.at = Held /\ h.at = Held /\ f.of = h.of => f = h
    BY <1>1, <1>2, <2>0, Apart DEF Seated
  <2>3. \A f \in Mounted(q) : q.shows[f.at] \in {Source, f.of}
    BY <1>1, <1>2, <1>3, <1>4, <2>0 DEF Seated
  <2>4. \A f, h \in AtOwn(q) : f.of = h.of => f = h
    BY <1>1, <1>4, <2>0 DEF Seated
  <2>5. \A f \in AtOwn(q) : HomeFor(q, f.of) # Nobody
    <3> SUFFICES ASSUME NEW f \in AtOwn(q) PROVE HomeFor(q, f.of) # Nobody
      OBVIOUS
    <3>1. CASE f = x
      <4>1. HomeFor(q, c) = l
        BY <1>1, <1>3
      <4> QED BY <1>1, <1>3, <3>1, <4>1
    <3>2. CASE f # x
      <4>1. f \in AtOwn(p) /\ f.of \in Copies
        BY <1>4, <3>2 DEF AtOwn, Mounted, Pages, EditorSet
      <4> QED BY <1>3, <2>0, <4>1 DEF Seated
    <3> QED BY <3>1, <3>2
  <2>6. ASSUME IsMachine(q)
        PROVE  /\ \A f \in q.editors : f.at \in Views
               /\ \A f, h \in q.editors : f.of = h.of => f = h
    BY <1>1, <1>2, <1>3, <2>0, <2>6 DEF Seated
  <2> QED BY <2>1, <2>2, <2>3, <2>4, <2>5, <2>6 DEF Seated
<1>6. Registered(q, n)
  BY <1>2, <1>3 DEF Sound, Registered, FollowsRecord
<1>7. Documented(q, m, n)
  <2>0. Documented(p, m, n)
    BY DEF Sound
  <2>1. \A f \in q.editors :
          /\ f.of <= q.minted /\ f.doc <= n
          /\ ~f.timer /\ f.owed # NoText => f.owed = f.doc
    BY <1>1, <1>2, <2>0 DEF Documented
  <2>2. ASSUME IsMachine(q), NEW f \in q.editors
        PROVE  IF Owes(f) THEN f.doc = m[f.of] /\ q.text[f.of] <= f.doc
               ELSE q.text[f.of] \in {NoText, f.doc}
    <3>1. CASE f = x
      BY <1>1, <1>2, <1>3, <2>0, <2>2, <3>1 DEF Documented
    <3>2. CASE f # x
      BY <1>2, <1>3, <2>0, <2>2, <3>2 DEF Documented
    <3> QED BY <3>1, <3>2
  <2>3. ASSUME IsMachine(q), NEW d \in Known(q), m[d] > Derived
        PROVE  q.text[d] = m[d] \/ \E f \in q.editors : f.of = d /\ Owes(f)
    <3>1. p.text[d] = m[d] \/ \E f \in p.editors : f.of = d /\ Owes(f)
      BY <1>3, <2>0, <2>3 DEF Documented
    <3>2. ASSUME NEW f \in p.editors, f.of = d, Owes(f)
          PROVE  \E h \in q.editors : h.of = d /\ Owes(h)
      BY <1>1, <1>2, <3>2
    <3> QED BY <1>2, <3>1, <3>2
  <2> QED BY <2>1, <2>2, <2>3 DEF Documented
<1>8. Kept(p, q)
  <2>1. ASSUME NEW f \in q.editors, Owes(f) PROVE OwedIn(p, f.of, f.doc)
    BY <1>1, <1>2, <2>1 DEF OwedIn
  <2> QED BY <1>2, <2>1 DEF Kept
<1>9. AllReachedStill(p, q)
  <2> SUFFICES ASSUME NEW d \in Copies, Reached(p, d) PROVE Reached(q, d)
    BY DEF AllReachedStill
  <2>1. CASE d = c
    <3>1. x \in q.editors /\ x.of = d /\ x \in AtOwn(q)
      BY <1>1, <1>2, <1>4, <2>1
    <3> QED BY <3>1 DEF Reached
  <2>2. CASE d # c
    BY <1>2, <1>3, <1>4, <2>2 DEF Reached
  <2> QED BY <2>1, <2>2
<1>10. Resolved(p) => Resolved(q)
  BY <1>1, <1>2, <1>3, <1>4 DEF Resolved
<1>11. Across(p, q, m, n)
  BY <1>2, <1>3, <1>5, <1>6, <1>7, <1>8, <1>9, <1>10 DEF Across, Sound, SameWorkers
<1> QED BY <1>1, <1>2, <1>4, <1>11 DEF q

(* What changes only that the sweep has thrown, or claims, and leaves each  *)
(* view's editor a home, moves nothing.                                     *)
LEMMA OtherwiseSame ==
  ASSUME NEW p \in Pages, NEW m, NEW n, Sound(p, m, n), NEW q \in Pages,
         q.setup = p.setup, q.minted = p.minted, q.shows = p.shows,
         q.text = p.text, q.worker = p.worker, q.editors = p.editors,
         \A e \in AtOwn(p) : HomeFor(q, e.of) # Nobody
  PROVE  Across(p, q, m, n) /\ AtOwn(q) = AtOwn(p) /\ Mounted(q) = Mounted(p)
<1>1. /\ Mounted(q) = Mounted(p) /\ AtOwn(q) = AtOwn(p) /\ Known(q) = Known(p)
      /\ Warm(q) = Warm(p) /\ IsMachine(q) = IsMachine(p)
      /\ \A d \in Copies : ViewsOf(q, d) = ViewsOf(p, d)
  BY DEF Mounted, AtOwn, Known, Warm, IsMachine, ViewsOf
<1>2. Seated(q)
  BY <1>1 DEF Sound, Seated
<1>3. Registered(q, n)
  BY <1>1 DEF Sound, Registered, FollowsRecord
<1>4. Documented(q, m, n)
  BY <1>1 DEF Sound, Documented
<1>5. Kept(p, q)
  BY DEF Kept, OwedIn
<1>6. AllReachedStill(p, q)
  BY <1>1 DEF AllReachedStill, Reached
<1> QED BY <1>1, <1>2, <1>3, <1>4, <1>5, <1>6 DEF Across, Sound, Resolved, SameWorkers

(* One view asked for the editor it should no longer have.                  *)
LEMMA ViewSwept ==
  ASSUME NEW p \in Pages, NEW m, NEW n, Sound(p, m, n), NEW c \in Copies,
         NEW l \in Views, p.thrown = FALSE
  PROVE  LET home == HomeFor(p, c)
             q == SweepView(p, c, home, l) IN
         /\ q \in Pages /\ Across(p, q, m, n)
         /\ q.claims = p.claims /\ q.thrown = FALSE
         /\ \A h \in AtOwn(q) : \/ h \in AtOwn(p) /\ (h.of = c /\ h.at = l => home = l)
                                \/ h.of = c /\ h.at = home
<1> DEFINE home == HomeFor(p, c)
           q == SweepView(p, c, home, l)
           e == TheEditor(On(p, l))
<1>1. CASE l = home \/ p.shows[l] # c \/ On(p, l) = {}
  <2>1. q = p
    BY <1>1 DEF SweepView
  <2>2. Across(p, p, m, n)
    BY AcrossChains
  <2>3. ASSUME NEW h \in AtOwn(p), h.of = c, h.at = l PROVE home = l
    BY <1>1, <2>3 DEF AtOwn, Mounted, On
  <2> HIDE DEF q, home
  <2> QED BY <2>1, <2>2, <2>3 DEF q, home
<1>2. CASE ~(l = home \/ p.shows[l] # c \/ On(p, l) = {})
  <2>1. e \in Mounted(p) /\ e.at = l
    BY <1>2, OneOf DEF On, Mounted
  <2> HIDE DEF e
  <2>2. e \in AtOwn(p) /\ e.of = c
    BY <1>2, <2>1, Apart DEF Sound, Seated, AtOwn
  <2>3. home \in Views /\ p.shows[home] = c
    BY <2>2, Apart DEF Sound, Seated, HomeFor, Pages
  <2>4. \A h \in AtOwn(p) : h.of = e.of => h = e
    BY <2>2 DEF Sound, Seated
  <2>5. On(p, home) = {}
    <3> SUFFICES ASSUME NEW h \in On(p, home) PROVE FALSE
      OBVIOUS
    <3>1. h \in Mounted(p) /\ h.at = home
      BY <2>3 DEF On, Mounted
    <3> HIDE DEF home
    <3>2. h \in AtOwn(p) /\ h.of = c
      BY <2>3, <3>1, Apart DEF Sound, Seated, AtOwn
    <3> QED BY <1>2, <2>1, <2>2, <2>4, <3>1, <3>2
  <2>6. q = Place(p, e, home)
    BY <1>2, <2>3, <2>5, Apart DEF SweepView, e
  <2>7. HomeFor(p, e.of) = home /\ e \in p.editors
    BY <2>1, <2>2 DEF Mounted
  <2> HIDE DEF home, q
  <2> DEFINE r == Place(p, e, home)
  <2>8. /\ r \in Pages /\ Across(p, r, m, n)
        /\ r.claims = p.claims /\ r.thrown = p.thrown
        /\ \A h \in AtOwn(r) : \/ h \in AtOwn(p) /\ h # e
                               \/ h.of = e.of /\ h.at = home
    BY <2>3, <2>4, <2>5, <2>7, PlacedAcross
  <2> HIDE DEF r
  <2>9. ASSUME NEW h \in AtOwn(p), h # e, h.of = c PROVE FALSE
    BY <2>2, <2>4, <2>9
  <2> QED BY <2>2, <2>6, <2>8, <2>9 DEF r, q, home
<1> QED BY <1>1, <1>2

(* The views of a copy asked in turn.                                       *)
LEMMA ClaimWalked ==
  ASSUME NEW p \in Pages, NEW m, NEW n, Sound(p, m, n), NEW c \in Copies,
         p.thrown = FALSE, p.claims[c] # Nobody, c \in Warm(p)
  PROVE  LET q == SweepClaim(p, c) IN
         /\ q \in Pages /\ Across(p, q, m, n) /\ q.thrown = FALSE
         /\ HomeOnly(q, c) /\ \A d \in Copies : HomeOnly(p, d) => HomeOnly(q, d)
<1> DEFINE visit(q, l) == SweepView(q, c, HomeFor(p, c), l)
           P == [k \in 0..Leaves |->
                   {q \in Pages : /\ Across(p, q, m, n) /\ q.claims = p.claims /\ q.thrown = FALSE
                                  /\ \A d \in Copies : HomeOnly(p, d) => HomeOnly(q, d)
                                  /\ \A h \in AtOwn(q) :
                                       h.of = c /\ h.at \in 1..k => h.at = HomeFor(p, c)}]
           f == [k \in 1..Leaves |-> [q \in P[k - 1] |-> visit(q, k)]]
<1>0. Leaves \in Nat /\ Views = 1..Leaves
  BY Apart
<1>1. p \in P[0]
  BY <1>0, AcrossChains
<1>2. ASSUME NEW k \in 1..Leaves, NEW q \in P[k - 1] PROVE visit(q, k) \in P[k]
  <2> DEFINE r == SweepView(q, c, HomeFor(q, c), k)
  <2>0. /\ k - 1 \in 0..Leaves /\ k \in 0..Leaves /\ k \in Views
        /\ q \in Pages /\ Across(p, q, m, n) /\ Sound(q, m, n)
        /\ q.claims = p.claims /\ q.thrown = FALSE
        /\ \A d \in Copies : HomeOnly(p, d) => HomeOnly(q, d)
        /\ \A h \in AtOwn(q) : h.of = c /\ h.at \in 1..(k - 1) => h.at = HomeFor(p, c)
    BY <1>0 DEF Across
  <2>1. HomeFor(q, c) = HomeFor(p, c)
    BY <2>0 DEF HomeFor, Across
  <2>2. visit(q, k) = r
    BY <2>1
  <2>3. /\ r \in Pages /\ Across(q, r, m, n)
        /\ r.claims = q.claims /\ r.thrown = FALSE
        /\ \A h \in AtOwn(r) :
             \/ h \in AtOwn(q) /\ (h.of = c /\ h.at = k => HomeFor(q, c) = k)
             \/ h.of = c /\ h.at = HomeFor(q, c)
    BY <2>0, ViewSwept
  <2>4. /\ r \in Pages /\ Across(q, r, m, n)
        /\ r.claims = q.claims /\ r.thrown = FALSE
        /\ \A h \in AtOwn(r) : \/ h \in AtOwn(q) /\ (h.of = c /\ h.at = k => HomeFor(p, c) = k)
                               \/ h.of = c /\ h.at = HomeFor(p, c)
    BY <2>1, <2>3
  <2> HIDE DEF r
  <2>5. Across(p, r, m, n)
    BY <2>0, <2>4, AcrossChains
  <2>6. ASSUME NEW h \in AtOwn(r), h.of = c, h.at \in 1..k PROVE h.at = HomeFor(p, c)
    <3>1. h.at = k \/ h.at \in 1..(k - 1)
      BY <2>6
    <3> QED BY <2>0, <2>4, <2>6, <3>1
  <2>7. ASSUME NEW d \in Copies, HomeOnly(p, d), NEW h \in AtOwn(r), h.of = d
        PROVE  r.claims[d] = h.at
    <3>1. CASE h \in AtOwn(q)
      BY <2>0, <2>4, <2>7, <3>1 DEF HomeOnly
    <3>2. CASE h.of = c /\ h.at = HomeFor(p, c)
      <4>1. h.at # Nobody
        BY Apart DEF AtOwn, Mounted
      <4> QED BY <2>0, <2>4, <2>7, <3>2, <4>1 DEF HomeFor
    <3> QED BY <2>4, <3>1, <3>2
  <2> QED BY <2>0, <2>4, <2>5, <2>6, <2>7, <2>2 DEF HomeOnly
<1> HIDE DEF visit, P
<1>3. PICK at : Walks(at, f, p, Leaves, P)
  <2>1. \A k \in 1..Leaves : \A q \in P[k - 1] : f[k][q] \in P[k]
    BY <1>2
  <2> HIDE DEF f
  <2> QED BY <1>0, <1>1, <2>1, Turns
<1> DEFINE walk == CHOOSE a : a = [k \in 0..Leaves |-> IF k = 0 THEN p ELSE visit(a[k - 1], k)]
<1>4. walk = [k \in 0..Leaves |-> IF k = 0 THEN p ELSE visit(walk[k - 1], k)]
  <2>1. ASSUME NEW k \in 0..Leaves PROVE at[k] = IF k = 0 THEN p ELSE visit(at[k - 1], k)
    <3>1. k # 0 => k \in 1..Leaves /\ k - 1 \in 0..Leaves
      BY <1>0
    <3> QED BY <1>3, <3>1 DEF Walks
  <2>2. at = [k \in 0..Leaves |-> IF k = 0 THEN p ELSE visit(at[k - 1], k)]
    BY <1>3, <2>1 DEF Walks
  <2> QED BY <2>2
<1>5. SweepClaim(p, c) = walk[Leaves]
  BY DEF SweepClaim, InTurn, visit
<1> HIDE DEF walk
<1>6. walk[Leaves] \in P[Leaves]
  <2>1. walk[0] = p /\ \A k \in 1..Leaves : walk[k] = visit(walk[k - 1], k)
    BY <1>0, <1>4
  <2>2. \A k \in 1..Leaves : walk[k - 1] \in P[k - 1] => walk[k] \in P[k]
    BY <1>2, <2>1
  <2> QED BY <1>0, <1>1, <2>1, <2>2, TurnsStay
<1> DEFINE q == SweepClaim(p, c)
<1>7. /\ q \in Pages /\ Across(p, q, m, n) /\ q.claims = p.claims /\ q.thrown = FALSE
      /\ \A d \in Copies : HomeOnly(p, d) => HomeOnly(q, d)
      /\ \A h \in AtOwn(q) : h.of = c /\ h.at \in 1..Leaves => h.at = HomeFor(p, c)
  BY <1>0, <1>5, <1>6 DEF P
<1> HIDE DEF q
<1>8. HomeOnly(q, c)
  <2> SUFFICES ASSUME NEW h \in AtOwn(q), h.of = c PROVE q.claims[c] = h.at
    BY DEF HomeOnly
  <2>1. h.at \in Views /\ h.at = HomeFor(p, c)
    BY <1>0, <1>7 DEF AtOwn, Mounted
  <2> QED BY <1>7, <2>1, Apart DEF HomeFor
<1> QED BY <1>7, <1>8 DEF q

(* The editor of a copy is swept to its home, and the others' stay.         *)
LEMMA ClaimSwept ==
  ASSUME NEW p \in Pages, NEW m, NEW n, Sound(p, m, n), NEW c \in Copies,
         p.thrown = FALSE
  PROVE  LET q == SweepClaim(p, c) IN
         /\ q \in Pages /\ Across(p, q, m, n) /\ q.thrown = FALSE
         /\ HomeOnly(q, c) /\ \A d \in Copies : HomeOnly(p, d) => HomeOnly(q, d)
<1>1. CASE p.claims[c] = Nobody
  <2>1. SweepClaim(p, c) = p
    BY <1>1 DEF SweepClaim
  <2>2. HomeOnly(p, c)
    BY <1>1 DEF HomeOnly, Sound, Seated, HomeFor
  <2> QED BY <2>1, <2>2, AcrossChains
<1>2. CASE p.claims[c] # Nobody /\ c \notin Warm(p)
  <2> DEFINE q == Claim(p, c, Nobody)
  <2>1. SweepClaim(p, c) = q
    BY <1>2 DEF SweepClaim
  <2>2. /\ q \in Pages /\ q.setup = p.setup /\ q.minted = p.minted /\ q.shows = p.shows
        /\ q.text = p.text /\ q.worker = p.worker /\ q.editors = p.editors
        /\ q.thrown = p.thrown
        /\ \A d \in Copies : d # c => q.claims[d] = p.claims[d]
    BY DEF Pages, Claim
  <2>3. \A e \in AtOwn(p) : e.of # c /\ e.of \in Copies
    BY <1>2, Apart DEF AtOwn, Mounted, Sound, Registered, Pages, EditorSet
  <2> HIDE DEF q
  <2>4. \A e \in AtOwn(p) : HomeFor(q, e.of) # Nobody
    BY <2>2, <2>3 DEF Sound, Seated, HomeFor
  <2>5. Across(p, q, m, n) /\ AtOwn(q) = AtOwn(p)
    BY <2>2, <2>4, OtherwiseSame
  <2>6. HomeOnly(q, c) /\ \A d \in Copies : HomeOnly(p, d) => HomeOnly(q, d)
    BY <2>2, <2>3, <2>5 DEF HomeOnly
  <2> QED BY <2>1, <2>2, <2>5, <2>6
<1>3. CASE p.claims[c] # Nobody /\ c \in Warm(p)
  BY <1>3, ClaimWalked
<1> QED BY <1>1, <1>2, <1>3

(* An editor in custody goes to the home of its copy, or with the copy.     *)
LEMMA HeldSwept ==
  ASSUME NEW p \in Pages, NEW m, NEW n \in Nat, Sound(p, m, n), NEW c \in Copies, AtHome(p)
  PROVE  LET q == SweepHeld(p, c) IN
         q \in Pages /\ Across(p, q, m, n) /\ AtHome(q)
<1> DEFINE home == HomeFor(p, c)
           e == TheEditor(HeldFor(p, c))
           q == SweepHeld(p, c)
<1>1. CASE p.thrown \/ HeldFor(p, c) = {} \/ (home = Nobody /\ c \in Warm(p))
  <2>1. q = p
    BY <1>1 DEF SweepHeld
  <2> HIDE DEF q
  <2> QED BY <2>1, AcrossChains DEF q
<1>2. CASE ~(p.thrown \/ HeldFor(p, c) = {} \/ (home = Nobody /\ c \in Warm(p)))
  <2>1. e \in p.editors /\ e.at = Held /\ e.of = c
    BY <1>2, OneOf DEF HeldFor
  <2>2. CASE home = Nobody
    <3> DEFINE r == Destroy(p, e)
    <3>1. q = r
      BY <1>2, <2>2 DEF SweepHeld
    <3> HIDE DEF e, q
    <3>2. /\ r \in Pages /\ Along(p, r, m, n)
          /\ \A d \in Copies :
              Reached(p, d) /\ (d # e.of \/ (e.at # Held /\ e \notin AtOwn(p))) => Reached(r, d)
      BY <2>1, DestroyAlong
    <3> HIDE DEF r
    <3>3. Reached(r, c)
      <4>1. ViewsOf(p, c) = {}
        BY <1>2, <2>2, Apart DEF ViewsOf, Sound, Registered
      <4> QED BY <3>2, <4>1 DEF Along, SameDesk, ViewsOf, Reached
    <3>4. AllReachedStill(p, r)
      BY <2>1, <3>2, <3>3 DEF AllReachedStill
    <3>5. Across(p, r, m, n)
      BY <3>2, <3>4, AcrossChains
    <3> QED BY <3>1, <3>2, <3>5 DEF Along, q
  <2>3. CASE home # Nobody /\ On(p, home) = {}
    <3> DEFINE r == Place(p, e, home)
    <3>1. q = r
      BY <1>2, <2>3 DEF SweepHeld
    <3>2. home \in Views /\ HomeFor(p, e.of) = home /\ p.claims[c] = home
      BY <2>1, <2>3, Apart DEF HomeFor, Pages
    <3> HIDE DEF e, q, home
    <3>3. ASSUME NEW h \in AtOwn(p), h.of = e.of PROVE h = e
      <4>1. h.at = home /\ h \in p.editors
        BY <2>1, <3>2, <3>3 DEF AtHome, HomeOnly, AtOwn, Mounted
      <4> QED BY <2>3, <4>1 DEF On
    <3>4. /\ r \in Pages /\ Across(p, r, m, n) /\ r.claims = p.claims
          /\ \A h \in AtOwn(r) : \/ h \in AtOwn(p) /\ h # e
                                 \/ h.of = e.of /\ h.at = home
      BY <2>1, <2>3, <3>2, <3>3, PlacedAcross
    <3> HIDE DEF r
    <3>5. AtHome(r)
      BY <2>1, <3>2, <3>4 DEF AtHome, HomeOnly
    <3> QED BY <3>1, <3>4, <3>5 DEF q
  <2>4. CASE home # Nobody /\ On(p, home) # {}
    <3> DEFINE r == [p EXCEPT !.thrown = TRUE]
    <3>1. q = r
      BY <1>2, <2>4 DEF SweepHeld
    <3>2. /\ r \in Pages /\ r.setup = p.setup /\ r.minted = p.minted /\ r.shows = p.shows
          /\ r.text = p.text /\ r.worker = p.worker /\ r.editors = p.editors
          /\ r.claims = p.claims
      BY DEF Pages
    <3> HIDE DEF r, q
    <3>3. \A h \in AtOwn(p) : HomeFor(r, h.of) # Nobody
      BY <3>2 DEF Sound, Seated, HomeFor
    <3>4. Across(p, r, m, n) /\ AtOwn(r) = AtOwn(p)
      BY <3>2, <3>3, OtherwiseSame
    <3>5. AtHome(r)
      BY <3>2, <3>4 DEF AtHome, HomeOnly
    <3> QED BY <3>1, <3>2, <3>4, <3>5 DEF q
  <2> QED BY <2>2, <2>3, <2>4
<1> QED BY <1>1, <1>2

(* The claims are swept, in any order: every view's editor is at home then. *)
LEMMA ClaimsSwept ==
  ASSUME NEW p \in Pages, NEW m, NEW n, Sound(p, m, n), p.thrown = FALSE,
         NEW order \in Orders
  PROVE  LET q == SweepClaims(p, order) IN
         q \in Pages /\ Across(p, q, m, n) /\ AtHome(q)
<1> DEFINE visit(q, i) == SweepClaim(q, order[i])
           P == [k \in 0..MaxCopies |->
                   {q \in Pages : /\ Across(p, q, m, n) /\ q.thrown = FALSE
                                  /\ \A i \in 1..k : HomeOnly(q, order[i])}]
           f == [k \in 1..MaxCopies |-> [q \in P[k - 1] |-> visit(q, k)]]
<1>0. /\ MaxCopies \in Nat /\ Copies = 1..MaxCopies
      /\ \A i \in 1..MaxCopies : order[i] \in Copies
      /\ \A c \in Copies : \E i \in 1..MaxCopies : order[i] = c
  BY Apart DEF Orders
<1>1. p \in P[0]
  BY <1>0, AcrossChains
<1>2. ASSUME NEW k \in 1..MaxCopies, NEW q \in P[k - 1] PROVE visit(q, k) \in P[k]
  <2> DEFINE c == order[k]
             r == SweepClaim(q, c)
  <2>0. /\ k - 1 \in 0..MaxCopies /\ k \in 0..MaxCopies /\ c \in Copies
        /\ q \in Pages /\ Across(p, q, m, n) /\ Sound(q, m, n) /\ q.thrown = FALSE
        /\ \A i \in 1..(k - 1) : HomeOnly(q, order[i])
    BY <1>0 DEF Across
  <2>1. visit(q, k) = r
    OBVIOUS
  <2> HIDE DEF visit, c
  <2>2. /\ r \in Pages /\ Across(q, r, m, n) /\ r.thrown = FALSE
        /\ HomeOnly(r, c) /\ \A d \in Copies : HomeOnly(q, d) => HomeOnly(r, d)
    BY <2>0, ClaimSwept
  <2> HIDE DEF r
  <2>3. Across(p, r, m, n)
    BY <2>0, <2>2, AcrossChains
  <2>4. ASSUME NEW i \in 1..k PROVE HomeOnly(r, order[i])
    <3>1. CASE i = k
      BY <2>2, <3>1 DEF c
    <3>2. CASE i # k
      <4>1. i \in 1..(k - 1) /\ order[i] \in Copies
        BY <1>0, <3>2
      <4> QED BY <2>0, <2>2, <4>1
    <3> QED BY <3>1, <3>2
  <2> QED BY <2>0, <2>1, <2>2, <2>3, <2>4
<1> HIDE DEF visit, P
<1>3. PICK at : Walks(at, f, p, MaxCopies, P)
  <2>1. \A k \in 1..MaxCopies : \A q \in P[k - 1] : f[k][q] \in P[k]
    BY <1>2
  <2> HIDE DEF f
  <2> QED BY <1>0, <1>1, <2>1, Turns
<1> DEFINE walk == CHOOSE a : a = [k \in 0..MaxCopies |-> IF k = 0 THEN p ELSE visit(a[k - 1], k)]
<1>4. walk = [k \in 0..MaxCopies |-> IF k = 0 THEN p ELSE visit(walk[k - 1], k)]
  <2>1. ASSUME NEW k \in 0..MaxCopies PROVE at[k] = IF k = 0 THEN p ELSE visit(at[k - 1], k)
    <3>1. k # 0 => k \in 1..MaxCopies /\ k - 1 \in 0..MaxCopies
      BY <1>0
    <3> QED BY <1>3, <3>1 DEF Walks
  <2>2. at = [k \in 0..MaxCopies |-> IF k = 0 THEN p ELSE visit(at[k - 1], k)]
    BY <1>3, <2>1 DEF Walks
  <2> QED BY <2>2
<1>5. SweepClaims(p, order) = walk[MaxCopies]
  BY DEF SweepClaims, InTurn, visit
<1> HIDE DEF walk
<1>6. walk[MaxCopies] \in P[MaxCopies]
  <2>1. walk[0] = p /\ \A k \in 1..MaxCopies : walk[k] = visit(walk[k - 1], k)
    <3>1. 0 \in 0..MaxCopies /\ \A k \in 1..MaxCopies : k \in 0..MaxCopies /\ k # 0
      BY <1>0
    <3> QED BY <1>4, <3>1
  <2>2. \A k \in 1..MaxCopies : walk[k - 1] \in P[k - 1] => walk[k] \in P[k]
    BY <1>2, <2>1
  <2> QED BY <1>0, <1>1, <2>1, <2>2, TurnsStay
<1> DEFINE q == SweepClaims(p, order)
<1>7. q \in Pages /\ Across(p, q, m, n) /\ \A i \in 1..MaxCopies : HomeOnly(q, order[i])
  BY <1>0, <1>5, <1>6 DEF P
<1> HIDE DEF q
<1>8. AtHome(q)
  BY <1>0, <1>7 DEF AtHome
<1>9. q \in Pages /\ Across(p, q, m, n) /\ AtHome(q)
  BY <1>7, <1>8
<1> QED BY <1>9 DEF q

(* Then custody is.                                                         *)
LEMMA CustodySwept ==
  ASSUME NEW p \in Pages, NEW m, NEW n \in Nat, Sound(p, m, n), AtHome(p),
         NEW order \in Orders
  PROVE  LET q == SweepCustody(p, order) IN
         q \in Pages /\ Across(p, q, m, n) /\ AtHome(q)
<1> DEFINE visit(q, i) == SweepHeld(q, order[i])
           P == [k \in 0..MaxCopies |-> {q \in Pages : Across(p, q, m, n) /\ AtHome(q)}]
           f == [k \in 1..MaxCopies |-> [q \in P[k - 1] |-> visit(q, k)]]
<1>0. MaxCopies \in Nat /\ \A i \in 1..MaxCopies : order[i] \in Copies
  BY Apart DEF Orders
<1>1. p \in P[0]
  BY <1>0, AcrossChains
<1>2. ASSUME NEW k \in 1..MaxCopies, NEW q \in P[k - 1] PROVE visit(q, k) \in P[k]
  <2> DEFINE c == order[k]
             r == SweepHeld(q, c)
  <2>0. /\ k - 1 \in 0..MaxCopies /\ k \in 0..MaxCopies /\ c \in Copies
        /\ q \in Pages /\ Across(p, q, m, n) /\ Sound(q, m, n) /\ AtHome(q)
    BY <1>0 DEF Across
  <2>1. visit(q, k) = r
    OBVIOUS
  <2> HIDE DEF visit, c
  <2>2. r \in Pages /\ Across(q, r, m, n) /\ AtHome(r)
    BY <2>0, HeldSwept
  <2> HIDE DEF r
  <2>3. Across(p, r, m, n)
    BY <2>0, <2>2, AcrossChains
  <2> QED BY <2>0, <2>1, <2>2, <2>3
<1> HIDE DEF visit, P
<1>3. PICK at : Walks(at, f, p, MaxCopies, P)
  <2>1. \A k \in 1..MaxCopies : \A q \in P[k - 1] : f[k][q] \in P[k]
    BY <1>2
  <2> HIDE DEF f
  <2> QED BY <1>0, <1>1, <2>1, Turns
<1> DEFINE walk == CHOOSE a : a = [k \in 0..MaxCopies |-> IF k = 0 THEN p ELSE visit(a[k - 1], k)]
<1>4. walk = [k \in 0..MaxCopies |-> IF k = 0 THEN p ELSE visit(walk[k - 1], k)]
  <2>1. ASSUME NEW k \in 0..MaxCopies PROVE at[k] = IF k = 0 THEN p ELSE visit(at[k - 1], k)
    <3>1. k # 0 => k \in 1..MaxCopies /\ k - 1 \in 0..MaxCopies
      BY <1>0
    <3> QED BY <1>3, <3>1 DEF Walks
  <2>2. at = [k \in 0..MaxCopies |-> IF k = 0 THEN p ELSE visit(at[k - 1], k)]
    BY <1>3, <2>1 DEF Walks
  <2> QED BY <2>2
<1>5. SweepCustody(p, order) = walk[MaxCopies]
  BY DEF SweepCustody, InTurn, visit
<1> HIDE DEF walk
<1>6. walk[MaxCopies] \in P[MaxCopies]
  <2>1. walk[0] = p /\ \A k \in 1..MaxCopies : walk[k] = visit(walk[k - 1], k)
    <3>1. 0 \in 0..MaxCopies /\ \A k \in 1..MaxCopies : k \in 0..MaxCopies /\ k # 0
      BY <1>0
    <3> QED BY <1>4, <3>1
  <2>2. \A k \in 1..MaxCopies : walk[k - 1] \in P[k - 1] => walk[k] \in P[k]
    BY <1>2, <2>1
  <2> QED BY <1>0, <1>1, <2>1, <2>2, TurnsStay
<1> DEFINE q == SweepCustody(p, order)
<1>7. q \in Pages /\ Across(p, q, m, n) /\ AtHome(q)
  BY <1>0, <1>5, <1>6 DEF P
<1> HIDE DEF q
<1> QED BY <1>7 DEF q

(* The whole sweep, in any order.                                           *)
LEMMA Reconciled ==
  ASSUME NEW p \in Pages, NEW m, NEW n \in Nat, Sound(p, m, n), p.thrown = FALSE,
         NEW order \in Orders
  PROVE  LET q == Reconcile(p, order) IN
         q \in Pages /\ Across(p, q, m, n) /\ AtHome(q)
<1> DEFINE r == SweepClaims(p, order)
           q == SweepCustody(r, order)
<1>1. Reconcile(p, order) = q
  BY DEF Reconcile
<1>2. r \in Pages /\ Across(p, r, m, n) /\ AtHome(r)
  BY ClaimsSwept
<1> HIDE DEF r
<1>3. q \in Pages /\ Across(r, q, m, n) /\ AtHome(q)
  <2>1. Sound(r, m, n)
    BY <1>2 DEF Across
  <2> QED BY <1>2, <2>1, CustodySwept
<1> HIDE DEF q
<1>4. Across(p, q, m, n)
  BY <1>2, <1>3, AcrossChains
<1> QED BY <1>1, <1>3, <1>4 DEF q

-----------------------------------------------------------------------------
(* The calls that change one thing.  A claim moved to a view of the copy,   *)
(* or of a copy no view has the editor of.                                  *)
LEMMA ClaimMoved ==
  ASSUME NEW p \in Pages, NEW m, NEW n, Sound(p, m, n), NEW c \in Copies, NEW l \in Views,
         p.shows[l] = c
  PROVE  LET q == Claim(p, c, l) IN
         /\ q \in Pages /\ Across(p, q, m, n) /\ AtOwn(q) = AtOwn(p)
         /\ q.claims[c] = l /\ q.thrown = p.thrown /\ q.text = p.text
         /\ q.worker = p.worker /\ q.editors = p.editors
         /\ AtHome(p) /\ (\A e \in AtOwn(p) : e.of # c) => AtHome(q)
<1> DEFINE q == Claim(p, c, l)
<1>1. /\ q \in Pages /\ q.setup = p.setup /\ q.minted = p.minted /\ q.shows = p.shows
      /\ q.text = p.text /\ q.worker = p.worker /\ q.editors = p.editors
      /\ q.thrown = p.thrown /\ q.claims[c] = l
      /\ \A d \in Copies : d # c => q.claims[d] = p.claims[d]
  BY DEF Pages, Claim
<1> HIDE DEF q
<1>2. ASSUME NEW e \in AtOwn(p) PROVE HomeFor(q, e.of) # Nobody
  <2>1. e.of \in Copies
    BY DEF AtOwn, Mounted, Pages, EditorSet
  <2>2. CASE e.of = c
    BY <1>1, <2>2, Apart DEF HomeFor
  <2>3. CASE e.of # c
    BY <1>1, <2>1, <2>3 DEF HomeFor, Sound, Seated
  <2> QED BY <2>2, <2>3
<1>3. Across(p, q, m, n) /\ AtOwn(q) = AtOwn(p)
  BY <1>1, <1>2, OtherwiseSame
<1>4. ASSUME AtHome(p), \A e \in AtOwn(p) : e.of # c PROVE AtHome(q)
  BY <1>1, <1>3, <1>4 DEF AtHome, HomeOnly
<1> QED BY <1>1, <1>3, <1>4 DEF q

(* The claims on a view without an editor dropped.                          *)
LEMMA ClaimsDropped ==
  ASSUME NEW p \in Pages, NEW m, NEW n, Sound(p, m, n), NEW l \in Views, AtHome(p),
         On(p, l) = {}
  PROVE  LET q == DropClaimsOn(p, l) IN
         /\ q \in Pages /\ Across(p, q, m, n) /\ AtHome(q)
         /\ q.thrown = p.thrown /\ q.editors = p.editors
<1> DEFINE q == DropClaimsOn(p, l)
<1>1. /\ q \in Pages /\ q.setup = p.setup /\ q.minted = p.minted /\ q.shows = p.shows
      /\ q.text = p.text /\ q.worker = p.worker /\ q.editors = p.editors
      /\ q.thrown = p.thrown
      /\ \A d \in Copies : p.claims[d] # l => q.claims[d] = p.claims[d]
  BY DEF Pages, DropClaimsOn
<1> HIDE DEF q
<1>2. ASSUME NEW e \in AtOwn(p) PROVE e.of \in Copies /\ q.claims[e.of] = p.claims[e.of]
  <2>1. e.of \in Copies /\ e.at # l
    BY DEF AtOwn, Mounted, Pages, EditorSet, On
  <2> QED BY <1>1, <2>1 DEF AtHome, HomeOnly
<1>3. \A e \in AtOwn(p) : HomeFor(q, e.of) # Nobody
  BY <1>1, <1>2 DEF HomeFor, Sound, Seated
<1>4. Across(p, q, m, n) /\ AtOwn(q) = AtOwn(p)
  BY <1>1, <1>3, OtherwiseSame
<1>5. AtHome(q)
  BY <1>2, <1>4 DEF AtHome, HomeOnly
<1> QED BY <1>1, <1>4, <1>5 DEF q

(* A view without an editor turned to another session, or closed.           *)
LEMMA ViewTurned ==
  ASSUME NEW p \in Pages, NEW m, NEW n, Sound(p, m, n), Settled(p), NEW l \in Views,
         On(p, l) = {}, NEW s \in {Closed, Source} \cup Warm(p)
  PROVE  LET q == [p EXCEPT !.shows[l] = s] IN
         /\ q \in Pages /\ Sound(q, m, n) /\ Settled(q)
         /\ q.setup = p.setup /\ q.minted = p.minted /\ q.text = p.text
         /\ q.worker = p.worker /\ q.claims = p.claims /\ q.editors = p.editors
         /\ q.thrown = p.thrown /\ q.shows = [p.shows EXCEPT ![l] = s]
         /\ \A c \in Copies : c # s /\ Reached(p, c) => Reached(q, c)
<1> DEFINE q == [p EXCEPT !.shows[l] = s]
<1>1. /\ q \in Pages /\ q.setup = p.setup /\ q.minted = p.minted /\ q.text = p.text
      /\ q.worker = p.worker /\ q.claims = p.claims /\ q.editors = p.editors
      /\ q.thrown = p.thrown /\ q.shows = [p.shows EXCEPT ![l] = s]
  BY DEF Pages, Warm
<1> HIDE DEF q
<1>2. /\ \A k \in Views : k # l => q.shows[k] = p.shows[k]
      /\ q.shows[l] = s
  BY <1>1 DEF Pages
<1>3. /\ Mounted(q) = Mounted(p) /\ \A e \in Mounted(p) : e.at \in Views /\ e.at # l
      /\ Known(q) = Known(p) /\ Warm(q) = Warm(p) /\ IsMachine(q) = IsMachine(p)
  BY <1>1 DEF Mounted, On, Known, Warm, IsMachine
<1>4. AtOwn(q) = AtOwn(p)
  BY <1>2, <1>3 DEF AtOwn
<1>5. ASSUME NEW e \in AtOwn(p)
      PROVE  e.of \in Copies /\ p.claims[e.of] = e.at /\ HomeFor(q, e.of) # Nobody
  <2>1. e.of \in Copies /\ p.claims[e.of] = e.at
    BY DEF AtOwn, Mounted, Pages, EditorSet, Settled, AtHome, HomeOnly
  <2>2. q.shows[e.at] = e.of /\ e.at # Nobody
    BY <1>2, <1>3, Apart DEF AtOwn
  <2> QED BY <1>1, <2>1, <2>2 DEF HomeFor
<1>6. Seated(q)
  <2>1. \A e \in Mounted(q) : q.shows[e.at] \in {Source, e.of}
    BY <1>2, <1>3 DEF Sound, Seated
  <2> QED BY <1>1, <1>3, <1>4, <1>5, <2>1 DEF Sound, Seated
<1>7. Registered(q, n)
  <2>1. \A k \in Views : q.shows[k] \in {Closed, Source} \cup Warm(q)
    BY <1>2, <1>3 DEF Sound, Registered
  <2> QED BY <1>1, <1>3, <2>1 DEF Sound, Registered, FollowsRecord
<1>8. Documented(q, m, n)
  BY <1>1, <1>3 DEF Sound, Documented
<1>9. Settled(q)
  BY <1>1, <1>2, <1>3, <1>4 DEF Settled, Resolved, AtHome, HomeOnly
<1>10. ASSUME NEW c \in Copies, c # s, Reached(p, c) PROVE Reached(q, c)
  <2>1. ViewsOf(q, c) \subseteq ViewsOf(p, c)
    BY <1>2, <1>10 DEF ViewsOf
  <2> QED BY <1>1, <1>4, <1>10, <2>1 DEF Reached
<1> QED BY <1>1, <1>6, <1>7, <1>8, <1>9, <1>10 DEF Sound, q

-----------------------------------------------------------------------------
(* Mounting.  A text is set on a view at home to its copy: the editor there *)
(* takes it, or a new one has it.                                           *)
LEMMA NewEditor ==
  ASSUME NEW c \in Copies, NEW l \in Views, NEW t \in Texts
  PROVE  LET e == Editor(c, l, t) IN
         /\ e \in EditorSet /\ e.of = c /\ e.at = l /\ e.doc = t /\ ~Owes(e)
         /\ ~e.timer /\ e.owed = NoText
BY DEF Editor, EditorSet, Owes

Refit(p, q) ==
    /\ q.setup = p.setup /\ q.minted = p.minted /\ q.text = p.text
    /\ q.shows = p.shows /\ q.claims = p.claims /\ q.thrown = p.thrown
    /\ \A d \in Copies :
         /\ q.worker[d].warm = p.worker[d].warm /\ q.worker[d].posts = p.worker[d].posts
         /\ q.worker[d].holds = p.worker[d].holds
         /\ p.worker[d] = Asleep => q.worker[d] = Asleep

(* The part of it that only reads the fields kept.                          *)
LEMMA RefitSame ==
  ASSUME NEW p \in Pages, NEW q \in Pages, Refit(p, q), NEW n
  PROVE  /\ Known(q) = Known(p) /\ Warm(q) = Warm(p) /\ IsMachine(q) = IsMachine(p)
         /\ \A d \in Copies : HomeFor(q, d) = HomeFor(p, d) /\ ViewsOf(q, d) = ViewsOf(p, d)
         /\ Registered(p, n) => Registered(q, n)
<1>1. /\ Known(q) = Known(p) /\ Warm(q) = Warm(p) /\ IsMachine(q) = IsMachine(p)
      /\ \A d \in Copies : HomeFor(q, d) = HomeFor(p, d) /\ ViewsOf(q, d) = ViewsOf(p, d)
  BY DEF Refit, Known, Warm, IsMachine, HomeFor, ViewsOf
<1>2. ASSUME NEW d \in Copies, FollowsRecord(p, d) PROVE FollowsRecord(q, d)
  BY <1>1, <1>2 DEF Refit, FollowsRecord
<1>3. ASSUME Registered(p, n) PROVE Registered(q, n)
  <2>1. \A d \in Copies : q.worker[d].warm \/ q.worker[d] = Asleep
    BY <1>3 DEF Registered, Refit
  <2>2. \A d \in Warm(q) : FollowsRecord(q, d)
    BY <1>1, <1>2, <1>3 DEF Registered, Warm
  <2> QED BY <1>1, <1>3, <2>1, <2>2 DEF Registered, Refit
<1> QED BY <1>1, <1>3

(* Where the copy's own view has no editor, a new one has the text.         *)
LEMMA EditorAdded ==
  ASSUME NEW p \in Pages, NEW m, NEW n, Sound(p, m, n), Settled(p), NEW c \in Copies,
         NEW l \in Views, p.shows[l] = c, p.claims[c] = l, On(p, l) = {},
         NEW t \in Texts, t <= n, IsMachine(p) => t = p.text[c]
  PROVE  LET q == SetEditor(p, l, t) IN
         /\ q \in Pages /\ Sound(q, m, n) /\ Settled(q) /\ Refit(p, q)
         /\ q.editors = p.editors \cup {Editor(c, l, t)}
         /\ Reached(q, c) /\ AllReachedStill(p, q)
<1> DEFINE x == Editor(c, l, t)
           w == [p.worker[c] EXCEPT !.bare = FALSE]
           q == SetEditor(p, l, t)
<1>1. /\ x \in EditorSet /\ x.of = c /\ x.at = l /\ x.doc = t /\ ~Owes(x)
      /\ ~x.timer /\ x.owed = NoText
  BY NewEditor
<1>2. p.worker[c] \in WorkerSet /\ c \in Warm(p) /\ p.worker[c].warm
  BY Apart DEF Pages, Sound, Registered, Warm
<1>3. /\ w \in WorkerSet /\ w.warm = p.worker[c].warm /\ w.posts = p.worker[c].posts
      /\ w.holds = p.worker[c].holds
  BY <1>2 DEF WorkerSet
<1>4. /\ q.editors = p.editors \cup {x} /\ q.worker = [p.worker EXCEPT ![c] = w]
      /\ q.setup = p.setup /\ q.minted = p.minted /\ q.text = p.text
      /\ q.shows = p.shows /\ q.claims = p.claims /\ q.thrown = p.thrown
      /\ q \in Pages
  <2>1. q = [p EXCEPT !.editors = @ \cup {x}, !.worker[c].bare = FALSE]
    BY DEF SetEditor
  <2>2. q = [p EXCEPT !.editors = @ \cup {x}, !.worker = [@ EXCEPT ![c] = w]]
    BY <2>1
  <2> HIDE DEF x, w, q
  <2> QED BY <1>1, <1>3, <2>2 DEF Pages
<1> HIDE DEF x, w, q
<1>5. Refit(p, q)
  <2>1. p.worker[c] # Asleep
    BY <1>2 DEF Asleep
  <2>2. q.worker[c] = w /\ \A d \in Copies : d # c => q.worker[d] = p.worker[d]
    BY <1>4 DEF Pages
  <2> QED BY <1>3, <1>4, <2>1, <2>2 DEF Refit
<1>6. /\ Known(q) = Known(p) /\ Warm(q) = Warm(p) /\ IsMachine(q) = IsMachine(p)
      /\ \A d \in Copies : HomeFor(q, d) = HomeFor(p, d) /\ ViewsOf(q, d) = ViewsOf(p, d)
      /\ Registered(q, n)
  BY <1>4, <1>5, RefitSame DEF Sound
<1>7. ASSUME NEW h \in AtOwn(p) PROVE h.of # c
  BY DEF AtOwn, Mounted, Settled, AtHome, HomeOnly, On
<1>8. /\ Mounted(q) = Mounted(p) \cup {x} /\ AtOwn(q) = AtOwn(p) \cup {x}
      /\ \A h \in Mounted(p) : h.at # l
  BY <1>1, <1>4 DEF Mounted, AtOwn, On
<1>9. HomeFor(p, c) = l /\ l # Nobody
  BY Apart DEF HomeFor
<1>10. IsMachine(p) => \A h \in p.editors : h.of # c
  BY <1>7 DEF Sound, Seated, Settled, Resolved, AtOwn, Mounted
<1>11. Seated(q)
  <2>0. Seated(p)
    BY DEF Sound
  <2>1. \A f, h \in Mounted(q) : f.at = h.at => f = h
    BY <1>1, <1>8, <2>0 DEF Seated
  <2>2. \A f, h \in q.editors : f.at = Held /\ h.at = Held /\ f.of = h.of => f = h
    BY <1>1, <1>4, <2>0, Apart DEF Seated
  <2>3. \A f \in Mounted(q) : q.shows[f.at] \in {Source, f.of}
    BY <1>1, <1>4, <1>8, <2>0 DEF Seated
  <2>4. \A f, h \in AtOwn(q) : f.of = h.of => f = h
    BY <1>1, <1>7, <1>8, <2>0 DEF Seated
  <2>5. \A f \in AtOwn(q) : HomeFor(q, f.of) # Nobody
    <3> SUFFICES ASSUME NEW f \in AtOwn(q) PROVE HomeFor(q, f.of) # Nobody
      OBVIOUS
    <3>1. f.of \in Copies
      BY <1>1, <1>8 DEF AtOwn, Mounted, Pages, EditorSet
    <3> QED BY <1>1, <1>6, <1>8, <1>9, <2>0, <3>1 DEF Seated
  <2>6. IsMachine(q) => /\ \A f \in q.editors : f.at \in Views
                        /\ \A f, h \in q.editors : f.of = h.of => f = h
    BY <1>1, <1>4, <1>6, <1>10, <2>0 DEF Seated
  <2> QED BY <2>1, <2>2, <2>3, <2>4, <2>5, <2>6 DEF Seated
<1>12. Documented(q, m, n)
  <2>0. Documented(p, m, n) /\ c <= p.minted
    BY <1>2 DEF Sound, Registered
  <2>1. \A f \in q.editors :
          /\ f.of <= q.minted /\ f.doc <= n
          /\ ~f.timer /\ f.owed # NoText => f.owed = f.doc
    BY <1>1, <1>4, <2>0 DEF Documented
  <2>2. ASSUME IsMachine(q), NEW f \in q.editors
        PROVE  IF Owes(f) THEN f.doc = m[f.of] /\ q.text[f.of] <= f.doc
               ELSE q.text[f.of] \in {NoText, f.doc}
    BY <1>1, <1>4, <1>6, <2>0, <2>2 DEF Documented
  <2>3. ASSUME IsMachine(q), NEW d \in Known(q), m[d] > Derived
        PROVE  q.text[d] = m[d] \/ \E f \in q.editors : f.of = d /\ Owes(f)
    BY <1>4, <1>6, <2>0, <2>3 DEF Documented
  <2> QED BY <2>1, <2>2, <2>3 DEF Documented
<1>13. Settled(q)
  BY <1>1, <1>4, <1>8 DEF Settled, Resolved, AtHome, HomeOnly
<1>14. Reached(q, c)
  BY <1>1, <1>4, <1>8 DEF Reached
<1>15. AllReachedStill(p, q)
  <2> SUFFICES ASSUME NEW d \in Copies, Reached(p, d), d # c PROVE Reached(q, d)
    BY <1>14 DEF AllReachedStill
  <2>1. q.worker[d] = p.worker[d]
    BY <1>4 DEF Pages
  <2> QED BY <1>4, <1>6, <1>8, <2>1 DEF Reached
<1> QED BY <1>4, <1>5, <1>6, <1>11, <1>12, <1>13, <1>14, <1>15 DEF Sound, x, q

(* Where a view has an editor, that takes the text unless it owes one.      *)
LEMMA EditorTold ==
  ASSUME NEW p \in Pages, NEW m, NEW n, Sound(p, m, n), Settled(p), NEW c \in Copies,
         NEW l \in Views, p.shows[l] = c, On(p, l) # {},
         NEW t \in Texts, t <= n, IsMachine(p) => t = p.text[c]
  PROVE  LET q == SetEditor(p, l, t) IN
         /\ q \in Pages /\ Sound(q, m, n) /\ Settled(q) /\ Refit(p, q)
         /\ \A f \in q.editors : Owes(f) => f \in p.editors
         /\ Reached(q, c) /\ AllReachedStill(p, q)
<1> DEFINE e == TheEditor(On(p, l))
           x == SetText(e, t)
           q == SetEditor(p, l, t)
<1>1. e \in p.editors /\ e.at = l /\ e \in EditorSet
  BY OneOf DEF On, Pages
<1> HIDE DEF e
<1>2. e \in Mounted(p) /\ e \in AtOwn(p) /\ e.of = c
  BY <1>1 DEF Mounted, AtOwn, Settled, Resolved
<1>3. /\ x \in EditorSet /\ x.of = c /\ x.at = l /\ Owes(x) = Owes(e)
      /\ x.timer = e.timer /\ x.owed = e.owed
      /\ x.doc = IF Owes(e) THEN e.doc ELSE t
      /\ Owes(e) => x = e
  BY <1>1, <1>2 DEF EditorSet, SetText, Owes
<1>4. \A f \in p.editors : f.at = l => f = e
  BY <1>1, <1>2 DEF Sound, Seated, Mounted
<1>5. /\ q.editors = (p.editors \ {e}) \cup {x}
      /\ q.setup = p.setup /\ q.minted = p.minted /\ q.text = p.text
      /\ q.worker = p.worker
      /\ q.shows = p.shows /\ q.claims = p.claims /\ q.thrown = p.thrown
      /\ q \in Pages
  <2>1. q = [p EXCEPT !.editors = {IF f.at = l THEN SetText(f, t) ELSE f : f \in @}]
    BY DEF SetEditor
  <2>2. {IF f.at = l THEN SetText(f, t) ELSE f : f \in p.editors} = (p.editors \ {e}) \cup {x}
    BY <1>1, <1>4
  <2>3. q = [p EXCEPT !.editors = (p.editors \ {e}) \cup {x}]
    BY <2>1, <2>2
  <2> HIDE DEF x, q
  <2> QED BY <1>3, <2>3 DEF Pages
<1> HIDE DEF x, q
<1>6. Refit(p, q) /\ SameDesk(p, q) /\ SameWorkers(p, q)
  BY <1>5 DEF Refit, SameDesk, SameWorkers
<1>7. SameSeat(e, {x})
  BY <1>1, <1>2, <1>3 DEF SameSeat
<1>8. /\ Seated(q) /\ Resolved(q) /\ AtHome(q)
      /\ \A d \in Copies : Reached(p, d) => Reached(q, d)
  BY <1>1, <1>5, <1>6, <1>7, SwapSeated DEF Sound, Settled
<1>9. Registered(q, n) /\ Known(q) = Known(p) /\ IsMachine(q) = IsMachine(p)
  BY <1>5, <1>6, RefitSame DEF Sound
<1>10. Documented(q, m, n)
  <2>0. Documented(p, m, n)
    BY DEF Sound
  <2>1. \A f \in q.editors :
          /\ f.of <= q.minted /\ f.doc <= n
          /\ ~f.timer /\ f.owed # NoText => f.owed = f.doc
    <3>1. /\ x.of <= q.minted /\ x.doc <= n
          /\ ~x.timer /\ x.owed # NoText => x.owed = x.doc
      BY <1>1, <1>2, <1>3, <1>5, <2>0 DEF Documented, Owes
    <3> QED BY <1>5, <2>0, <3>1 DEF Documented
  <2>2. ASSUME IsMachine(q), NEW f \in q.editors
        PROVE  IF Owes(f) THEN f.doc = m[f.of] /\ q.text[f.of] <= f.doc
               ELSE q.text[f.of] \in {NoText, f.doc}
    BY <1>1, <1>3, <1>5, <1>9, <2>0, <2>2 DEF Documented
  <2>3. ASSUME IsMachine(q), NEW d \in Known(q), m[d] > Derived
        PROVE  q.text[d] = m[d] \/ \E f \in q.editors : f.of = d /\ Owes(f)
    <3>1. p.text[d] = m[d] \/ \E f \in p.editors : f.of = d /\ Owes(f)
      BY <1>9, <2>0, <2>3 DEF Documented
    <3>2. ASSUME NEW f \in p.editors, f.of = d, Owes(f)
          PROVE  \E h \in q.editors : h.of = d /\ Owes(h)
      BY <1>3, <1>5, <3>2
    <3> QED BY <1>5, <3>1, <3>2
  <2> QED BY <2>1, <2>2, <2>3 DEF Documented
<1>11. Reached(q, c)
  <2>1. Reached(p, c)
    BY <1>1, <1>2 DEF Reached
  <2> QED BY <1>8, <2>1
<1>12. \A f \in q.editors : Owes(f) => f \in p.editors
  BY <1>1, <1>3, <1>5
<1> QED BY <1>5, <1>6, <1>8, <1>9, <1>10, <1>11, <1>12 DEF Sound, Settled, AllReachedStill, q

(* What mounts or tells an editor leads from one page between events to     *)
(* another.                                                                 *)
Onward(p, q, m, n) ==
    /\ q \in Pages /\ Sound(q, m, n) /\ Settled(q) /\ Kept(p, q)
    /\ q.setup = p.setup /\ q.minted = p.minted /\ q.thrown = p.thrown
    /\ Known(q) = Known(p) /\ Warm(q) = Warm(p)

(* It holds of a page that stays, and of one step after another.            *)
LEMMA OnwardChains ==
  ASSUME NEW p \in Pages, NEW m, NEW n, NEW q, NEW r
  PROVE  /\ Sound(p, m, n) /\ Settled(p) => Onward(p, p, m, n)
         /\ Onward(p, q, m, n) /\ Onward(q, r, m, n) => Onward(p, r, m, n)
<1>1. Kept(p, p)
  BY KeptChains
<1>2. ASSUME Onward(p, q, m, n), Onward(q, r, m, n) PROVE Kept(p, r)
  BY <1>2, KeptChains DEF Onward
<1> QED BY <1>1, <1>2 DEF Onward

(* A copy's editor asked for by a view of it is mounted there, unless it is *)
(* elsewhere.                                                               *)
LEMMA MountedThere ==
  ASSUME NEW p \in Pages, NEW m, NEW n, Sound(p, m, n), Settled(p), NEW c \in Copies,
         NEW l \in Views, p.shows[l] = c
  PROVE  LET q == MountScratchEditor(p, l, c) IN
         /\ Onward(p, q, m, n) /\ q.shows = p.shows /\ q.text = p.text
         /\ Reached(q, c) /\ AllReachedStill(p, q)
<1> DEFINE q == MountScratchEditor(p, l, c)
<1>0. c \in Warm(p) /\ c \in Known(p) /\ p.text[c] \in Texts /\ p.text[c] <= n
  BY Apart DEF Sound, Registered, Known, Pages
<1>1. CASE HasEditor(p, c)
  <2>1. q = p
    BY <1>1 DEF MountScratchEditor
  <2>2. Reached(p, c)
    <3>1. CASE HeldFor(p, c) # {}
      BY <3>1 DEF HeldFor, Reached
    <3>2. CASE HomeFor(p, c) # Nobody /\ On(p, HomeFor(p, c)) # {}
      <4> DEFINE k == HomeFor(p, c)
      <4>1. k \in Views /\ p.shows[k] = c
        BY <3>2 DEF HomeFor, Pages
      <4> HIDE DEF k
      <4>2. PICK e \in p.editors : e.at = k
        BY <3>2 DEF On, k
      <4>3. e \in AtOwn(p) /\ e.of = c
        BY <4>1, <4>2 DEF AtOwn, Mounted, Settled, Resolved
      <4> QED BY <4>2, <4>3 DEF Reached
    <3> QED BY <1>1, <3>1, <3>2 DEF HasEditor
  <2> HIDE DEF q
  <2>3. Onward(p, p, m, n)
    BY OnwardChains
  <2> QED BY <2>1, <2>2, <2>3 DEF AllReachedStill, q
<1>2. CASE ~HasEditor(p, c)
  <2> DEFINE r == Claim(p, c, l)
             s == SetEditor(r, l, p.text[c])
  <2>1. q = s
    BY <1>0, <1>2 DEF MountScratchEditor
  <2>2. ASSUME NEW e \in AtOwn(p), e.of = c PROVE FALSE
    <3>1. e.at \in Views /\ p.claims[c] = e.at /\ p.shows[e.at] = c /\ e \in p.editors
      BY <2>2 DEF AtOwn, Mounted, Settled, AtHome, HomeOnly
    <3>2. HomeFor(p, c) = e.at /\ e.at # Nobody
      BY <3>1, Apart DEF HomeFor
    <3> QED BY <1>2, <3>1, <3>2 DEF HasEditor, On
  <2>3. On(p, l) = {}
    <3> SUFFICES ASSUME NEW e \in On(p, l) PROVE FALSE
      OBVIOUS
    <3>1. e \in Mounted(p) /\ e.at = l
      BY DEF On, Mounted
    <3>2. e \in AtOwn(p) /\ e.of = c
      BY <3>1 DEF AtOwn, Settled, Resolved
    <3> QED BY <2>2, <3>2
  <2>4. /\ r \in Pages /\ Across(p, r, m, n) /\ r.claims[c] = l /\ r.thrown = p.thrown
        /\ r.text = p.text /\ r.editors = p.editors
        /\ AtHome(p) /\ (\A e \in AtOwn(p) : e.of # c) => AtHome(r)
    BY ClaimMoved
  <2> HIDE DEF q, r
  <2>5. /\ Sound(r, m, n) /\ Settled(r) /\ r.shows[l] = c /\ On(r, l) = {}
        /\ IsMachine(r) => p.text[c] = r.text[c]
    BY <2>2, <2>3, <2>4 DEF Across, Settled, On
  <2>6. /\ s \in Pages /\ Sound(s, m, n) /\ Settled(s) /\ Refit(r, s)
        /\ s.editors = r.editors \cup {Editor(c, l, p.text[c])}
        /\ Reached(s, c) /\ AllReachedStill(r, s)
    BY <1>0, <2>4, <2>5, EditorAdded
  <2> HIDE DEF s
  <2>7. Known(s) = Known(r) /\ Warm(s) = Warm(r) /\ Warm(r) = Warm(p)
    BY <2>4, <2>6, RefitSame DEF Across, SameWorkers, Warm
  <2>8. Kept(p, s)
    <3>1. \A f \in s.editors : Owes(f) => f \in p.editors
      BY <1>0, <2>4, <2>6, NewEditor
    <3> QED BY <2>4, <2>6, <3>1 DEF Kept, OwedIn, Refit
  <2>9. Onward(p, s, m, n) /\ s.shows = p.shows /\ s.text = p.text
    BY <2>4, <2>6, <2>7, <2>8 DEF Onward, Across, Refit
  <2>10. AllReachedStill(p, s)
    BY <2>4, <2>6 DEF Across, AllReachedStill
  <2> QED BY <2>1, <2>6, <2>9, <2>10 DEF q
<1> QED BY <1>1, <1>2

(* A machine copy that lost its editor has one on the first view of it.     *)
LEMMA MountedOnView ==
  ASSUME NEW p \in Pages, NEW m, NEW n, Sound(p, m, n), Settled(p), NEW c \in Copies
  PROVE  LET q == MountOnViewOf(p, c) IN
         /\ Onward(p, q, m, n) /\ q.shows = p.shows /\ q.text = p.text
         /\ Reached(q, c) /\ AllReachedStill(p, q)
<1>1. CASE ViewsOf(p, c) = {}
  <2>1. MountOnViewOf(p, c) = p
    BY <1>1 DEF MountOnViewOf
  <2>2. Onward(p, p, m, n) /\ Reached(p, c)
    BY <1>1, OnwardChains DEF Reached
  <2> QED BY <2>1, <2>2 DEF AllReachedStill
<1>2. CASE ViewsOf(p, c) # {}
  <2> DEFINE V == ViewsOf(p, c)
             l == CHOOSE k \in V : \A j \in V : k <= j
  <2>1. l \in V
    <3>1. V \subseteq Nat
      BY Apart DEF ViewsOf
    <3> HIDE DEF V
    <3> QED BY <1>2, <3>1, LeastNatural DEF V
  <2>2. MountOnViewOf(p, c) = MountScratchEditor(p, l, c)
    BY <1>2 DEF MountOnViewOf
  <2>3. l \in Views /\ p.shows[l] = c
    BY <2>1 DEF ViewsOf
  <2> HIDE DEF l
  <2> QED BY <2>2, <2>3, MountedThere
<1> QED BY <1>1, <1>2

(* An editor put in custody stays in reach, and only the one it pushes out  *)
(* moves.                                                                   *)
LEMMA HeldAlong ==
  ASSUME NEW p \in Pages, NEW m, NEW n, Sound(p, m, n), NEW e \in AtOwn(p),
         p.setup.leg = "lambda"
  PROVE  LET q == Hold(p, e) IN
         /\ q \in Pages /\ Along(p, q, m, n) /\ AllReachedStill(p, q)
         /\ Mounted(q) = Mounted(p) \ {e}
<1> DEFINE x == [e EXCEPT !.at = Held]
           out(f) == [f EXCEPT !.at = Loose]
           H == HeldFor(p, e.of)
           E == {IF f \in H THEN out(f) ELSE f : f \in p.editors \ {e}} \cup {x}
           q == Hold(p, e)
<1>1. e \in p.editors /\ e \in EditorSet /\ e.at \in Views /\ p.shows[e.at] = e.of
  BY DEF AtOwn, Mounted, Pages
<1>2. /\ x \in EditorSet /\ x.of = e.of /\ x.at = Held /\ x.doc = e.doc /\ x.timer = e.timer
      /\ x.owed = e.owed /\ Owes(x) = Owes(e)
  BY <1>1 DEF EditorSet, Owes
<1>3. ASSUME NEW f \in EditorSet
      PROVE  /\ out(f) \in EditorSet /\ out(f).of = f.of /\ out(f).at = Loose /\ out(f).doc = f.doc
             /\ out(f).timer = f.timer /\ out(f).owed = f.owed /\ Owes(out(f)) = Owes(f)
  BY DEF EditorSet, Owes
<1>4. /\ q.setup = p.setup /\ q.minted = p.minted /\ q.text = p.text
      /\ q.worker = p.worker /\ q.shows = p.shows /\ q.claims = p.claims
      /\ q.thrown = p.thrown /\ q.editors = E /\ q \in Pages
  <2>1. q = [p EXCEPT !.editors = E]
    BY DEF Hold
  <2>2. E \in SUBSET EditorSet
    <3>1. \A f \in p.editors : f \in EditorSet
      BY DEF Pages
    <3> HIDE DEF x, out, H
    <3> QED BY <1>2, <1>3, <3>1
  <2> HIDE DEF E, q
  <2> QED BY <2>1, <2>2 DEF Pages
<1> HIDE DEF x, out, q
<1>5. \A f \in E : \/ f = x
                   \/ f \in p.editors /\ f # e /\ f \notin H
                   \/ \E h \in H : h # e /\ f = out(h)
  OBVIOUS
<1>6. \A f \in p.editors : f # e /\ f \notin H => f \in E
  OBVIOUS
<1>7. x \in E /\ \A h \in H : h \in p.editors /\ h \in EditorSet /\ h.at = Held /\ h.of = e.of
  BY DEF HeldFor, Pages
<1> HIDE DEF E
<1>8. /\ Known(q) = Known(p) /\ Warm(q) = Warm(p) /\ ~IsMachine(q) /\ ~IsMachine(p)
      /\ \A d \in Copies : HomeFor(q, d) = HomeFor(p, d) /\ ViewsOf(q, d) = ViewsOf(p, d)
  BY <1>4 DEF Known, Warm, IsMachine, HomeFor, ViewsOf
<1>9. Mounted(q) = Mounted(p) \ {e}
  <2>1. ASSUME NEW f \in Mounted(q) PROVE f \in Mounted(p) \ {e}
    <3>1. f \in E /\ f.at # Held /\ f.at # Loose
      BY <1>4, Apart DEF Mounted
    <3> QED BY <1>2, <1>3, <1>5, <1>7, <3>1 DEF Mounted
  <2>2. ASSUME NEW f \in Mounted(p) \ {e} PROVE f \in Mounted(q)
    <3>1. f \in p.editors /\ f # e /\ f \notin H
      BY <1>7, Apart DEF Mounted
    <3> QED BY <1>4, <1>6, <3>1 DEF Mounted
  <2> QED BY <2>1, <2>2
<1>10. AtOwn(q) = AtOwn(p) \ {e}
  BY <1>4, <1>9 DEF AtOwn
<1>11. Seated(q)
  <2>0. Seated(p)
    BY DEF Sound
  <2>1. ASSUME NEW f \in q.editors, NEW h \in q.editors, f.at = Held, h.at = Held, f.of = h.of
        PROVE  f = h
    <3>1. \A k \in E : k.at = Held => k = x \/ (k \in p.editors /\ k.of # e.of)
      <4> SUFFICES ASSUME NEW k \in E, k.at = Held, k # x PROVE k \in p.editors /\ k.of # e.of
        OBVIOUS
      <4>1. ~(\E j \in H : j # e /\ k = out(j))
        BY <1>3, <1>7, Apart
      <4> QED BY <1>5, <4>1 DEF HeldFor
    <3> QED BY <1>2, <1>4, <2>0, <2>1, <3>1 DEF Seated
  <2>2. \A f \in AtOwn(q) : HomeFor(q, f.of) # Nobody
    <3> SUFFICES ASSUME NEW f \in AtOwn(q) PROVE HomeFor(q, f.of) # Nobody
      OBVIOUS
    <3>1. f \in AtOwn(p) /\ f.of \in Copies
      BY <1>10 DEF AtOwn, Mounted, Pages, EditorSet
    <3> QED BY <1>8, <2>0, <3>1 DEF Seated
  <2> QED BY <1>4, <1>8, <1>9, <1>10, <2>0, <2>1, <2>2 DEF Seated
<1>12. Registered(q, n)
  BY <1>4, <1>8 DEF Sound, Registered, FollowsRecord
<1>13. \A f \in q.editors :
          \E h \in p.editors : /\ h.of = f.of /\ h.doc = f.doc /\ h.timer = f.timer
                               /\ h.owed = f.owed /\ Owes(h) = Owes(f)
  <2> SUFFICES ASSUME NEW f \in E
               PROVE  \E h \in p.editors : /\ h.of = f.of /\ h.doc = f.doc /\ h.timer = f.timer
                                           /\ h.owed = f.owed /\ Owes(h) = Owes(f)
    BY <1>4
  <2>1. CASE f = x
    BY <1>1, <1>2, <2>1
  <2>2. CASE f \in p.editors
    BY <2>2
  <2>3. CASE \E h \in H : h # e /\ f = out(h)
    BY <1>3, <1>7, <2>3
  <2> QED BY <1>5, <2>1, <2>2, <2>3
<1>14. Documented(q, m, n)
  BY <1>4, <1>8, <1>13 DEF Sound, Documented
<1>15. Kept(p, q)
  BY <1>4, <1>13 DEF Kept, OwedIn
<1>16. ASSUME NEW d \in Copies, Reached(p, d) PROVE Reached(q, d)
  <2>1. CASE d = e.of
    BY <1>2, <1>4, <1>7, <2>1 DEF Reached
  <2>2. CASE d # e.of
    <3>1. ASSUME NEW f \in p.editors, f.of = d, f.at = Held \/ f \in AtOwn(p)
          PROVE  f \in q.editors /\ (f.at = Held \/ f \in AtOwn(q))
      BY <1>4, <1>6, <1>7, <1>10, <2>2, <3>1
    <3> QED BY <1>4, <1>8, <1>16, <3>1 DEF Reached
  <2> QED BY <2>1, <2>2
<1>17. (Resolved(p) => Resolved(q)) /\ (AtHome(p) => AtHome(q))
  BY <1>4, <1>9, <1>10 DEF Resolved, AtHome, HomeOnly
<1>18. SameDesk(p, q) /\ SameWorkers(p, q)
  BY <1>4 DEF SameDesk, SameWorkers
<1> QED BY <1>4, <1>8, <1>9, <1>11, <1>12, <1>14, <1>15, <1>16, <1>17, <1>18
    DEF Along, AllReachedStill, Sound, q

(* A view lets go of its editor.                                            *)
LEMMA LetGoAlong ==
  ASSUME NEW p \in Pages, NEW m, NEW n \in Nat, Sound(p, m, n), Settled(p), NEW l \in Views
  PROVE  LET q == LetGo(p, l) IN
         /\ Onward(p, q, m, n) /\ q.shows = p.shows /\ On(q, l) = {}
         /\ \A c \in Copies :
              Reached(p, c) /\ (~IsMachine(p) \/ On(p, l) = {} \/ c # p.shows[l])
                => Reached(q, c)
<1> DEFINE e == TheEditor(On(p, l))
           q == LetGo(p, l)
<1>1. CASE On(p, l) = {}
  <2>1. q = p
    BY <1>1 DEF LetGo
  <2> HIDE DEF q
  <2> QED BY <1>1, <2>1, OnwardChains DEF q
<1>2. CASE On(p, l) # {}
  <2>1. e \in p.editors /\ e.at = l
    BY <1>2, OneOf DEF On
  <2>2. q = IF p.setup.leg = "lambda" THEN Hold(p, e) ELSE Destroy(p, e)
    BY <1>2 DEF LetGo
  <2> HIDE DEF e, q
  <2>3. e \in AtOwn(p) /\ e.of = p.shows[l] /\ e \in Mounted(p)
    BY <2>1 DEF AtOwn, Mounted, Settled, Resolved
  <2>4. \A f \in Mounted(p) : f.at = l => f = e
    BY <2>1, <2>3 DEF Sound, Seated
  <2>5. CASE p.setup.leg = "lambda"
    <3>1. /\ q \in Pages /\ Along(p, q, m, n) /\ AllReachedStill(p, q)
          /\ Mounted(q) = Mounted(p) \ {e}
      BY <2>2, <2>3, <2>5, HeldAlong
    <3>2. On(q, l) = {}
      BY <2>4, <3>1 DEF On, Mounted
    <3>3. Warm(q) = Warm(p)
      BY <3>1 DEF Warm, Along, SameWorkers
    <3> QED BY <3>1, <3>2, <3>3 DEF Along, Onward, SameDesk, Settled, AllReachedStill, q
  <2>6. CASE p.setup.leg # "lambda"
    <3>1. q = Destroy(p, e)
      BY <2>2, <2>6
    <3>2. /\ q \in Pages /\ Along(p, q, m, n) /\ q.editors = p.editors \ {e}
          /\ \A c \in Copies :
              Reached(p, c) /\ (c # e.of \/ (e.at # Held /\ e \notin AtOwn(p))) => Reached(q, c)
      BY <2>1, <3>1, DestroyAlong
    <3>3. On(q, l) = {}
      BY <2>4, <3>2 DEF On, Mounted
    <3>4. Warm(q) = Warm(p)
      BY <3>2 DEF Warm, Along, SameWorkers
    <3>5. IsMachine(p)
      BY <2>6, Legs
    <3> QED BY <1>2, <2>3, <3>2, <3>3, <3>4, <3>5 DEF Along, Onward, SameDesk, Settled, q
  <2> QED BY <2>5, <2>6
<1> QED BY <1>1, <1>2

-----------------------------------------------------------------------------
(* The registry's calls.  A worker ended, and its copy forgotten or not, no *)
(* view shows the copy.                                                     *)
LEMMA CopyGone ==
  ASSUME NEW p \in Pages, NEW m, NEW n, Sound(p, m, n), NEW c \in Copies, NEW q \in Pages,
         q.setup = p.setup, q.minted = p.minted, q.claims = p.claims,
         q.editors = p.editors,
         q.worker = [p.worker EXCEPT ![c] = Asleep],
         q.shows = [l \in Views |-> IF p.shows[l] = c THEN Source ELSE p.shows[l]],
         q.text[c] \in {NoText, p.text[c]}, \A d \in Copies : d # c => q.text[d] = p.text[d]
  PROVE  /\ Sound(q, m, n) /\ Kept(p, q) /\ AllReachedStill(p, q)
         /\ AtHome(p) => AtHome(q)
<1>1. /\ \A d \in Copies : d # c => q.worker[d] = p.worker[d]
      /\ q.worker[c] = Asleep /\ c \notin Warm(q)
      /\ \A l \in Views : q.shows[l] = IF p.shows[l] = c THEN Source ELSE p.shows[l]
  BY DEF Pages, Warm, Asleep
<1>2. /\ Known(q) \subseteq Known(p) /\ Warm(q) = Warm(p) \ {c} /\ IsMachine(q) = IsMachine(p)
      /\ \A d \in Known(q) : q.text[d] = p.text[d]
  BY <1>1 DEF Known, Warm, IsMachine
<1>3. /\ Mounted(q) = Mounted(p) /\ AtOwn(q) = {e \in AtOwn(p) : e.of # c}
      /\ \A e \in AtOwn(p) : e.of \in Copies
  <2>1. Mounted(q) = Mounted(p) /\ \A e \in Mounted(p) : e.of \in Copies /\ e.at \in Views
    BY DEF Mounted, Pages, EditorSet
  <2> QED BY <1>1, <2>1, Apart DEF AtOwn
<1>4. \A d \in Copies : d # c => HomeFor(q, d) = HomeFor(p, d) /\ ViewsOf(q, d) = ViewsOf(p, d)
  <2> SUFFICES ASSUME NEW d \in Copies, d # c
               PROVE  HomeFor(q, d) = HomeFor(p, d) /\ ViewsOf(q, d) = ViewsOf(p, d)
    OBVIOUS
  <2>1. \A l \in Views : q.shows[l] = d <=> p.shows[l] = d
    BY <1>1, Apart
  <2>2. p.claims[d] \in {Nobody} \cup Views
    BY DEF Pages
  <2> QED BY <2>1, <2>2 DEF HomeFor, ViewsOf
<1>5. Seated(q)
  <2>1. \A e \in Mounted(q) : q.shows[e.at] \in {Source, e.of}
    BY <1>1, <1>3 DEF Mounted, Sound, Seated
  <2>2. \A e \in AtOwn(q) : HomeFor(q, e.of) # Nobody
    BY <1>3, <1>4 DEF Sound, Seated
  <2>3. \A e, f \in AtOwn(q) : e.of = f.of => e = f
    BY <1>3 DEF Sound, Seated
  <2> QED BY <1>2, <1>3, <2>1, <2>2, <2>3 DEF Sound, Seated
<1>6. Registered(q, n)
  <2>0. Registered(p, n)
    BY DEF Sound
  <2>1. \A d \in Known(q) : d <= q.minted /\ q.text[d] <= n
    BY <1>2, <2>0 DEF Registered
  <2>2. \A d \in Copies : q.worker[d].warm \/ q.worker[d] = Asleep
    BY <1>1, <2>0 DEF Registered
  <2>3. Warm(q) \subseteq Known(q)
    BY <1>2, <2>0 DEF Registered, Known
  <2>4. Cardinality(Warm(q)) <= q.setup.cap
    <3>1. Cardinality(Warm(q)) <= Cardinality(Warm(p)) /\ Cardinality(Warm(q)) \in Nat
      BY <1>2, WarmFinite, FS_Subset
    <3> QED BY <2>0, <3>1, WarmFinite, Legs DEF Registered
  <2>5. ASSUME NEW d \in Warm(q) PROVE FollowsRecord(q, d)
    <3>1. d \in Copies /\ d # c /\ FollowsRecord(p, d)
      BY <1>2, <2>0 DEF Registered, Warm
    <3> QED BY <1>1, <1>2, <3>1 DEF FollowsRecord
  <2>6. \A l \in Views : q.shows[l] \in {Closed, Source} \cup Warm(q)
    BY <1>1, <1>2, <2>0 DEF Registered
  <2> QED BY <2>1, <2>2, <2>3, <2>4, <2>5, <2>6 DEF Registered
<1>7. Documented(q, m, n)
  <2>0. Documented(p, m, n)
    BY DEF Sound
  <2>1. ASSUME IsMachine(q), NEW e \in q.editors
        PROVE  IF Owes(e) THEN e.doc = m[e.of] /\ q.text[e.of] <= e.doc
               ELSE q.text[e.of] \in {NoText, e.doc}
    <3>1. e.of \in Copies /\ e.doc \in Nat /\ NoText <= e.doc
      <4>1. e \in EditorSet
        BY DEF Pages
      <4>2. e.of \in Copies /\ e.doc \in Texts
        BY <4>1 DEF EditorSet
      <4> QED BY <4>2, SetupsAssumption DEF NoText, Texts, Seed
    <3>2. q.text[e.of] \in {NoText, p.text[e.of]}
      BY <3>1
    <3> QED BY <1>2, <2>0, <2>1, <3>1, <3>2 DEF Documented
  <2> QED BY <1>2, <2>0, <2>1 DEF Documented
<1>8. Kept(p, q)
  BY DEF Kept, OwedIn
<1>9. AllReachedStill(p, q)
  <2> SUFFICES ASSUME NEW d \in Copies, Reached(p, d) PROVE Reached(q, d)
    BY DEF AllReachedStill
  <2>1. CASE d = c
    <3>1. ViewsOf(q, c) = {}
      BY <1>1, Apart DEF ViewsOf
    <3> QED BY <2>1, <3>1 DEF Reached
  <2>2. CASE d # c
    BY <1>1, <1>3, <1>4, <2>2 DEF Reached
  <2> QED BY <2>1, <2>2
<1>10. AtHome(p) => AtHome(q)
  BY <1>3 DEF AtHome, HomeOnly
<1> QED BY <1>5, <1>6, <1>7, <1>8, <1>9, <1>10 DEF Sound

(* The page after a worker was ended.                                       *)
LEMMA CoolFacts ==
  ASSUME NEW p \in Pages, NEW c \in Copies
  PROVE  LET q == Cool(p, c, Source) IN
         /\ q \in Pages /\ q.setup = p.setup /\ q.minted = p.minted /\ q.claims = p.claims
         /\ q.editors = p.editors /\ q.text = p.text /\ q.thrown = p.thrown
         /\ q.worker = [p.worker EXCEPT ![c] = Asleep]
         /\ q.shows = [l \in Views |-> IF p.shows[l] = c THEN Source ELSE p.shows[l]]
<1> DEFINE q == Cool(p, c, Source)
           S == [l \in Views |-> IF p.shows[l] = c THEN Source ELSE p.shows[l]]
           W == [p.worker EXCEPT ![c] = Asleep]
<1>1. S \in [Views -> {Closed, Source} \cup Copies]
  BY DEF Pages
<1>2. W \in [Copies -> WorkerSet]
  <2>1. Asleep \in WorkerSet
    BY DEF Asleep, WorkerSet
  <2> QED BY <2>1 DEF Pages
<1>3. q = [p EXCEPT !.worker = W, !.shows = S]
  <2>1. DOMAIN p.shows = Views
    BY DEF Pages
  <2> QED BY <2>1 DEF Cool
<1> HIDE DEF S, W, q
<1>4. /\ q \in Pages /\ q.setup = p.setup /\ q.minted = p.minted /\ q.claims = p.claims
      /\ q.editors = p.editors /\ q.text = p.text /\ q.thrown = p.thrown
      /\ q.worker = W /\ q.shows = S
  BY <1>1, <1>2, <1>3 DEF Pages
<1> QED BY <1>4 DEF q, S, W

(* A copy paused, or deleted.                                               *)
LEMMA Cooled ==
  ASSUME NEW p \in Pages, NEW m, NEW n, Sound(p, m, n), NEW c \in Copies, AtHome(p)
  PROVE  LET q == Cool(p, c, Source) IN
         /\ q \in Pages /\ Sound(q, m, n) /\ Kept(p, q) /\ AllReachedStill(p, q) /\ AtHome(q)
         /\ q.setup = p.setup /\ q.minted = p.minted /\ q.text = p.text
         /\ q.thrown = p.thrown
<1> DEFINE q == Cool(p, c, Source)
<1>1. /\ q \in Pages /\ q.setup = p.setup /\ q.minted = p.minted /\ q.claims = p.claims
      /\ q.editors = p.editors /\ q.text = p.text /\ q.thrown = p.thrown
      /\ q.worker = [p.worker EXCEPT ![c] = Asleep]
      /\ q.shows = [l \in Views |-> IF p.shows[l] = c THEN Source ELSE p.shows[l]]
  BY CoolFacts
<1> HIDE DEF q
<1> QED BY <1>1, CopyGone DEF q

(* A copy deleted is forgotten as well.                                     *)
LEMMA Retired ==
  ASSUME NEW p \in Pages, NEW m, NEW n, Sound(p, m, n), NEW c \in Copies, AtHome(p)
  PROVE  LET q == Retire(p, c, Source) IN
         /\ q \in Pages /\ Sound(q, m, n) /\ Kept(p, q) /\ AllReachedStill(p, q) /\ AtHome(q)
         /\ q.setup = p.setup /\ q.minted = p.minted
         /\ q.text = [p.text EXCEPT ![c] = NoText]
         /\ q.thrown = p.thrown
<1> DEFINE r == Cool(p, c, Source)
           q == Retire(p, c, Source)
<1>1. /\ r \in Pages /\ r.setup = p.setup /\ r.minted = p.minted /\ r.claims = p.claims
      /\ r.editors = p.editors /\ r.text = p.text /\ r.thrown = p.thrown
      /\ r.worker = [p.worker EXCEPT ![c] = Asleep]
      /\ r.shows = [l \in Views |-> IF p.shows[l] = c THEN Source ELSE p.shows[l]]
  BY CoolFacts
<1>2. q = [r EXCEPT !.text[c] = NoText]
  BY DEF Retire
<1> HIDE DEF q, r
<1>3. /\ q \in Pages /\ q.setup = r.setup /\ q.minted = r.minted /\ q.claims = r.claims
      /\ q.editors = r.editors /\ q.thrown = r.thrown /\ q.worker = r.worker
      /\ q.shows = r.shows /\ q.text = [r.text EXCEPT ![c] = NoText]
  BY <1>1, <1>2 DEF Pages
<1>4. /\ q.text = [p.text EXCEPT ![c] = NoText]
      /\ q.text[c] = NoText /\ \A d \in Copies : d # c => q.text[d] = p.text[d]
  BY <1>1, <1>3 DEF Pages
<1>5. Sound(q, m, n) /\ Kept(p, q) /\ AllReachedStill(p, q) /\ AtHome(q)
  <2>1. /\ q \in Pages /\ q.setup = p.setup /\ q.minted = p.minted /\ q.claims = p.claims
        /\ q.editors = p.editors /\ q.text[c] \in {NoText, p.text[c]}
        /\ q.worker = [p.worker EXCEPT ![c] = Asleep]
        /\ q.shows = [l \in Views |-> IF p.shows[l] = c THEN Source ELSE p.shows[l]]
        /\ \A d \in Copies : d # c => q.text[d] = p.text[d]
    <3>1. q.worker = [p.worker EXCEPT ![c] = Asleep]
      BY <1>1, <1>3
    <3>2. q.shows = [l \in Views |-> IF p.shows[l] = c THEN Source ELSE p.shows[l]]
      BY <1>1, <1>3
    <3> QED BY <1>1, <1>3, <1>4, <3>1, <3>2
  <2>2. Sound(q, m, n) /\ Kept(p, q) /\ AllReachedStill(p, q) /\ (AtHome(p) => AtHome(q))
    BY <2>1, CopyGone
  <2> QED BY <2>2
<1> QED BY <1>1, <1>3, <1>4, <1>5 DEF q

(* What holds of the registry, whatever the views show.                     *)
Recorded(p, n) ==
    /\ \A c \in Known(p) : c <= p.minted /\ p.text[c] <= n
    /\ \A c \in Copies : p.worker[c].warm \/ p.worker[c] = Asleep
    /\ Warm(p) \subseteq Known(p)
    /\ Cardinality(Warm(p)) <= p.setup.cap
    /\ \A c \in Warm(p) : FollowsRecord(p, c)

(* The rest is that every view has a session.                               *)
LEMMA RegisteredIs ==
  ASSUME NEW p, NEW n
  PROVE  Registered(p, n) <=>
           Recorded(p, n) /\ \A l \in Views : p.shows[l] \in {Closed, Source} \cup Warm(p)
BY DEF Registered, Recorded

(* A worker spawned, for a copy made now or earlier, where there is room.   *)
WithWorker(p, c, w) == [p EXCEPT !.worker[c] = w]

(* The page after a worker was spawned.                                     *)
LEMMA SpawnedFacts ==
  ASSUME NEW p \in Pages, NEW c \in Copies, NEW w \in WorkerSet, w.warm
  PROVE  LET q == WithWorker(p, c, w) IN
         /\ q \in Pages /\ q.setup = p.setup /\ q.minted = p.minted /\ q.text = p.text
         /\ q.shows = p.shows /\ q.claims = p.claims /\ q.editors = p.editors
         /\ q.thrown = p.thrown /\ q.worker[c] = w
         /\ \A d \in Copies : d # c => q.worker[d] = p.worker[d]
         /\ Warm(q) = Warm(p) \cup {c}
<1> DEFINE q == WithWorker(p, c, w)
<1>1. /\ q \in Pages /\ q.setup = p.setup /\ q.minted = p.minted /\ q.text = p.text
      /\ q.shows = p.shows /\ q.claims = p.claims /\ q.editors = p.editors
      /\ q.thrown = p.thrown /\ q.worker = [p.worker EXCEPT ![c] = w]
  BY DEF Pages, WithWorker
<1> HIDE DEF q
<1>2. /\ q.worker[c] = w /\ \A d \in Copies : d # c => q.worker[d] = p.worker[d]
      /\ Warm(q) = Warm(p) \cup {c}
  BY <1>1 DEF Warm, Pages
<1> QED BY <1>1, <1>2 DEF q

(* Where there is room a new worker leaves the record as it should be.      *)
LEMMA SpawnedRecorded ==
  ASSUME NEW p \in Pages, NEW n, Recorded(p, n), NEW c \in Copies, c \notin Warm(p),
         HasRoom(p), NEW q \in Pages, q.setup = p.setup, q.minted >= p.minted,
         \A d \in Copies : d # c => q.text[d] = p.text[d] /\ q.worker[d] = p.worker[d],
         q.worker[c].warm, c <= q.minted, q.text[c] \in Texts, q.text[c] <= n,
         FollowsRecord(q, c)
  PROVE  Recorded(q, n)
<1>1. Warm(q) = Warm(p) \cup {c} /\ Known(q) = Known(p) \cup {c} /\ IsMachine(q) = IsMachine(p)
  BY Apart DEF Warm, Known, IsMachine
<1>2. Cardinality(Warm(q)) <= q.setup.cap
  <2>1. Cardinality(Warm(q)) = Cardinality(Warm(p)) + 1
    <3>1. IsFiniteSet(Warm(p))
      BY WarmFinite
    <3>2. Cardinality(Warm(p) \cup {c}) = Cardinality(Warm(p)) + 1
      BY <3>1, FS_AddElement
    <3> QED BY <1>1, <3>2
  <2> QED BY <2>1, WarmFinite, Legs DEF HasRoom
<1>3. \A d \in Known(q) : d <= q.minted /\ q.text[d] <= n
  <2>1. q.minted \in Nat /\ p.minted \in Nat /\ \A d \in Copies : d \in Nat
    BY Apart DEF Pages
  <2> QED BY <1>1, <2>1 DEF Recorded, Known
<1>4. ASSUME NEW d \in Warm(q), d # c PROVE FollowsRecord(q, d)
  <2>1. d \in Copies /\ FollowsRecord(p, d)
    BY <1>1, <1>4 DEF Recorded, Warm
  <2> QED BY <1>1, <1>4, <2>1 DEF FollowsRecord
<1> QED BY <1>1, <1>2, <1>3, <1>4 DEF Recorded

(* A copy made or warmed changes nothing of the editors.                    *)
LEMMA NewWorkerSound ==
  ASSUME NEW p \in Pages, NEW m, NEW n, Sound(p, m, n), NEW c \in Copies, c \notin Warm(p),
         HasRoom(p), NEW q \in Pages, q.setup = p.setup, q.minted >= p.minted,
         q.shows = p.shows, q.claims = p.claims, q.editors = p.editors,
         \A d \in Copies : d # c => q.text[d] = p.text[d] /\ q.worker[d] = p.worker[d],
         q.worker[c].warm, c <= q.minted, q.text[c] \in Texts, q.text[c] <= n,
         FollowsRecord(q, c),
         q.text[c] = p.text[c] \/ c > p.minted,
         IsMachine(p) /\ c > p.minted => ~(m[c] > Derived)
  PROVE  /\ Sound(q, m, n) /\ Warm(q) = Warm(p) \cup {c} /\ Known(q) = Known(p) \cup {c}
         /\ Settled(p) => Settled(q)
         /\ AllReached(p) => AllReached(q)
<1>0. Warm(q) = Warm(p) \cup {c} /\ Known(q) = Known(p) \cup {c} /\ IsMachine(q) = IsMachine(p)
  BY Apart DEF Warm, Known, IsMachine
<1>1. Registered(q, n)
  <2>1. Recorded(p, n) /\ \A l \in Views : p.shows[l] \in {Closed, Source} \cup Warm(p)
    BY RegisteredIs DEF Sound
  <2>2. Recorded(q, n)
    BY <2>1, SpawnedRecorded
  <2> QED BY <1>0, <2>1, <2>2, RegisteredIs
<1>2. /\ Mounted(q) = Mounted(p) /\ AtOwn(q) = AtOwn(p)
      /\ \A d \in Copies : HomeFor(q, d) = HomeFor(p, d) /\ ViewsOf(q, d) = ViewsOf(p, d)
  BY DEF Mounted, AtOwn, HomeFor, ViewsOf
<1>3. Seated(q)
  <2>1. \A e \in AtOwn(q) : e.of \in Copies
    BY <1>2 DEF AtOwn, Mounted, Pages, EditorSet
  <2> QED BY <1>0, <1>2, <2>1 DEF Sound, Seated
<1>4. Documented(q, m, n)
  <2>0. Documented(p, m, n)
    BY DEF Sound
  <2>1. \A e \in q.editors : /\ e.of \in Copies /\ e.of <= p.minted /\ e.of <= q.minted
                             /\ e.of \in Nat /\ p.minted \in Nat
    BY <2>0, Apart DEF Documented, Pages, EditorSet
  <2>2. \A e \in q.editors : q.text[e.of] = p.text[e.of]
    BY <2>1
  <2>3. ASSUME IsMachine(q), NEW d \in Known(q), m[d] > Derived
        PROVE  q.text[d] = m[d] \/ \E f \in q.editors : f.of = d /\ Owes(f)
    <3>1. q.text[d] = p.text[d] /\ d \in Known(p)
      BY <1>0, <2>3, Apart DEF Known
    <3> QED BY <1>0, <2>0, <2>3, <3>1 DEF Documented
  <2> QED BY <1>0, <2>0, <2>1, <2>2, <2>3 DEF Documented
<1>5. Settled(p) => Settled(q)
  BY <1>2 DEF Settled, Resolved, AtHome, HomeOnly
<1>6. ASSUME AllReached(p), NEW d \in Copies PROVE Reached(q, d)
  <2>1. CASE d = c
    <3>1. ViewsOf(p, c) = {}
      BY Apart DEF ViewsOf, Sound, Registered
    <3> QED BY <1>2, <2>1, <3>1 DEF Reached
  <2>2. CASE d # c
    <3>1. Reached(p, d)
      BY <1>6 DEF AllReached
    <3> QED BY <1>2, <2>2, <3>1 DEF Reached
  <2> QED BY <2>1, <2>2
<1> QED BY <1>0, <1>1, <1>3, <1>4, <1>5, <1>6 DEF Sound, AllReached

(* The page after a copy asleep was warmed.                                 *)
LEMMA WarmedFacts ==
  ASSUME NEW p \in Pages, NEW n, Recorded(p, n), NEW c \in Known(p), c \notin Warm(p)
  PROVE  LET q == Warmed(p, c) IN
         /\ q \in Pages /\ q.setup = p.setup /\ q.minted = p.minted /\ q.text = p.text
         /\ q.shows = p.shows /\ q.claims = p.claims /\ q.editors = p.editors
         /\ q.thrown = p.thrown /\ Warm(q) = Warm(p) \cup {c}
         /\ \A d \in Copies : d # c => q.text[d] = p.text[d] /\ q.worker[d] = p.worker[d]
         /\ q.worker[c].warm /\ FollowsRecord(q, c)
         /\ c \in Copies /\ c <= q.minted /\ q.minted >= p.minted /\ ~(c > p.minted)
         /\ q.text[c] \in Texts /\ q.text[c] <= n /\ q.text[c] = p.text[c]
<1> DEFINE t == p.text[c]
           w == [warm |-> TRUE, posts |-> <<t>>, holds |-> NoText, bare |-> FALSE]
           q == Spawn(p, c, t, FALSE)
<1>1. Warmed(p, c) = q
  BY DEF Warmed
<1>2. c \in Copies /\ t \in Texts /\ c <= p.minted /\ t <= n
  BY Apart DEF Known, Pages, Recorded
<1>3. /\ q \in Pages /\ q.setup = p.setup /\ q.minted = p.minted /\ q.text = p.text
      /\ q.shows = p.shows /\ q.claims = p.claims /\ q.editors = p.editors
      /\ q.thrown = p.thrown /\ q.worker[c] = w
      /\ \A d \in Copies : d # c => q.worker[d] = p.worker[d]
      /\ Warm(q) = Warm(p) \cup {c}
  <2>1. w \in WorkerSet /\ w.warm
    BY <1>2 DEF WorkerSet
  <2>2. q = WithWorker(p, c, w)
    BY DEF Spawn, WithWorker
  <2> HIDE DEF w, q
  <2> QED BY <1>2, <2>1, <2>2, SpawnedFacts
<1>4. w.warm /\ w.posts = <<t>> /\ <<t>> # <<>> /\ <<t>>[Len(<<t>>)] = t
  OBVIOUS
<1> HIDE DEF w, q, t
<1>5. p.minted \in Nat /\ c \in Nat
  BY <1>2, Apart DEF Pages
<1>6. FollowsRecord(q, c)
  BY <1>3, <1>4 DEF FollowsRecord, t
<1>7. q.minted >= p.minted /\ ~(c > p.minted) /\ q.text[c] = t
  BY <1>2, <1>3, <1>5 DEF t
<1> QED BY <1>1, <1>2, <1>3, <1>4, <1>6, <1>7 DEF t

(* A copy warmed changes nothing of the editors.                            *)
LEMMA WarmedSound ==
  ASSUME NEW p \in Pages, NEW m, NEW n, Sound(p, m, n), NEW c \in Known(p), c \notin Warm(p),
         HasRoom(p)
  PROVE  LET q == Warmed(p, c) IN
         /\ q \in Pages /\ Sound(q, m, n) /\ Kept(p, q)
         /\ Settled(p) => Settled(q)
         /\ AllReached(p) => AllReached(q)
         /\ q.setup = p.setup /\ q.minted = p.minted /\ q.text = p.text
         /\ q.shows = p.shows /\ q.editors = p.editors /\ q.thrown = p.thrown
         /\ Known(q) = Known(p) /\ c \in Warm(q)
<1> DEFINE q == Warmed(p, c)
<1>1. Recorded(p, n)
  BY RegisteredIs DEF Sound
<1>2. /\ q \in Pages /\ q.setup = p.setup /\ q.minted = p.minted /\ q.text = p.text
      /\ q.shows = p.shows /\ q.claims = p.claims /\ q.editors = p.editors
      /\ q.thrown = p.thrown /\ Warm(q) = Warm(p) \cup {c}
      /\ \A d \in Copies : d # c => q.text[d] = p.text[d] /\ q.worker[d] = p.worker[d]
      /\ q.worker[c].warm /\ FollowsRecord(q, c)
      /\ c \in Copies /\ c <= q.minted /\ q.minted >= p.minted /\ ~(c > p.minted)
      /\ q.text[c] \in Texts /\ q.text[c] <= n /\ q.text[c] = p.text[c]
  BY <1>1, WarmedFacts
<1> HIDE DEF q
<1>3. /\ Sound(q, m, n) /\ Known(q) = Known(p) \cup {c}
      /\ Settled(p) => Settled(q)
      /\ AllReached(p) => AllReached(q)
  BY <1>2, NewWorkerSound
<1>4. Kept(p, q)
  BY <1>2 DEF Kept, OwedIn
<1> QED BY <1>2, <1>3, <1>4 DEF q

(* A copy is made.                                                          *)
LEMMA MintSound ==
  ASSUME NEW p \in Pages, NEW m, NEW n \in Nat, Sound(p, m, n), p.minted < MaxCopies,
         HasRoom(p), NEW t \in {Seed, Derived}, IsMachine(p) => t = Seed,
         m[p.minted + 1] = NoText
  PROVE  LET q == Mint(p, t)
             c == p.minted + 1 IN
         /\ q \in Pages /\ Sound(q, m, n)
         /\ Settled(p) => Settled(q)
         /\ AllReached(p) => AllReached(q)
         /\ q.setup = p.setup /\ q.minted = c /\ q.text = [p.text EXCEPT ![c] = Seed]
         /\ q.shows = p.shows /\ q.editors = p.editors /\ q.thrown = p.thrown
         /\ c \in Copies /\ p.text[c] = NoText /\ c \in Warm(q) /\ q.worker[c].bare
         /\ Known(q) = Known(p) \cup {c}
<1> DEFINE c == p.minted + 1
           r == [p EXCEPT !.minted = c, !.text[c] = Seed]
           w == [warm |-> TRUE, posts |-> <<t>>, holds |-> NoText, bare |-> TRUE]
           q == Spawn(r, c, t, TRUE)
<1>1. Mint(p, t) = q
  BY DEF Mint
<1>2. /\ c \in Copies /\ c \in Nat /\ p.minted \in Nat /\ c > p.minted /\ c \in 0..MaxCopies
      /\ c >= p.minted
  BY Apart DEF Pages
<1>3. t \in Texts /\ Seed \in Texts /\ Seed <= n
  BY SetupsAssumption DEF Texts, Seed, Derived
<1>4. p.text[c] = NoText /\ c \notin Warm(p) /\ c \notin Known(p)
  <2>1. c \notin Known(p)
    BY <1>2 DEF Sound, Registered, Known
  <2> QED BY <1>2, <2>1 DEF Sound, Registered, Known
<1> HIDE DEF c
<1>5. /\ r \in Pages /\ r.setup = p.setup /\ r.minted = c /\ r.text = [p.text EXCEPT ![c] = Seed]
      /\ r.shows = p.shows /\ r.claims = p.claims /\ r.editors = p.editors
      /\ r.thrown = p.thrown /\ r.worker = p.worker
  BY <1>2, <1>3 DEF Pages
<1> HIDE DEF r
<1>6. /\ q \in Pages /\ q.setup = r.setup /\ q.minted = r.minted /\ q.text = r.text
      /\ q.shows = r.shows /\ q.claims = r.claims /\ q.editors = r.editors
      /\ q.thrown = r.thrown /\ q.worker[c] = w
      /\ \A d \in Copies : d # c => q.worker[d] = r.worker[d]
  <2>1. w \in WorkerSet /\ w.warm
    BY <1>3 DEF WorkerSet
  <2>2. q = WithWorker(r, c, w)
    BY DEF Spawn, WithWorker
  <2> HIDE DEF w, q
  <2>3. r \in Pages /\ c \in Copies
    BY <1>2, <1>5
  <2> QED BY <2>1, <2>2, <2>3, SpawnedFacts
<1>7. w.warm /\ w.bare /\ w.posts = <<t>> /\ <<t>> # <<>> /\ <<t>>[Len(<<t>>)] = t
  OBVIOUS
<1> HIDE DEF w, q
<1>8. /\ q.worker[c] = w /\ \A d \in Copies : d # c => q.worker[d] = p.worker[d]
      /\ q.text[c] = Seed /\ \A d \in Copies : d # c => q.text[d] = p.text[d]
      /\ q.text = [p.text EXCEPT ![c] = Seed]
  BY <1>2, <1>5, <1>6 DEF Pages
<1>9. FollowsRecord(q, c)
  <2>1. IsMachine(q) = IsMachine(p)
    BY <1>5, <1>6 DEF IsMachine
  <2> QED BY <1>7, <1>8, <2>1 DEF FollowsRecord
<1>10. ~(m[c] > Derived)
  BY DEF c, NoText, Derived
<1>11. /\ Sound(q, m, n) /\ Warm(q) = Warm(p) \cup {c} /\ Known(q) = Known(p) \cup {c}
       /\ Settled(p) => Settled(q)
       /\ AllReached(p) => AllReached(q)
  <2>1. /\ q.setup = p.setup /\ q.minted >= p.minted /\ q.shows = p.shows
        /\ q.claims = p.claims /\ q.editors = p.editors /\ q.worker[c].warm /\ c <= q.minted
        /\ q.text[c] \in Texts /\ q.text[c] <= n
    BY <1>2, <1>3, <1>5, <1>6, <1>7, <1>8
  <2> QED BY <1>2, <1>4, <1>6, <1>8, <1>9, <1>10, <2>1, NewWorkerSound
<1> QED BY <1>1, <1>2, <1>4, <1>5, <1>6, <1>7, <1>8, <1>11 DEF c

(* A deleted copy comes back, asleep.                                       *)
LEMMA ReinstateSound ==
  ASSUME NEW p \in Pages, NEW m, NEW n, Sound(p, m, n), Settled(p), AllReached(p),
         NEW c \in Copies, p.text[c] = NoText, c <= p.minted, NEW t \in Texts, t <= n,
         IsMachine(p) /\ m[c] > Derived => t = m[c]
  PROVE  LET q == Reinstate(p, c, t) IN
         /\ q \in Pages /\ Sound(q, m, n) /\ Settled(q) /\ AllReached(q)
         /\ q.setup = p.setup /\ q.minted = p.minted /\ q.text = [p.text EXCEPT ![c] = t]
         /\ q.thrown = p.thrown /\ Warm(q) = Warm(p) /\ c \notin Warm(q)
         /\ Known(q) = Known(p) \cup {c} /\ q.worker = p.worker
<1> DEFINE q == Reinstate(p, c, t)
<1>1. /\ q \in Pages /\ q.setup = p.setup /\ q.minted = p.minted
      /\ q.text = [p.text EXCEPT ![c] = t] /\ q.worker = p.worker
      /\ q.shows = p.shows /\ q.claims = p.claims /\ q.editors = p.editors
      /\ q.thrown = p.thrown
  BY DEF Reinstate, Pages
<1> HIDE DEF q
<1>2. q.text[c] = t /\ \A d \in Copies : d # c => q.text[d] = p.text[d]
  BY <1>1 DEF Pages
<1>3. /\ Known(q) = Known(p) \cup {c} /\ Warm(q) = Warm(p) /\ IsMachine(q) = IsMachine(p)
      /\ c \notin Warm(p)
  <2>1. c \notin Warm(p)
    BY DEF Sound, Registered, Known
  <2> QED BY <1>1, <1>2, <2>1, Apart DEF Known, Warm, IsMachine
<1>4. /\ Mounted(q) = Mounted(p) /\ AtOwn(q) = AtOwn(p)
      /\ \A d \in Copies : HomeFor(q, d) = HomeFor(p, d) /\ ViewsOf(q, d) = ViewsOf(p, d)
  BY <1>1 DEF Mounted, AtOwn, HomeFor, ViewsOf
<1>5. Seated(q)
  <2>1. \A e \in AtOwn(q) : e.of \in Copies
    BY <1>4 DEF AtOwn, Mounted, Pages, EditorSet
  <2> QED BY <1>1, <1>3, <1>4, <2>1 DEF Sound, Seated
<1>6. Registered(q, n)
  <2>1. \A d \in Warm(q) : d # c /\ d \in Copies /\ FollowsRecord(p, d)
    BY <1>3 DEF Sound, Registered, Warm
  <2>2. \A d \in Warm(q) : FollowsRecord(q, d)
    BY <1>1, <1>2, <1>3, <2>1 DEF FollowsRecord
  <2>3. \A d \in Known(q) : d <= q.minted /\ q.text[d] <= n
    BY <1>1, <1>2, <1>3 DEF Sound, Registered, Known
  <2> QED BY <1>1, <1>3, <2>2, <2>3 DEF Sound, Registered
<1>7. Documented(q, m, n)
  <2>0. Documented(p, m, n)
    BY DEF Sound
  <2>1. ASSUME IsMachine(p), NEW e \in p.editors PROVE e.of \in Copies /\ e.of # c
    <3>1. e \in Mounted(p) /\ e.of \in Copies
      BY <2>1 DEF Sound, Seated, Mounted, Pages, EditorSet
    <3>2. e.of \in Warm(p)
      BY <3>1, Apart DEF Settled, Resolved, Mounted, Sound, Registered
    <3> QED BY <1>3, <3>1, <3>2
  <2>2. ASSUME IsMachine(q), NEW d \in Known(q), m[d] > Derived
        PROVE  q.text[d] = m[d] \/ \E f \in q.editors : f.of = d /\ Owes(f)
    <3>1. CASE d = c
      BY <1>2, <1>3, <2>2, <3>1
    <3>2. CASE d # c
      <4>1. d \in Known(p) /\ q.text[d] = p.text[d]
        BY <1>2, <1>3, <3>2 DEF Known
      <4> QED BY <1>1, <1>3, <2>0, <2>2, <4>1 DEF Documented
    <3> QED BY <3>1, <3>2
  <2>3. ASSUME IsMachine(q), NEW e \in q.editors
        PROVE  IF Owes(e) THEN e.doc = m[e.of] /\ q.text[e.of] <= e.doc
               ELSE q.text[e.of] \in {NoText, e.doc}
    BY <1>1, <1>2, <1>3, <2>0, <2>1, <2>3 DEF Documented
  <2> QED BY <1>1, <2>0, <2>2, <2>3 DEF Documented
<1>8. Settled(q) /\ AllReached(q)
  BY <1>1, <1>4 DEF Settled, Resolved, AtHome, HomeOnly, AllReached, Reached
<1> QED BY <1>1, <1>3, <1>5, <1>6, <1>7, <1>8 DEF Sound, q

(* A worker answers, fails, or its answer is dropped: of its copy only the  *)
(* worker changes, and a lambda copy's text.                                *)
LEMMA AnswerSound ==
  ASSUME NEW p \in Pages, NEW m, NEW n, Sound(p, m, n), NEW c \in Warm(p), NEW q \in Pages,
         q.setup = p.setup, q.minted = p.minted, q.shows = p.shows, q.claims = p.claims,
         q.editors = p.editors,
         \A d \in Copies : d # c => q.text[d] = p.text[d] /\ q.worker[d] = p.worker[d],
         q.worker[c].warm, p.worker[c].bare => q.worker[c].bare,
         q.text[c] \in Texts, q.text[c] <= n, IsMachine(p) => q.text[c] = p.text[c],
         FollowsRecord(q, c)
  PROVE  /\ Sound(q, m, n) /\ Known(q) = Known(p) /\ Warm(q) = Warm(p)
         /\ Settled(p) => Settled(q)
         /\ AllReachedStill(p, q)
<1>0. c \in Copies /\ c \in Known(p)
  BY DEF Warm, Sound, Registered
<1>1. /\ Known(q) = Known(p) /\ Warm(q) = Warm(p) /\ IsMachine(q) = IsMachine(p)
      /\ Mounted(q) = Mounted(p) /\ AtOwn(q) = AtOwn(p)
      /\ \A d \in Copies : HomeFor(q, d) = HomeFor(p, d) /\ ViewsOf(q, d) = ViewsOf(p, d)
  BY <1>0, Apart DEF Known, Warm, IsMachine, Mounted, AtOwn, HomeFor, ViewsOf
<1>2. Seated(q)
  <2>1. \A e \in AtOwn(q) : e.of \in Copies
    BY <1>1 DEF AtOwn, Mounted, Pages, EditorSet
  <2> QED BY <1>1, <2>1 DEF Sound, Seated
<1>3. Registered(q, n)
  <2>0. Registered(p, n)
    BY DEF Sound
  <2>1. ASSUME NEW d \in Warm(q), d # c PROVE FollowsRecord(q, d)
    <3>1. d \in Copies /\ FollowsRecord(p, d)
      BY <1>1, <2>0, <2>1 DEF Registered, Warm
    <3> QED BY <1>1, <2>1, <3>1 DEF FollowsRecord
  <2>2. \A d \in Known(q) : d <= q.minted /\ q.text[d] <= n
    BY <1>1, <2>0 DEF Registered, Known
  <2>3. \A d \in Copies : q.worker[d].warm \/ q.worker[d] = Asleep
    BY <2>0 DEF Registered
  <2> QED BY <1>1, <2>0, <2>1, <2>2, <2>3 DEF Registered
<1>4. Documented(q, m, n)
  <2>0. Documented(p, m, n)
    BY DEF Sound
  <2>1. IsMachine(p) => \A d \in Copies : q.text[d] = p.text[d]
    OBVIOUS
  <2>2. \A e \in q.editors : e.of \in Copies
    BY DEF Pages, EditorSet
  <2>3. \A d \in Known(q) : d \in Copies
    BY DEF Known
  <2> QED BY <1>1, <2>0, <2>1, <2>2, <2>3 DEF Documented
<1>5. Settled(p) => Settled(q)
  BY <1>1 DEF Settled, Resolved, AtHome, HomeOnly
<1>6. AllReachedStill(p, q)
  BY <1>1 DEF AllReachedStill, Reached
<1> QED BY <1>1, <1>2, <1>3, <1>4, <1>5, <1>6 DEF Sound

(* The requests left after the first was answered.                          *)
LEMMA PostsTail ==
  ASSUME NEW s \in Seq(Texts), s # <<>>
  PROVE  /\ Tail(s) \in Seq(Texts) /\ Head(s) \in Texts
         /\ Len(s) = 1 => Tail(s) = <<>> /\ Head(s) = s[Len(s)]
         /\ Len(s) # 1 => Tail(s) # <<>> /\ Tail(s)[Len(Tail(s))] = s[Len(s)]
<1>1. Len(s) \in Nat /\ Len(s) # 0 /\ Tail(s) \in Seq(Texts) /\ Len(Tail(s)) = Len(s) - 1
  OBVIOUS
<1>2. Head(s) \in Texts /\ Head(s) = s[1]
  OBVIOUS
<1>3. ASSUME Len(s) = 1 PROVE Tail(s) = <<>>
  <2>1. Len(Tail(s)) = 0
    BY <1>1, <1>3
  <2>2. Len(Tail(s)) \notin Nat \ {0} /\ Tail(s) \in Seq(Texts)
    BY <1>1, <2>1
  <2> HIDE DEF Texts
  <2> QED BY <2>2, EmptySeq
<1>4. ASSUME Len(s) # 1 PROVE Tail(s) # <<>> /\ Tail(s)[Len(Tail(s))] = s[Len(s)]
  <2>1. Len(Tail(s)) \in 1..(Len(s) - 1) /\ Tail(s) # <<>>
    <3>1. Len(Tail(s)) # 0 /\ Len(Tail(s)) \in 1..(Len(s) - 1)
      BY <1>1, <1>4
    <3> QED BY <3>1, EmptySeq
  <2>2. \A i \in 1..(Len(s) - 1) : Tail(s)[i] = s[i + 1]
    OBVIOUS
  <2> QED BY <1>1, <2>1, <2>2
<1> QED BY <1>1, <1>2, <1>3, <1>4

(* A worker that owes an answer is that of a copy awake, and of its text.   *)
LEMMA PostsOf ==
  ASSUME NEW p \in Pages, NEW m, NEW n, Sound(p, m, n), NEW c \in Copies,
         p.worker[c].posts # <<>>
  PROVE  /\ c \in Warm(p) /\ c \in Known(p) /\ p.text[c] \in Texts /\ p.text[c] <= n
         /\ p.worker[c] \in WorkerSet /\ p.worker[c].warm
         /\ p.worker[c].posts \in Seq(Texts) /\ FollowsRecord(p, c)
<1>1. p.worker[c] \in WorkerSet /\ p.text[c] \in {NoText} \cup Texts
  BY DEF Pages
<1>2. c \in Warm(p) /\ p.worker[c].warm
  BY DEF Sound, Registered, Asleep, Warm
<1>3. c \in Known(p) /\ p.text[c] <= n /\ FollowsRecord(p, c)
  BY <1>2 DEF Sound, Registered
<1> QED BY <1>1, <1>2, <1>3 DEF WorkerSet, Known

(* An answer to any but the last request changes nothing but the queue.     *)
LEMMA StaleSound ==
  ASSUME NEW p \in Pages, NEW m, NEW n, Sound(p, m, n), NEW c \in Copies,
         p.worker[c].posts # <<>>, ~IsCurrent(p, c)
  PROVE  LET q == AnswerOf(p, c) IN
         /\ q \in Pages /\ Sound(q, m, n) /\ Known(q) = Known(p)
         /\ Settled(p) => Settled(q)
         /\ AllReachedStill(p, q)
         /\ q.setup = p.setup /\ q.minted = p.minted /\ q.text = p.text
         /\ q.editors = p.editors
<1> DEFINE s == p.worker[c].posts
           w == [p.worker[c] EXCEPT !.posts = Tail(s)]
           q == AnswerOf(p, c)
<1>1. /\ c \in Warm(p) /\ c \in Known(p) /\ p.text[c] \in Texts /\ p.text[c] <= n
      /\ p.worker[c] \in WorkerSet /\ p.worker[c].warm
      /\ s \in Seq(Texts) /\ FollowsRecord(p, c)
  BY PostsOf
<1>2. /\ Tail(s) \in Seq(Texts) /\ Tail(s) # <<>> /\ Tail(s)[Len(Tail(s))] = s[Len(s)]
  BY <1>1, PostsTail DEF IsCurrent
<1>3. /\ w \in WorkerSet /\ w.warm /\ w.bare = p.worker[c].bare /\ w.posts = Tail(s)
  BY <1>1, <1>2 DEF WorkerSet
<1>4. q = WithWorker(p, c, w)
  BY DEF AnswerOf, WithWorker
<1> HIDE DEF w, q
<1>5. /\ q \in Pages /\ q.setup = p.setup /\ q.minted = p.minted /\ q.text = p.text
      /\ q.shows = p.shows /\ q.claims = p.claims /\ q.editors = p.editors
      /\ q.thrown = p.thrown /\ q.worker[c] = w
      /\ \A d \in Copies : d # c => q.worker[d] = p.worker[d]
  BY <1>3, <1>4, SpawnedFacts
<1>6. IsMachine(q) = IsMachine(p)
  BY <1>5 DEF IsMachine
<1>7. FollowsRecord(q, c)
  BY <1>1, <1>2, <1>3, <1>5, <1>6 DEF FollowsRecord
<1>8. /\ Sound(q, m, n) /\ Known(q) = Known(p)
      /\ Settled(p) => Settled(q)
      /\ AllReachedStill(p, q)
  BY <1>1, <1>3, <1>5, <1>7, AnswerSound
<1> QED BY <1>5, <1>8 DEF q

(* The text of record never gets older, but a lambda copy's may become that *)
(* of one of its editors.                                                   *)
Aged(p, q) ==
    \A c \in Copies :
        p.text[c] # NoText /\ q.text[c] # NoText =>
            \/ p.text[c] <= q.text[c]
            \/ ~IsMachine(p) /\ \E e \in p.editors : e.of = c /\ e.doc = q.text[c]

(* What a chain of calls keeps gets no older.                               *)
LEMMA KeptIsAged ==
  ASSUME NEW p \in Pages, NEW m, NEW n, Sound(p, m, n), NEW q, Kept(p, q)
  PROVE  Aged(p, q)
<1> SUFFICES ASSUME NEW c \in Copies, p.text[c] # NoText, q.text[c] # NoText
             PROVE  \/ p.text[c] <= q.text[c]
                    \/ ~IsMachine(p) /\ \E e \in p.editors : e.of = c /\ e.doc = q.text[c]
  BY DEF Aged
<1>1. p.text[c] \in Nat
  BY Apart DEF Pages
<1>2. CASE q.text[c] = p.text[c]
  BY <1>1, <1>2
<1>3. CASE OwedIn(p, c, q.text[c])
  <2>1. PICK e \in p.editors : Owes(e) /\ e.of = c /\ e.doc = q.text[c]
    BY <1>3 DEF OwedIn
  <2>2. IsMachine(p) => p.text[e.of] <= e.doc
    BY <2>1 DEF Sound, Documented
  <2> QED BY <2>1, <2>2
<1> QED BY <1>2, <1>3 DEF Kept

(* The page after the copy's worker and text changed.                       *)
WithRecord(p, c, w, t) == [p EXCEPT !.worker[c] = w, !.text[c] = t]

(* That page, field by field.                                               *)
LEMMA RecordFacts ==
  ASSUME NEW p \in Pages, NEW c \in Copies, NEW w \in WorkerSet, NEW t \in {NoText} \cup Texts
  PROVE  LET q == WithRecord(p, c, w, t) IN
         /\ q \in Pages /\ q.setup = p.setup /\ q.minted = p.minted
         /\ q.shows = p.shows /\ q.claims = p.claims /\ q.editors = p.editors
         /\ q.thrown = p.thrown /\ q.worker[c] = w /\ q.text[c] = t
         /\ \A d \in Copies : d # c => q.text[d] = p.text[d] /\ q.worker[d] = p.worker[d]
<1> DEFINE q == WithRecord(p, c, w, t)
<1>1. /\ q \in Pages /\ q.setup = p.setup /\ q.minted = p.minted
      /\ q.shows = p.shows /\ q.claims = p.claims /\ q.editors = p.editors
      /\ q.thrown = p.thrown /\ q.worker = [p.worker EXCEPT ![c] = w]
      /\ q.text = [p.text EXCEPT ![c] = t]
  BY DEF Pages, WithRecord
<1> HIDE DEF q
<1>2. /\ q.worker[c] = w /\ q.text[c] = t
      /\ \A d \in Copies : d # c => q.text[d] = p.text[d] /\ q.worker[d] = p.worker[d]
  BY <1>1 DEF Pages
<1> QED BY <1>1, <1>2 DEF q

(* The last answer came: nothing is posted, h is held and t is of record.   *)
LEMMA LastAnswered ==
  ASSUME NEW p \in Pages, NEW m, NEW n, Sound(p, m, n), NEW c \in Copies,
         p.worker[c].posts # <<>>, NEW w \in WorkerSet,
         w.warm, w.posts = <<>>, p.worker[c].bare => w.bare,
         NEW t \in Texts, t <= n, IsMachine(p) => t = p.text[c], w.holds \in {NoText, t}
  PROVE  LET q == WithRecord(p, c, w, t) IN
         /\ q \in Pages /\ Sound(q, m, n) /\ Known(q) = Known(p)
         /\ Settled(p) => Settled(q)
         /\ AllReachedStill(p, q)
         /\ q.setup = p.setup /\ q.minted = p.minted /\ q.editors = p.editors
         /\ q.shows = p.shows /\ q.claims = p.claims
         /\ q.worker[c] = w /\ q.text[c] = t
         /\ \A d \in Copies : d # c => q.text[d] = p.text[d]
<1> DEFINE q == WithRecord(p, c, w, t)
<1>1. /\ q \in Pages /\ q.setup = p.setup /\ q.minted = p.minted
      /\ q.shows = p.shows /\ q.claims = p.claims /\ q.editors = p.editors
      /\ q.thrown = p.thrown /\ q.worker[c] = w /\ q.text[c] = t
      /\ \A d \in Copies : d # c => q.text[d] = p.text[d] /\ q.worker[d] = p.worker[d]
  BY RecordFacts
<1> HIDE DEF q
<1>2. FollowsRecord(q, c)
  BY <1>1 DEF FollowsRecord
<1>3. c \in Warm(p)
  BY PostsOf
<1>4. /\ Sound(q, m, n) /\ Known(q) = Known(p)
      /\ Settled(p) => Settled(q)
      /\ AllReachedStill(p, q)
  BY <1>1, <1>2, <1>3, AnswerSound
<1> QED BY <1>1, <1>4 DEF q

(* A build that lands is told to the editor at home, if there is one.       *)
LEMMA LandSound ==
  ASSUME NEW p \in Pages, NEW m, NEW n \in Nat, Sound(p, m, n), Settled(p), AllReached(p),
         p.setup = setup, NEW c \in Copies, p.worker[c].posts # <<>>, IsCurrent(p, c),
         Derived <= n
  PROVE  LET q == Land(p, c, Head(p.worker[c].posts)) IN
         /\ q \in Pages /\ Sound(q, m, n) /\ Settled(q) /\ AllReached(q) /\ Aged(p, q)
         /\ q.setup = p.setup /\ q.minted = p.minted /\ Known(q) = Known(p)
<1> DEFINE s == p.worker[c].posts
           t == Head(s)
           u == IF IsLambda THEN t ELSE p.text[c]
           w == [p.worker[c] EXCEPT !.posts = Tail(s), !.holds = t]
           r == WithRecord(p, c, w, u)
           home == HomeFor(p, c)
           q == Land(p, c, t)
<1>1. /\ c \in Warm(p) /\ c \in Known(p) /\ p.text[c] \in Texts /\ p.text[c] <= n
      /\ p.worker[c] \in WorkerSet /\ p.worker[c].warm
      /\ s \in Seq(Texts) /\ FollowsRecord(p, c)
  BY PostsOf
<1>2. Tail(s) = <<>> /\ t = s[Len(s)] /\ t \in Texts /\ Tail(s) \in Seq(Texts)
  BY <1>1, PostsTail DEF IsCurrent
<1>3. IsLambda <=> ~IsMachine(p)
  BY Legs DEF IsLambda
<1>4. t = p.text[c] \/ (IsLambda /\ t = Derived /\ p.text[c] = Seed)
  BY <1>1, <1>2, <1>3 DEF FollowsRecord
<1>5. w \in WorkerSet /\ w.warm /\ w.posts = <<>> /\ w.bare = p.worker[c].bare /\ w.holds = t
  BY <1>1, <1>2 DEF WorkerSet
<1>6. u \in Texts /\ u <= n /\ (IsMachine(p) => u = p.text[c]) /\ t = u /\ p.text[c] <= u
  <2>1. CASE t = p.text[c]
    <3>1. u = t
      BY <2>1
    <3>2. t \in Nat
      BY <1>2, Apart
    <3> HIDE DEF t, u
    <3> QED BY <1>1, <2>1, <3>1, <3>2
  <2>2. CASE IsLambda /\ t = Derived /\ p.text[c] = Seed
    <3>1. u = t
      BY <2>2
    <3> HIDE DEF t, u
    <3> QED BY <1>2, <1>3, <2>2, <3>1, Apart DEF Seed, Derived
  <2> HIDE DEF t, u
  <2> QED BY <1>4, <2>1, <2>2
<1>7. q = IF home = Nobody THEN r ELSE SetEditor(r, home, r.text[c])
  <2> DEFINE a == [AnswerOf(p, c) EXCEPT !.worker[c].holds = t,
                                         !.text[c] = IF IsLambda THEN t ELSE @]
  <2>1. a = r
    BY DEF AnswerOf, WithRecord
  <2>2. q = IF home = Nobody THEN a ELSE SetEditor(a, home, a.text[c])
    BY DEF Land
  <2> HIDE DEF r, a, q, home
  <2> QED BY <2>1, <2>2
<1>8. /\ r \in Pages /\ Sound(r, m, n) /\ Known(r) = Known(p)
      /\ Settled(p) => Settled(r)
      /\ AllReachedStill(p, r)
      /\ r.setup = p.setup /\ r.minted = p.minted /\ r.editors = p.editors
      /\ r.shows = p.shows /\ r.claims = p.claims
      /\ r.worker[c] = w /\ r.text[c] = u
      /\ \A d \in Copies : d # c => r.text[d] = p.text[d]
  <2> HIDE DEF w, u
  <2>1. p.worker[c].bare => w.bare
    BY <1>5
  <2> QED BY <1>5, <1>6, <2>1, LastAnswered
<1> HIDE DEF q, r, w, u
<1>9. Aged(p, r)
  <2> SUFFICES ASSUME NEW d \in Copies, p.text[d] # NoText PROVE p.text[d] <= r.text[d]
    BY DEF Aged
  <2>1. p.text[d] \in Nat
    BY Apart DEF Pages
  <2> QED BY <1>6, <1>8, <2>1
<1>10. CASE home = Nobody
  BY <1>7, <1>8, <1>9, <1>10 DEF AllReached, AllReachedStill, q, t
<1>11. CASE home # Nobody
  <2> DEFINE z == SetEditor(r, home, u)
  <2>1. home \in Views /\ r.shows[home] = c /\ r.claims[c] = home
    BY <1>8, <1>11 DEF HomeFor, Pages
  <2>2. q = z
    BY <1>7, <1>8, <1>11
  <2>3. IsMachine(r) => u = r.text[c]
    BY <1>8
  <2> HIDE DEF home, z
  <2>4. z \in Pages /\ Sound(z, m, n) /\ Settled(z) /\ Refit(r, z) /\ AllReachedStill(r, z)
    <3>1. CASE On(r, home) = {}
      BY <1>6, <1>8, <2>1, <2>3, <3>1, EditorAdded DEF z
    <3>2. CASE On(r, home) # {}
      BY <1>6, <1>8, <2>1, <2>3, <3>2, EditorTold DEF z
    <3> QED BY <3>1, <3>2
  <2>5. Known(z) = Known(p) /\ z.setup = p.setup /\ z.minted = p.minted /\ Aged(p, z)
    BY <1>8, <1>9, <2>4 DEF Known, Refit, Aged
  <2> QED BY <1>8, <2>2, <2>4, <2>5 DEF AllReached, AllReachedStill, q, t
<1> QED BY <1>10, <1>11

(* A worker that failed holds nothing.                                      *)
LEMMA FailedSound ==
  ASSUME NEW p \in Pages, NEW m, NEW n, Sound(p, m, n), NEW c \in Copies,
         p.worker[c].posts # <<>>, NEW w \in WorkerSet, w.warm, w.posts = <<>>,
         w.holds = NoText, p.worker[c].bare => w.bare
  PROVE  LET q == WithRecord(p, c, w, p.text[c]) IN
         /\ q \in Pages /\ Sound(q, m, n) /\ Known(q) = Known(p)
         /\ Settled(p) => Settled(q)
         /\ AllReachedStill(p, q)
         /\ q.setup = p.setup /\ q.minted = p.minted /\ q.editors = p.editors
         /\ q.shows = p.shows /\ q.claims = p.claims /\ q.worker[c] = w
         /\ Kept(p, q)
<1> DEFINE q == WithRecord(p, c, w, p.text[c])
<1>1. p.text[c] \in Texts /\ p.text[c] <= n
  BY PostsOf
<1>2. /\ q \in Pages /\ Sound(q, m, n) /\ Known(q) = Known(p)
      /\ Settled(p) => Settled(q)
      /\ AllReachedStill(p, q)
      /\ q.setup = p.setup /\ q.minted = p.minted /\ q.editors = p.editors
      /\ q.shows = p.shows /\ q.claims = p.claims
      /\ q.worker[c] = w /\ q.text[c] = p.text[c]
      /\ \A d \in Copies : d # c => q.text[d] = p.text[d]
  BY <1>1, LastAnswered
<1> HIDE DEF q
<1>3. Kept(p, q)
  BY <1>2 DEF Kept, OwedIn
<1> QED BY <1>2, <1>3 DEF q

-----------------------------------------------------------------------------
(* The editors' own steps.  A text recorded by way of the registry.         *)
LEMMA RecompileFacts ==
  ASSUME NEW p \in Pages, NEW c \in Copies, NEW t \in Texts
  PROVE  LET q == Recompile(p, c, t) IN
         /\ q \in Pages /\ SameDesk(p, q) /\ SameWorkers(p, q) /\ q.editors = p.editors
         /\ Known(q) = Known(p)
         /\ q.text[c] = IF c \in Known(p) THEN t ELSE p.text[c]
         /\ \A d \in Copies : d # c => q.text[d] = p.text[d]
         /\ \A n : Registered(p, n) /\ t <= n => Registered(q, n)
<1> DEFINE q == Recompile(p, c, t)
<1>1. CASE c \notin Known(p)
  <2>1. q = p
    BY <1>1 DEF Recompile
  <2> HIDE DEF q
  <2> QED BY <1>1, <2>1 DEF SameDesk, SameWorkers, q
<1>2. CASE c \in Known(p)
  <2> DEFINE s == IF c \in Warm(p) THEN Append(p.worker[c].posts, t) ELSE p.worker[c].posts
             w == [p.worker[c] EXCEPT !.posts = s]
  <2>1. p.worker[c] \in WorkerSet /\ p.worker[c].posts \in Seq(Texts)
    BY DEF Pages, WorkerSet
  <2>2. /\ s \in Seq(Texts)
        /\ c \in Warm(p) => s # <<>> /\ s[Len(s)] = t
    <3> DEFINE z == Append(p.worker[c].posts, t)
    <3>1. /\ z \in Seq(Texts) /\ Len(z) = Len(p.worker[c].posts) + 1
          /\ z[Len(p.worker[c].posts) + 1] = t /\ Len(p.worker[c].posts) \in Nat
      BY <2>1
    <3>2. z # <<>>
      BY <3>1
    <3>3. s = IF c \in Warm(p) THEN z ELSE p.worker[c].posts
      OBVIOUS
    <3> HIDE DEF z, s
    <3> QED BY <2>1, <3>1, <3>2, <3>3
  <2>3. q = WithRecord(p, c, w, t)
    BY <1>2 DEF Recompile, WithRecord
  <2>4. c \notin Warm(p) => s = p.worker[c].posts
    OBVIOUS
  <2> HIDE DEF s
  <2>5. /\ w \in WorkerSet /\ w.warm = p.worker[c].warm /\ w.bare = p.worker[c].bare
        /\ w.posts = s /\ (c \notin Warm(p) => w = p.worker[c])
    BY <2>1, <2>2, <2>4 DEF WorkerSet
  <2> HIDE DEF w, q
  <2>6. /\ q \in Pages /\ q.setup = p.setup /\ q.minted = p.minted
        /\ q.shows = p.shows /\ q.claims = p.claims /\ q.editors = p.editors
        /\ q.thrown = p.thrown /\ q.worker[c] = w /\ q.text[c] = t
        /\ \A d \in Copies : d # c => q.text[d] = p.text[d] /\ q.worker[d] = p.worker[d]
    BY <2>3, <2>5, RecordFacts
  <2>7. /\ SameDesk(p, q) /\ SameWorkers(p, q) /\ Known(q) = Known(p)
        /\ Warm(q) = Warm(p) /\ IsMachine(q) = IsMachine(p)
    BY <1>2, <2>5, <2>6, Apart DEF SameDesk, SameWorkers, Known, Warm, IsMachine
  <2>8. ASSUME NEW n, Registered(p, n), t <= n PROVE Registered(q, n)
    <3>1. \A d \in Copies : q.worker[d].warm \/ q.worker[d] = Asleep
      BY <2>5, <2>6, <2>8 DEF Registered, Warm
    <3>2. ASSUME NEW d \in Warm(q) PROVE FollowsRecord(q, d)
      <4>1. CASE d = c
        BY <2>2, <2>5, <2>6, <2>7, <3>2, <4>1 DEF FollowsRecord
      <4>2. CASE d # c
        <5>1. d \in Copies /\ FollowsRecord(p, d)
          BY <2>7, <2>8, <3>2 DEF Registered, Warm
        <5> QED BY <2>6, <2>7, <4>2, <5>1 DEF FollowsRecord
      <4> QED BY <4>1, <4>2
    <3>3. \A d \in Known(q) : d <= q.minted /\ q.text[d] <= n
      BY <2>6, <2>7, <2>8 DEF Registered, Known
    <3> QED BY <2>6, <2>7, <2>8, <3>1, <3>2, <3>3 DEF Registered
  <2> QED BY <1>2, <2>6, <2>7, <2>8 DEF q
<1> QED BY <1>1, <1>2

(* An editor changed where it is, with the text recorded or not.            *)
LEMMA EditorSwapped ==
  ASSUME NEW p \in Pages, NEW m, NEW n \in Nat, Sound(p, m, n), NEW e \in p.editors,
         NEW x \in EditorSet, x.of = e.of, x.at = e.at,
         NEW m2, NEW n2 \in Nat, n <= n2, x.doc <= n2,
         ~x.timer /\ x.owed # NoText => x.owed = x.doc,
         NEW q \in Pages, SameDesk(p, q), SameWorkers(p, q), Known(q) = Known(p),
         q.editors = (p.editors \ {e}) \cup {x}, Registered(q, n2),
         \A c \in Copies : c # e.of => m2[c] = m[c] /\ q.text[c] = p.text[c],
         IsMachine(p) => /\ Owes(x) => x.doc = m2[e.of] /\ q.text[e.of] <= x.doc
                         /\ ~Owes(x) => q.text[e.of] \in {NoText, x.doc}
                         /\ e.of \in Known(p) /\ m2[e.of] > Derived
                              => q.text[e.of] = m2[e.of] \/ Owes(x)
  PROVE  /\ Sound(q, m2, n2)
         /\ Settled(p) => Settled(q)
         /\ AllReachedStill(p, q)
<1>1. SameSeat(e, {x})
  BY DEF SameSeat
<1>2. /\ Seated(q)
      /\ Resolved(p) => Resolved(q)
      /\ AtHome(p) => AtHome(q)
      /\ \A d \in Copies : Reached(p, d) => Reached(q, d)
  BY <1>1, SwapSeated DEF Sound
<1>3. IsMachine(q) = IsMachine(p) /\ q.minted = p.minted
  BY DEF SameDesk, IsMachine
<1>4. Documented(q, m2, n2)
  <2>0. Documented(p, m, n) /\ Seated(p)
    BY DEF Sound
  <2>1. \A f \in q.editors : f.of \in Copies /\ f.doc \in Nat
    BY Apart DEF Pages, EditorSet
  <2>2. ASSUME NEW f \in q.editors
        PROVE  /\ f.of <= q.minted /\ f.doc <= n2
               /\ ~f.timer /\ f.owed # NoText => f.owed = f.doc
    BY <1>3, <2>0, <2>1, <2>2 DEF Documented
  <2>3. ASSUME IsMachine(p), NEW f \in q.editors, f # x
        PROVE  f \in p.editors /\ f.of # e.of /\ m2[f.of] = m[f.of] /\ q.text[f.of] = p.text[f.of]
    <3>1. f \in p.editors /\ f # e
      BY <2>3
    <3>2. f.of # e.of
      BY <2>0, <2>3, <3>1 DEF Seated
    <3> QED BY <2>1, <3>1, <3>2
  <2>4. ASSUME IsMachine(q), NEW f \in q.editors
        PROVE  IF Owes(f) THEN f.doc = m2[f.of] /\ q.text[f.of] <= f.doc
               ELSE q.text[f.of] \in {NoText, f.doc}
    <3>1. CASE f = x
      BY <1>3, <2>4, <3>1
    <3>2. CASE f # x
      BY <1>3, <2>0, <2>3, <2>4, <3>2 DEF Documented
    <3> QED BY <3>1, <3>2
  <2>5. ASSUME IsMachine(q), NEW d \in Known(q), m2[d] > Derived
        PROVE  q.text[d] = m2[d] \/ \E f \in q.editors : f.of = d /\ Owes(f)
    <3>1. CASE d = e.of
      BY <1>3, <2>5, <3>1
    <3>2. CASE d # e.of
      <4>1. d \in Copies /\ m2[d] = m[d] /\ q.text[d] = p.text[d]
        BY <3>2 DEF Known
      <4>2. p.text[d] = m[d] \/ \E f \in p.editors : f.of = d /\ Owes(f)
        BY <1>3, <2>0, <2>5, <4>1 DEF Documented
      <4> QED BY <3>2, <4>1, <4>2
    <3> QED BY <3>1, <3>2
  <2> QED BY <2>2, <2>4, <2>5 DEF Documented
<1> QED BY <1>2, <1>4 DEF Sound, Settled, AllReachedStill

(* The page with the editor changed.                                        *)
LEMMA ChangeFacts ==
  ASSUME NEW p \in Pages, NEW e \in p.editors, NEW x \in EditorSet
  PROVE  LET q == Change(p, e, x) IN
         /\ q \in Pages /\ SameDesk(p, q) /\ SameWorkers(p, q)
         /\ Known(q) = Known(p) /\ q.text = p.text /\ q.worker = p.worker
         /\ q.editors = (p.editors \ {e}) \cup {x}
         /\ \A n : Registered(p, n) => Registered(q, n)
<1> DEFINE q == Change(p, e, x)
<1>1. /\ q \in Pages /\ q.setup = p.setup /\ q.minted = p.minted /\ q.text = p.text
      /\ q.worker = p.worker /\ q.shows = p.shows /\ q.claims = p.claims
      /\ q.thrown = p.thrown /\ q.editors = (p.editors \ {e}) \cup {x}
  BY DEF Pages, Change
<1> HIDE DEF q
<1>2. SameDesk(p, q) /\ SameWorkers(p, q) /\ Refit(p, q)
  BY <1>1 DEF SameDesk, SameWorkers, Refit
<1>3. Known(q) = Known(p) /\ \A n : Registered(p, n) => Registered(q, n)
  BY <1>1, <1>2, RefitSame
<1> QED BY <1>1, <1>2, <1>3 DEF q

(* A registry stays right when a newer text was made.                       *)
LEMMA MoreTexts ==
  ASSUME NEW p \in Pages, NEW n \in Nat, NEW n2 \in Nat, n <= n2, Registered(p, n)
  PROVE  Registered(p, n2)
<1>1. \A c \in Known(p) : p.text[c] \in Nat
  BY Apart DEF Known, Pages
<1> QED BY <1>1 DEF Registered

(* A text newly made is what the copy's user means.                         *)
NowMeans(m, n, c, m2, n2) == n2 = n + 1 /\ m2 = [m EXCEPT ![c] = n2]

(* A key typed.                                                             *)
LEMMA TypedSound ==
  ASSUME NEW p \in Pages, NEW m \in [Copies -> {NoText} \cup Texts], NEW n \in Nat,
         Sound(p, m, n), NEW e \in p.editors, NEW t \in Texts,
         NEW m2, NowMeans(m, n, e.of, m2, t)
  PROVE  LET q == Change(p, e, Typed(e, t)) IN
         /\ q \in Pages /\ Sound(q, m2, t)
         /\ Settled(p) => Settled(q)
         /\ AllReachedStill(p, q)
         /\ SameDesk(p, q) /\ q.text = p.text /\ q.worker = p.worker
         /\ q.editors = (p.editors \ {e}) \cup {Typed(e, t)}
<1> DEFINE x == Typed(e, t)
           q == Change(p, e, x)
<1>1. e \in EditorSet /\ e.of \in Copies
  BY DEF Pages, EditorSet
<1>2. x \in EditorSet /\ x.of = e.of /\ x.at = e.at /\ x.doc = t /\ x.timer = TRUE /\ Owes(x)
  BY <1>1 DEF EditorSet, Typed, Owes
<1> HIDE DEF x, q
<1>3. /\ q \in Pages /\ SameDesk(p, q) /\ SameWorkers(p, q)
      /\ Known(q) = Known(p) /\ q.text = p.text /\ q.worker = p.worker
      /\ q.editors = (p.editors \ {e}) \cup {x}
      /\ \A k : Registered(p, k) => Registered(q, k)
  BY <1>2, ChangeFacts DEF q
<1>4. Registered(p, n) /\ Registered(q, t)
  <2>1. Registered(p, n) /\ t \in Nat /\ n <= t
    BY DEF Sound, NowMeans
  <2> QED BY <1>3, <2>1, MoreTexts
<1>5. m2[e.of] = t /\ \A c \in Copies : c # e.of => m2[c] = m[c] /\ q.text[c] = p.text[c]
  BY <1>1, <1>3 DEF NowMeans
<1>6. q.text[e.of] <= t
  <2>1. p.text[e.of] \in {NoText} \cup Texts
    BY <1>1 DEF Pages
  <2>2. p.text[e.of] = NoText \/ (p.text[e.of] \in Nat /\ p.text[e.of] <= n)
    BY <1>1, <1>4, <2>1, Apart DEF Registered, Known
  <2> QED BY <1>3, <2>2 DEF NoText, NowMeans
<1>7. Sound(q, m2, t) /\ (Settled(p) => Settled(q)) /\ AllReachedStill(p, q)
  <2>1. t \in Nat /\ n <= t /\ x.doc <= t
    BY <1>2 DEF NowMeans
  <2> QED BY <1>2, <1>3, <1>4, <1>5, <1>6, <2>1, EditorSwapped
<1> QED BY <1>3, <1>7 DEF q, x

(* A format asked for changes what is owed only in where it is kept.        *)
LEMMA AskedSound ==
  ASSUME NEW p \in Pages, NEW m, NEW n \in Nat, Sound(p, m, n), NEW e \in p.editors
  PROVE  LET q == Change(p, e, Asking(e)) IN
         /\ q \in Pages /\ Sound(q, m, n)
         /\ Settled(p) => Settled(q)
         /\ AllReachedStill(p, q)
         /\ SameDesk(p, q) /\ q.text = p.text /\ q.worker = p.worker
         /\ q.editors = (p.editors \ {e}) \cup {Asking(e)}
<1> DEFINE x == Asking(e)
           q == Change(p, e, x)
<1>1. e \in EditorSet /\ e.of \in Copies /\ e.doc \in Nat /\ e.doc # NoText
  BY Apart DEF Pages, EditorSet
<1>2. /\ x \in EditorSet /\ x.of = e.of /\ x.at = e.at /\ x.doc = e.doc /\ x.timer = FALSE
      /\ x.owed = IF e.timer THEN e.doc ELSE e.owed
  BY <1>1 DEF EditorSet, Asking
<1>3. Owes(x) = Owes(e)
  BY <1>1, <1>2 DEF Owes, EditorSet
<1> HIDE DEF x, q
<1>4. /\ q \in Pages /\ SameDesk(p, q) /\ SameWorkers(p, q)
      /\ Known(q) = Known(p) /\ q.text = p.text /\ q.worker = p.worker
      /\ q.editors = (p.editors \ {e}) \cup {x}
      /\ \A k : Registered(p, k) => Registered(q, k)
  BY <1>2, ChangeFacts DEF q
<1>5. Registered(q, n) /\ Documented(p, m, n) /\ Seated(p)
  BY <1>4 DEF Sound
<1>6. x.doc <= n /\ (~x.timer /\ x.owed # NoText => x.owed = x.doc)
  BY <1>2, <1>5 DEF Documented
<1>7. IsMachine(p) => /\ Owes(x) => x.doc = m[e.of] /\ q.text[e.of] <= x.doc
                      /\ ~Owes(x) => q.text[e.of] \in {NoText, x.doc}
                      /\ e.of \in Known(p) /\ m[e.of] > Derived
                           => q.text[e.of] = m[e.of] \/ Owes(x)
  <2> SUFFICES ASSUME IsMachine(p)
               PROVE  /\ Owes(x) => x.doc = m[e.of] /\ q.text[e.of] <= x.doc
                      /\ ~Owes(x) => q.text[e.of] \in {NoText, x.doc}
                      /\ e.of \in Known(p) /\ m[e.of] > Derived
                           => q.text[e.of] = m[e.of] \/ Owes(x)
    OBVIOUS
  <2>1. \A f \in p.editors : f.of = e.of => f = e
    BY <1>5 DEF Seated
  <2> QED BY <1>2, <1>3, <1>4, <1>5, <2>1 DEF Documented
<1>8. Sound(q, m, n) /\ (Settled(p) => Settled(q)) /\ AllReachedStill(p, q)
  BY <1>2, <1>4, <1>5, <1>6, <1>7, EditorSwapped
<1> QED BY <1>4, <1>8 DEF q, x

(* A format answers with the document it found or, where nothing was typed  *)
(* since, with a new one; and hands it over if the text was owed or is new. *)
LEMMA FormatSound ==
  ASSUME NEW p \in Pages, NEW m \in [Copies -> {NoText} \cup Texts], NEW n \in Nat,
         Sound(p, m, n), NEW e \in p.editors, NEW t \in Texts, NEW n2 \in Nat, NEW m2,
         \/ t = e.doc /\ m2 = m /\ n2 = n
         \/ /\ e.doc = e.asked /\ t = n + 1 /\ n2 = n + 1 /\ m2 = [m EXCEPT ![e.of] = t]
  PROVE  LET r == Change(p, e, Answered(e, t))
             q == IF HandsOver(e, t) THEN Recompile(r, e.of, t) ELSE r IN
         /\ q \in Pages /\ Sound(q, m2, n2) /\ Known(q) = Known(p)
         /\ Settled(p) => Settled(q)
         /\ AllReachedStill(p, q)
         /\ Aged(p, q) /\ SameDesk(p, q)
<1> DEFINE x == Answered(e, t)
           r == Change(p, e, x)
           c == e.of
           q == IF HandsOver(e, t) THEN Recompile(r, c, t) ELSE r
<1>1. e \in EditorSet /\ c \in Copies /\ e.doc \in Nat /\ t \in Nat
  BY Apart DEF Pages, EditorSet
<1>2. /\ x \in EditorSet /\ x.of = c /\ x.at = e.at /\ x.doc = t
      /\ x.timer = (e.timer \/ t # e.doc) /\ x.owed = NoText
  <2>1. NoText \in {NoText} \cup Texts /\ (e.timer \/ t # e.doc) \in BOOLEAN
    BY <1>1 DEF EditorSet
  <2> QED BY <1>1, <2>1 DEF EditorSet, Answered
<1>3. Owes(x) <=> (e.timer \/ t # e.doc)
  BY <1>2 DEF Owes
<1>4. Registered(p, n) /\ Documented(p, m, n) /\ Seated(p)
  BY DEF Sound
<1>5. e.doc <= n
  BY <1>4 DEF Documented
<1>6. n <= n2 /\ t <= n2
  BY <1>5
<1> HIDE DEF x
<1>7. /\ r \in Pages /\ SameDesk(p, r) /\ SameWorkers(p, r)
      /\ Known(r) = Known(p) /\ r.text = p.text
      /\ r.editors = (p.editors \ {e}) \cup {x}
      /\ \A k : Registered(p, k) => Registered(r, k)
  BY <1>2, ChangeFacts
<1>8. Registered(r, n2)
  BY <1>4, <1>6, <1>7, MoreTexts
<1> HIDE DEF r
<1>9. /\ q \in Pages /\ SameDesk(p, q) /\ SameWorkers(p, q) /\ Known(q) = Known(p)
      /\ q.editors = (p.editors \ {e}) \cup {x} /\ Registered(q, n2)
      /\ q.text[c] = IF HandsOver(e, t) /\ c \in Known(p) THEN t ELSE p.text[c]
      /\ \A d \in Copies : d # c => q.text[d] = p.text[d]
  <2>1. CASE ~HandsOver(e, t)
    BY <1>7, <1>8, <2>1
  <2>2. CASE HandsOver(e, t)
    <3> DEFINE z == Recompile(r, c, t)
    <3>1. q = z
      BY <2>2
    <3> HIDE DEF q, c
    <3>2. /\ z \in Pages /\ SameDesk(r, z) /\ SameWorkers(r, z) /\ z.editors = r.editors
          /\ Known(z) = Known(r)
          /\ z.text[c] = IF c \in Known(r) THEN t ELSE r.text[c]
          /\ \A d \in Copies : d # c => z.text[d] = r.text[d]
          /\ \A k : Registered(r, k) /\ t <= k => Registered(z, k)
      BY <1>1, <1>7, RecompileFacts
    <3> HIDE DEF z
    <3>3. SameDesk(p, z) /\ SameWorkers(p, z)
      BY <1>7, <3>2 DEF SameDesk, SameWorkers
    <3> QED BY <1>6, <1>7, <1>8, <2>2, <3>1, <3>2, <3>3
  <2> QED BY <2>1, <2>2
<1> HIDE DEF q
<1>10. ~HandsOver(e, t) => e.owed = NoText /\ t = e.doc /\ (Owes(e) <=> Owes(x))
  BY <1>3 DEF HandsOver, Owes
<1>11. m2[c] = (IF t = e.doc /\ m2 = m THEN m[c] ELSE t) /\ \A d \in Copies : d # c => m2[d] = m[d]
  BY <1>1
<1>12. IsMachine(p) => IF Owes(e) THEN e.doc = m[c] /\ p.text[c] <= e.doc
                       ELSE p.text[c] \in {NoText, e.doc}
  BY <1>4 DEF Documented
<1>13. p.text[c] = NoText \/ (p.text[c] \in Nat /\ p.text[c] <= n)
  BY <1>1, <1>4, Apart DEF Registered, Known, Pages
<1>14. ASSUME IsMachine(p), Owes(x) PROVE x.doc = m2[c] /\ q.text[c] <= x.doc
  <2>1. CASE t = e.doc /\ m2 = m
    <3>1. Owes(e)
      BY <1>3, <1>14, <2>1 DEF Owes
    <3> QED BY <1>1, <1>2, <1>9, <1>12, <1>14, <2>1, <3>1
  <2>2. CASE t = n + 1 /\ m2 = [m EXCEPT ![e.of] = t]
    BY <1>1, <1>2, <1>9, <1>13, <2>2 DEF NoText
  <2> QED BY <2>1, <2>2
<1>15. ASSUME IsMachine(p), ~Owes(x) PROVE q.text[c] \in {NoText, x.doc}
  <2>1. t = e.doc
    BY <1>3, <1>15
  <2>2. CASE HandsOver(e, t) /\ c \in Known(p)
    BY <1>2, <1>9, <2>2
  <2>3. CASE HandsOver(e, t) /\ c \notin Known(p)
    BY <1>1, <1>9, <2>3 DEF Known
  <2>4. CASE ~HandsOver(e, t)
    BY <1>2, <1>9, <1>10, <1>12, <1>15, <2>1, <2>4
  <2> QED BY <2>2, <2>3, <2>4
<1>16. ASSUME IsMachine(p), c \in Known(p), m2[c] > Derived
       PROVE  q.text[c] = m2[c] \/ Owes(x)
  <2>1. CASE t = e.doc /\ m2 = m
    <3>1. p.text[c] = m[c] \/ \E f \in p.editors : f.of = c /\ Owes(f)
      BY <1>4, <1>16, <2>1 DEF Documented
    <3>2. p.text[c] = m[c] \/ Owes(e)
      BY <1>4, <1>16, <3>1 DEF Seated
    <3>3. CASE ~HandsOver(e, t)
      BY <1>9, <1>10, <2>1, <3>2, <3>3
    <3>4. CASE HandsOver(e, t)
      <4>1. q.text[c] = t
        BY <1>9, <1>16, <3>4
      <4>2. e.doc = m[c]
        BY <1>12, <1>16, <3>2 DEF Known
      <4> QED BY <2>1, <4>1, <4>2
    <3> QED BY <3>3, <3>4
  <2>2. CASE t = n + 1 /\ m2 = [m EXCEPT ![e.of] = t]
    BY <1>1, <1>3, <1>5, <2>2
  <2> QED BY <2>1, <2>2
<1>17. Sound(q, m2, n2) /\ (Settled(p) => Settled(q)) /\ AllReachedStill(p, q)
  <2>1. \A d \in Copies : d # e.of => m2[d] = m[d] /\ q.text[d] = p.text[d]
    BY <1>9, <1>11
  <2>2. x.doc <= n2 /\ (~x.timer /\ x.owed # NoText => x.owed = x.doc)
    BY <1>2, <1>6
  <2>3. IsMachine(p) => /\ Owes(x) => x.doc = m2[e.of] /\ q.text[e.of] <= x.doc
                        /\ ~Owes(x) => q.text[e.of] \in {NoText, x.doc}
                        /\ e.of \in Known(p) /\ m2[e.of] > Derived
                              => q.text[e.of] = m2[e.of] \/ Owes(x)
    BY <1>14, <1>15, <1>16
  <2>4. x.of = e.of /\ x.at = e.at /\ x \in EditorSet
    BY <1>2
  <2> QED BY <1>6, <1>9, <2>1, <2>2, <2>3, <2>4, EditorSwapped
<1>18. Aged(p, q)
  <2> SUFFICES ASSUME NEW d \in Copies, p.text[d] # NoText, q.text[d] # NoText
               PROVE  \/ p.text[d] <= q.text[d]
                      \/ ~IsMachine(p) /\ \E f \in p.editors : f.of = d /\ f.doc = q.text[d]
    BY DEF Aged
  <2>0. p.text[d] \in Nat
    BY Apart DEF Pages
  <2>1. CASE q.text[d] = p.text[d]
    BY <2>0, <2>1
  <2>2. CASE q.text[d] # p.text[d]
    <3>1. d = c /\ q.text[c] = t
      BY <1>9, <2>2
    <3>2. CASE t = n + 1
      BY <1>13, <3>1, <3>2
    <3>3. CASE t = e.doc /\ ~IsMachine(p)
      BY <3>1, <3>3
    <3>4. CASE t = e.doc /\ IsMachine(p)
      BY <1>12, <2>0, <3>1, <3>4
    <3> QED BY <3>1, <3>2, <3>3, <3>4
  <2> QED BY <2>1, <2>2
<1> QED BY <1>9, <1>17, <1>18 DEF q, r, x
-----------------------------------------------------------------------------
(* Turning views.  A view without an editor turned to another session is a  *)
(* step between pages that only what it shows then can be out of reach of.  *)
LEMMA TurnedOnward ==
  ASSUME NEW p \in Pages, NEW m, NEW n, Sound(p, m, n), Settled(p), NEW l \in Views,
         On(p, l) = {}, NEW s \in {Closed, Source} \cup Warm(p)
  PROVE  LET q == [p EXCEPT !.shows[l] = s] IN
         /\ Onward(p, q, m, n) /\ q.shows = [p.shows EXCEPT ![l] = s]
         /\ q.text = p.text /\ q.worker = p.worker /\ q.editors = p.editors
         /\ q.claims = p.claims /\ q.shows[l] = s
         /\ \A c \in Copies : c # s /\ Reached(p, c) => Reached(q, c)
<1> DEFINE q == [p EXCEPT !.shows[l] = s]
<1>1. /\ q \in Pages /\ Sound(q, m, n) /\ Settled(q)
      /\ q.setup = p.setup /\ q.minted = p.minted /\ q.text = p.text
      /\ q.worker = p.worker /\ q.claims = p.claims /\ q.editors = p.editors
      /\ q.thrown = p.thrown /\ q.shows = [p.shows EXCEPT ![l] = s]
      /\ \A c \in Copies : c # s /\ Reached(p, c) => Reached(q, c)
  BY ViewTurned
<1> HIDE DEF q
<1>2. Kept(p, q) /\ Known(q) = Known(p) /\ Warm(q) = Warm(p)
  BY <1>1 DEF Kept, OwedIn, Known, Warm
<1>3. q.shows[l] = s
  BY <1>1 DEF Pages
<1> QED BY <1>1, <1>2, <1>3 DEF Onward, q

(* The views a deleted copy was on go back to it.                           *)
LEMMA MovedBack ==
  ASSUME NEW p \in Pages, NEW m, NEW n, Sound(p, m, n), Settled(p), AllReached(p),
         NEW c \in Warm(p), NEW views
  PROVE  LET q == MoveBack(p, c, views) IN
         Onward(p, q, m, n) /\ AllReached(q) /\ q.text = p.text
<1> DEFINE visit(q, l) == IF l \notin views \/ q.shows[l] # Source THEN q
                          ELSE MountScratchEditor([q EXCEPT !.shows[l] = c], l, c)
           P == [k \in 0..Leaves |->
                   {q \in Pages : Onward(p, q, m, n) /\ AllReached(q) /\ q.text = p.text}]
           f == [k \in 1..Leaves |-> [q \in P[k - 1] |-> visit(q, k)]]
<1>0. Leaves \in Nat /\ Views = 1..Leaves /\ c \in Copies /\ Source \notin Copies
  BY Apart DEF Warm
<1>1. p \in P[0]
  BY <1>0, OnwardChains
<1>2. ASSUME NEW k \in 1..Leaves, NEW q \in P[k - 1] PROVE visit(q, k) \in P[k]
  <2>0. /\ k - 1 \in 0..Leaves /\ k \in 0..Leaves /\ k \in Views
        /\ q \in Pages /\ Onward(p, q, m, n) /\ AllReached(q) /\ q.text = p.text
        /\ Sound(q, m, n) /\ Settled(q) /\ c \in Warm(q)
    BY <1>0 DEF Onward
  <2>1. CASE k \notin views \/ q.shows[k] # Source
    BY <2>0, <2>1
  <2>2. CASE ~(k \notin views \/ q.shows[k] # Source)
    <3> DEFINE r == [q EXCEPT !.shows[k] = c]
               s == MountScratchEditor(r, k, c)
    <3>1. visit(q, k) = s
      BY <2>2
    <3> HIDE DEF visit
    <3>2. On(q, k) = {}
      <4> SUFFICES ASSUME NEW e \in On(q, k) PROVE FALSE
        OBVIOUS
      <4>1. e \in Mounted(q) /\ e.at = k /\ e.of \in Copies
        BY <2>0 DEF On, Mounted, Pages, EditorSet
      <4>2. q.shows[k] = e.of
        BY <2>0, <4>1 DEF Settled, Resolved
      <4> QED BY <1>0, <2>2, <4>1, <4>2
    <3>3. /\ Onward(q, r, m, n) /\ r.shows[k] = c /\ r.text = q.text
          /\ \A d \in Copies : d # c /\ Reached(q, d) => Reached(r, d)
      BY <2>0, <3>2, TurnedOnward
    <3> HIDE DEF r
    <3>4. r \in Pages /\ Sound(r, m, n) /\ Settled(r)
      BY <3>3 DEF Onward
    <3>5. Onward(r, s, m, n) /\ s.text = r.text /\ Reached(s, c) /\ AllReachedStill(r, s)
      BY <1>0, <2>0, <3>3, <3>4, MountedThere
    <3> HIDE DEF s
    <3>6. Onward(p, s, m, n)
      <4>1. Onward(q, s, m, n)
        BY <2>0, <3>3, <3>5, OnwardChains
      <4> QED BY <2>0, <4>1, OnwardChains
    <3>7. AllReached(s)
      BY <2>0, <3>3, <3>5 DEF AllReached, AllReachedStill
    <3>8. s \in Pages
      BY <3>6 DEF Onward
    <3> QED BY <2>0, <3>1, <3>3, <3>5, <3>6, <3>7, <3>8
  <2> QED BY <2>1, <2>2
<1> HIDE DEF visit, P
<1>3. PICK at : Walks(at, f, p, Leaves, P)
  <2>1. \A k \in 1..Leaves : \A q \in P[k - 1] : f[k][q] \in P[k]
    BY <1>2
  <2> HIDE DEF f
  <2> QED BY <1>0, <1>1, <2>1, Turns
<1> DEFINE walk == CHOOSE a : a = [k \in 0..Leaves |-> IF k = 0 THEN p ELSE visit(a[k - 1], k)]
<1>4. walk = [k \in 0..Leaves |-> IF k = 0 THEN p ELSE visit(walk[k - 1], k)]
  <2>1. ASSUME NEW k \in 0..Leaves PROVE at[k] = IF k = 0 THEN p ELSE visit(at[k - 1], k)
    <3>1. k # 0 => k \in 1..Leaves /\ k - 1 \in 0..Leaves
      BY <1>0
    <3> QED BY <1>3, <3>1 DEF Walks
  <2>2. at = [k \in 0..Leaves |-> IF k = 0 THEN p ELSE visit(at[k - 1], k)]
    BY <1>3, <2>1 DEF Walks
  <2> QED BY <2>2
<1>5. MoveBack(p, c, views) = walk[Leaves]
  BY DEF MoveBack, InTurn, visit, walk
<1> HIDE DEF walk
<1>6. walk[Leaves] \in P[Leaves]
  <2>1. walk[0] = p /\ \A k \in 1..Leaves : walk[k] = visit(walk[k - 1], k)
    <3>1. 0 \in 0..Leaves /\ \A k \in 1..Leaves : k \in 0..Leaves /\ k # 0
      BY <1>0
    <3> QED BY <1>4, <3>1
  <2>2. \A k \in 1..Leaves : walk[k - 1] \in P[k - 1] => walk[k] \in P[k]
    BY <1>2, <2>1
  <2> QED BY <1>0, <1>1, <2>1, <2>2, TurnsStay
<1>7. Onward(p, walk[Leaves], m, n) /\ AllReached(walk[Leaves]) /\ walk[Leaves].text = p.text
  <2>1. Leaves \in 0..Leaves
    BY <1>0
  <2> QED BY <1>6, <2>1 DEF P
<1> QED BY <1>5, <1>7

(* A page loaded: what was stored, with every copy asleep and no editor;    *)
(* and that page while its copies are warmed.                               *)
Loaded(b, q) ==
    /\ q.setup = b.setup /\ q.minted = b.minted /\ q.text = b.text /\ q.shows = b.shows
    /\ q.claims = [c \in Copies |-> Nobody] /\ q.editors = {} /\ q.thrown = FALSE

(* The copies shown are no more than were warm, so that each finds room.    *)
LEMMA ShownWarmed ==
  ASSUME NEW b \in Pages, NEW m, NEW n, Sound(b, m, n), NEW p \in Pages, Loaded(b, p),
         p.worker = [c \in Copies |-> Asleep]
  PROVE  LET q == InTurn(p, Leaves, WarmShown) IN
         /\ q \in Pages /\ Loaded(b, q) /\ Recorded(q, n)
         /\ \A l \in Views : q.shows[l] \in {Closed, Source} \cup Warm(q)
<1> DEFINE visit(q, l) == WarmShown(q, l)
           P == [k \in 0..Leaves |->
                   {q \in Pages : /\ Loaded(b, q) /\ Recorded(q, n) /\ Warm(q) \subseteq Warm(b)
                                  /\ \A l \in 1..k : b.shows[l] \in {Closed, Source} \cup Warm(q)}]
           f == [k \in 1..Leaves |-> [q \in P[k - 1] |-> visit(q, k)]]
<1>0. /\ Leaves \in Nat /\ Views = 1..Leaves /\ Source \notin Copies /\ Closed \notin Copies
      /\ Recorded(b, n) /\ \A l \in Views : b.shows[l] \in {Closed, Source} \cup Warm(b)
  BY Apart, RegisteredIs DEF Sound
<1>1. p \in P[0]
  <2>1. Warm(p) = {}
    BY DEF Warm, Asleep
  <2>2. Known(p) = Known(b)
    BY DEF Loaded, Known
  <2>3. Cardinality({}) = 0 /\ p.setup.cap \in Nat
    BY FS_EmptySet, Legs
  <2>4. Recorded(p, n)
    BY <1>0, <2>1, <2>2, <2>3 DEF Recorded, Loaded
  <2> QED BY <1>0, <2>1, <2>4
<1>2. ASSUME NEW k \in 1..Leaves, NEW q \in P[k - 1] PROVE visit(q, k) \in P[k]
  <2> DEFINE c == q.shows[k]
             r == Warmed(q, c)
  <2>0. /\ k - 1 \in 0..Leaves /\ k \in 0..Leaves /\ k \in Views
        /\ q \in Pages /\ Loaded(b, q) /\ Recorded(q, n) /\ Warm(q) \subseteq Warm(b)
        /\ \A l \in 1..(k - 1) : b.shows[l] \in {Closed, Source} \cup Warm(q)
        /\ c = b.shows[k] /\ c \in {Closed, Source} \cup Warm(b)
    BY <1>0 DEF Loaded
  <2>1. \A l \in 1..k : l = k \/ l \in 1..(k - 1)
    OBVIOUS
  <2>2. CASE c \notin Copies
    <3>1. visit(q, k) = q
      BY <2>2 DEF WarmShown
    <3>2. c \notin Warm(b)
      BY <2>2 DEF Warm
    <3> QED BY <2>0, <2>1, <3>1, <3>2
  <2>3. CASE c \in Warm(q)
    <3>1. visit(q, k) = q
      BY <2>3 DEF WarmShown, Warmed, Warm
    <3> QED BY <2>0, <2>1, <2>3, <3>1
  <2>4. CASE c \in Copies /\ c \notin Warm(q)
    <3> HIDE DEF c
    <3>1. c \in Warm(b) /\ c \in Known(q)
      BY <1>0, <2>0, <2>4 DEF Recorded, Known, Loaded
    <3>2. HasRoom(q)
      <4>1. Warm(q) \in SUBSET Warm(b) /\ Warm(q) # Warm(b)
        BY <2>0, <2>4, <3>1
      <4>2. /\ Cardinality(Warm(q)) <= Cardinality(Warm(b))
            /\ Cardinality(Warm(q)) # Cardinality(Warm(b))
        BY <4>1, WarmFinite, FS_Subset
      <4>3. /\ Cardinality(Warm(q)) \in Nat /\ Cardinality(Warm(b)) \in Nat
            /\ b.setup.cap \in Nat /\ Cardinality(Warm(b)) <= b.setup.cap
        BY <1>0, WarmFinite, Legs DEF Recorded
      <4>4. q.setup = b.setup
        BY <2>0 DEF Loaded
      <4> QED BY <4>2, <4>3, <4>4 DEF HasRoom
    <3>3. visit(q, k) = r
      BY <2>4, <3>2 DEF WarmShown, c
    <3> HIDE DEF visit
    <3>4. /\ r \in Pages /\ r.setup = q.setup /\ r.minted = q.minted /\ r.text = q.text
          /\ r.shows = q.shows /\ r.claims = q.claims /\ r.editors = q.editors
          /\ r.thrown = q.thrown /\ Warm(r) = Warm(q) \cup {c}
          /\ \A d \in Copies : d # c => r.text[d] = q.text[d] /\ r.worker[d] = q.worker[d]
          /\ r.worker[c].warm /\ FollowsRecord(r, c)
          /\ c <= r.minted /\ r.minted >= q.minted
          /\ r.text[c] \in Texts /\ r.text[c] <= n
      BY <2>0, <2>4, <3>1, WarmedFacts
    <3> HIDE DEF r
    <3>5. Recorded(r, n)
      BY <2>0, <2>4, <3>2, <3>4, SpawnedRecorded
    <3>6. Loaded(b, r)
      BY <2>0, <3>4 DEF Loaded
    <3>7. Warm(r) \subseteq Warm(b)
      BY <2>0, <3>1, <3>4
    <3>8. \A l \in 1..k : b.shows[l] \in {Closed, Source} \cup Warm(r)
      BY <2>0, <2>1, <3>4
    <3> QED BY <2>0, <3>3, <3>4, <3>5, <3>6, <3>7, <3>8
  <2> QED BY <2>2, <2>3, <2>4
<1> HIDE DEF visit, P
<1>3. PICK at : Walks(at, f, p, Leaves, P)
  <2>1. \A k \in 1..Leaves : \A q \in P[k - 1] : f[k][q] \in P[k]
    BY <1>2
  <2> HIDE DEF f
  <2> QED BY <1>0, <1>1, <2>1, Turns
<1> DEFINE walk == CHOOSE a : a = [k \in 0..Leaves |-> IF k = 0 THEN p ELSE visit(a[k - 1], k)]
<1>4. walk = [k \in 0..Leaves |-> IF k = 0 THEN p ELSE visit(walk[k - 1], k)]
  <2>1. ASSUME NEW k \in 0..Leaves PROVE at[k] = IF k = 0 THEN p ELSE visit(at[k - 1], k)
    <3>1. k # 0 => k \in 1..Leaves /\ k - 1 \in 0..Leaves
      BY <1>0
    <3> QED BY <1>3, <3>1 DEF Walks
  <2>2. at = [k \in 0..Leaves |-> IF k = 0 THEN p ELSE visit(at[k - 1], k)]
    BY <1>3, <2>1 DEF Walks
  <2> QED BY <2>2
<1>5. InTurn(p, Leaves, WarmShown) = walk[Leaves]
  BY DEF InTurn, visit, walk
<1> HIDE DEF walk
<1>6. walk[Leaves] \in P[Leaves]
  <2>1. walk[0] = p /\ \A k \in 1..Leaves : walk[k] = visit(walk[k - 1], k)
    <3>1. 0 \in 0..Leaves /\ \A k \in 1..Leaves : k \in 0..Leaves /\ k # 0
      BY <1>0
    <3> QED BY <1>4, <3>1
  <2>2. \A k \in 1..Leaves : walk[k - 1] \in P[k - 1] => walk[k] \in P[k]
    BY <1>2, <2>1
  <2> QED BY <1>0, <1>1, <2>1, <2>2, TurnsStay
<1> DEFINE q == InTurn(p, Leaves, WarmShown)
<1>7. /\ q \in Pages /\ Loaded(b, q) /\ Recorded(q, n)
      /\ \A l \in 1..Leaves : b.shows[l] \in {Closed, Source} \cup Warm(q)
  <2>1. Leaves \in 0..Leaves
    BY <1>0
  <2> QED BY <1>5, <1>6, <2>1 DEF P
<1> HIDE DEF q
<1> QED BY <1>0, <1>7 DEF Loaded, q

(* The editors of the copies shown are mounted, each copy's on the first    *)
(* view of it.                                                              *)
LEMMA ShownMounted ==
  ASSUME NEW p \in Pages, NEW m, NEW n, Sound(p, m, n), Settled(p)
  PROVE  LET q == InTurn(p, Leaves, MountShown) IN
         /\ Onward(p, q, m, n) /\ AllReached(q)
         /\ q.shows = p.shows /\ q.text = p.text
<1> DEFINE visit(q, l) == MountShown(q, l)
           P == [k \in 0..Leaves |->
                   {q \in Pages : /\ Onward(p, q, m, n) /\ q.shows = p.shows /\ q.text = p.text
                                  /\ \A l \in 1..k : p.shows[l] \in Copies => Reached(q, p.shows[l])}]
           f == [k \in 1..Leaves |-> [q \in P[k - 1] |-> visit(q, k)]]
<1>0. Leaves \in Nat /\ Views = 1..Leaves
  BY Apart
<1>1. p \in P[0]
  BY <1>0, OnwardChains
<1>2. ASSUME NEW k \in 1..Leaves, NEW q \in P[k - 1] PROVE visit(q, k) \in P[k]
  <2> DEFINE c == q.shows[k]
             r == MountScratchEditor(q, k, c)
  <2>0. /\ k - 1 \in 0..Leaves /\ k \in 0..Leaves /\ k \in Views
        /\ q \in Pages /\ Onward(p, q, m, n) /\ q.shows = p.shows /\ q.text = p.text
        /\ \A l \in 1..(k - 1) : p.shows[l] \in Copies => Reached(q, p.shows[l])
        /\ Sound(q, m, n) /\ Settled(q)
    BY <1>0 DEF Onward
  <2>1. \A l \in 1..k : l = k \/ l \in 1..(k - 1)
    OBVIOUS
  <2>2. CASE c \notin Copies
    <3>1. visit(q, k) = q
      BY <2>2 DEF MountShown
    <3> QED BY <2>0, <2>1, <2>2, <3>1
  <2>3. CASE c \in Copies
    <3>1. visit(q, k) = r
      BY <2>3 DEF MountShown
    <3> HIDE DEF visit
    <3>2. /\ Onward(q, r, m, n) /\ r.shows = q.shows /\ r.text = q.text
          /\ Reached(r, c) /\ AllReachedStill(q, r)
      BY <2>0, <2>3, MountedThere
    <3> HIDE DEF r
    <3>3. Onward(p, r, m, n) /\ r \in Pages
      BY <2>0, <3>2, OnwardChains DEF Onward
    <3>4. \A l \in 1..k : p.shows[l] \in Copies => Reached(r, p.shows[l])
      BY <2>0, <2>1, <3>2 DEF AllReachedStill
    <3> QED BY <2>0, <3>1, <3>2, <3>3, <3>4
  <2> QED BY <2>2, <2>3
<1> HIDE DEF visit, P
<1>3. PICK at : Walks(at, f, p, Leaves, P)
  <2>1. \A k \in 1..Leaves : \A q \in P[k - 1] : f[k][q] \in P[k]
    BY <1>2
  <2> HIDE DEF f
  <2> QED BY <1>0, <1>1, <2>1, Turns
<1> DEFINE walk == CHOOSE a : a = [k \in 0..Leaves |-> IF k = 0 THEN p ELSE visit(a[k - 1], k)]
<1>4. walk = [k \in 0..Leaves |-> IF k = 0 THEN p ELSE visit(walk[k - 1], k)]
  <2>1. ASSUME NEW k \in 0..Leaves PROVE at[k] = IF k = 0 THEN p ELSE visit(at[k - 1], k)
    <3>1. k # 0 => k \in 1..Leaves /\ k - 1 \in 0..Leaves
      BY <1>0
    <3> QED BY <1>3, <3>1 DEF Walks
  <2>2. at = [k \in 0..Leaves |-> IF k = 0 THEN p ELSE visit(at[k - 1], k)]
    BY <1>3, <2>1 DEF Walks
  <2> QED BY <2>2
<1>5. InTurn(p, Leaves, MountShown) = walk[Leaves]
  BY DEF InTurn, visit, walk
<1> HIDE DEF walk
<1>6. walk[Leaves] \in P[Leaves]
  <2>1. walk[0] = p /\ \A k \in 1..Leaves : walk[k] = visit(walk[k - 1], k)
    <3>1. 0 \in 0..Leaves /\ \A k \in 1..Leaves : k \in 0..Leaves /\ k # 0
      BY <1>0
    <3> QED BY <1>4, <3>1
  <2>2. \A k \in 1..Leaves : walk[k - 1] \in P[k - 1] => walk[k] \in P[k]
    BY <1>2, <2>1
  <2> QED BY <1>0, <1>1, <2>1, <2>2, TurnsStay
<1> DEFINE q == InTurn(p, Leaves, MountShown)
<1>7. /\ Onward(p, q, m, n) /\ q.shows = p.shows /\ q.text = p.text
      /\ \A l \in 1..Leaves : p.shows[l] \in Copies => Reached(q, p.shows[l])
  <2>1. Leaves \in 0..Leaves
    BY <1>0
  <2> QED BY <1>5, <1>6, <2>1 DEF P
<1> HIDE DEF q
<1>8. AllReached(q)
  BY <1>0, <1>7 DEF AllReached, Reached, ViewsOf
<1>9. Onward(p, q, m, n) /\ AllReached(q) /\ q.shows = p.shows /\ q.text = p.text
  BY <1>7, <1>8
<1> QED BY <1>9 DEF q

(* A page loaded again has every copy with its text of record, and that is  *)
(* what its user means from then on.                                        *)
LEMMA LoadedSound ==
  ASSUME NEW b \in Pages, NEW m, NEW n, Sound(b, m, n), NEW p \in Pages, Loaded(b, p),
         p.worker = [c \in Copies |-> Asleep]
  PROVE  LET q == InTurn(InTurn(p, Leaves, WarmShown), Leaves, MountShown) IN
         /\ q \in Pages /\ Sound(q, b.text, n) /\ Settled(q) /\ AllReached(q)
         /\ q.setup = b.setup /\ q.minted = b.minted
         /\ q.text = b.text /\ q.shows = b.shows
<1> DEFINE r == InTurn(p, Leaves, WarmShown)
           q == InTurn(r, Leaves, MountShown)
<1>1. /\ r \in Pages /\ Loaded(b, r) /\ Recorded(r, n)
      /\ \A l \in Views : r.shows[l] \in {Closed, Source} \cup Warm(r)
  BY ShownWarmed
<1> HIDE DEF r
<1>2. Mounted(r) = {} /\ AtOwn(r) = {} /\ r.editors = {}
  BY <1>1 DEF Loaded, Mounted, AtOwn
<1>3. Registered(r, n) /\ Seated(r) /\ Settled(r)
  <2>1. Registered(r, n)
    BY <1>1, RegisteredIs
  <2> QED BY <1>2, <2>1 DEF Seated, Settled, Resolved, AtHome, HomeOnly
<1>4. Documented(r, b.text, n)
  BY <1>1, <1>2 DEF Documented, Loaded
<1>5. Sound(r, b.text, n)
  BY <1>1, <1>3, <1>4 DEF Sound
<1>6. Onward(r, q, b.text, n) /\ AllReached(q) /\ q.shows = r.shows /\ q.text = r.text
  BY <1>1, <1>3, <1>5, ShownMounted
<1> HIDE DEF q
<1>7. /\ q \in Pages /\ Sound(q, b.text, n) /\ Settled(q) /\ AllReached(q)
      /\ q.setup = b.setup /\ q.minted = b.minted /\ q.text = b.text /\ q.shows = b.shows
  BY <1>1, <1>6 DEF Onward, Loaded
<1> QED BY <1>7 DEF q, r

-----------------------------------------------------------------------------
(* Between events.  A page as an event leaves it, and its storage.          *)
Quiet(p, m, n) == p \in Pages /\ Sound(p, m, n) /\ Settled(p) /\ AllReached(p)

(* A page keeps quiet in its registry, seats and documents whether or not   *)
(* its last sweep threw.                                                    *)
LEMMA ThrownIsForgotten ==
  ASSUME NEW p \in Pages, NEW m, NEW n, Quiet(p, m, n), NEW q \in Pages,
         q.setup = p.setup, q.minted = p.minted, q.shows = p.shows,
         q.text = p.text, q.worker = p.worker, q.editors = p.editors,
         q.claims = p.claims
  PROVE  Quiet(q, m, n)
<1>1. Sound(p, m, n) /\ Settled(p) /\ AllReached(p)
  BY DEF Quiet
<1>2. \A e \in AtOwn(p) : HomeFor(q, e.of) # Nobody
  BY <1>1 DEF Sound, Seated, HomeFor
<1>3. Across(p, q, m, n) /\ AtOwn(q) = AtOwn(p)
  BY <1>1, <1>2, OtherwiseSame
<1>4. AtHome(q)
  BY <1>1, <1>3 DEF AtHome, HomeOnly, Settled
<1> QED BY <1>1, <1>3, <1>4 DEF Quiet, Settled, AllReached, AllReachedStill, Across

(* The sweep at the end of a gesture.                                       *)
LEMMA SweptQuiet ==
  ASSUME NEW p \in Pages, NEW m, NEW n \in Nat, Sound(p, m, n), Resolved(p), AllReached(p),
         p.thrown = FALSE, NEW order \in Orders
  PROVE  LET q == Reconcile(p, order) IN
         /\ Quiet(q, m, n) /\ Kept(p, q) /\ Known(q) = Known(p)
         /\ q.setup = p.setup /\ q.minted = p.minted
<1> DEFINE q == Reconcile(p, order)
<1>1. q \in Pages /\ Across(p, q, m, n) /\ AtHome(q)
  BY Reconciled
<1> HIDE DEF q
<1>2. Quiet(q, m, n) /\ Kept(p, q) /\ Known(q) = Known(p) /\ q.setup = p.setup /\ q.minted = p.minted
  BY <1>1 DEF Across, Quiet, Settled, AllReached, AllReachedStill
<1> QED BY <1>2 DEF q

(* A page whose texts of record are the same, or of copies that had none,   *)
(* is no older.                                                             *)
LEMMA SameTextIsAged ==
  ASSUME NEW p \in Pages, NEW q,
         \A c \in Copies : p.text[c] # NoText => q.text[c] = p.text[c]
  PROVE  Aged(p, q)
<1>1. ASSUME NEW c \in Copies PROVE p.text[c] = NoText \/ p.text[c] <= p.text[c]
  <2> DEFINE v == p.text[c]
  <2>1. v \in {NoText} \cup Texts
    BY DEF Pages
  <2> HIDE DEF v
  <2>2. v = NoText \/ v \in Nat
    BY <2>1, Apart
  <2>3. v \in Nat => v <= v
    OBVIOUS
  <2> QED BY <2>2, <2>3 DEF v
<1> QED BY <1>1 DEF Aged

(* What a step does to the records of the copies.                           *)
RecordStep ==
    /\ \A c \in Copies :
          (text[c] # NoText /\ text'[c] # NoText) =>
              \/ text[c] <= text'[c]
              \/ IsLambda /\ \E e \in editors : e.of = c /\ e.doc = text'[c]
    /\ reloads' # reloads => text' = text /\ shows' = shows

(* The invariant speaks of the page as a record.                            *)
LEMMA PageIs ==
  ASSUME IInv
  PROVE  /\ Quiet(Page, meant, newest)
         /\ newest \in Nat /\ newest \in Texts /\ Derived <= newest
         /\ Page.setup = setup /\ Page.minted = minted /\ Page.text = text
         /\ Page.worker = worker /\ Page.shows = shows /\ Page.claims = claims
         /\ Page.editors = editors /\ Page.thrown = FALSE
         /\ setup \in Setups /\ (IsLambda <=> ~IsMachine(Page))
         /\ setup.copies \in 1..MaxCopies /\ setup.texts \in 1..MaxText
         /\ minted \in Nat
<1>1. Page \in Pages
  BY DEF IInv, Sound
<1>2. newest \in Nat /\ newest \in Texts /\ Derived <= newest
  BY Apart, <1>1 DEF IInv, Texts, Derived, Seed
<1>3. setup \in Setups /\ (IsLambda <=> ~IsMachine(Page))
  BY <1>1, Legs DEF Page, IsLambda
<1>4. setup.copies \in 1..MaxCopies /\ setup.texts \in 1..MaxText
  BY <1>3, SetupsAssumption DEF Copies
<1>5. minted \in Nat
  BY <1>1, Apart DEF Pages, Page
<1> QED BY <1>1, <1>2, <1>3, <1>4, <1>5 DEF IInv, Quiet, Page

(* An event that leaves a page quiet, and stores it, keeps the invariant.   *)
LEMMA Ends ==
  ASSUME IInv, NEW p, NEW m1 \in [Copies -> {NoText} \cup Texts],
         NEW n1 \in Derived..MaxText,
         Quiet(p, m1, n1), p.setup = setup, Aged(Page, p),
         \A c \in Copies : c > p.minted => m1[c] = NoText,
         Becomes(p), setup' = setup, meant' = m1, newest' = n1, UndoFits',
         reloads' = reloads \/ (text' = text /\ shows' = shows)
  PROVE  IInv' /\ RecordStep
<1>1. p \in Pages
  BY DEF Quiet
<1> DEFINE q == Page'
<1>2. /\ q.setup = p.setup /\ q.minted = p.minted /\ q.shows = p.shows
      /\ q.text = p.text /\ q.worker = p.worker /\ q.editors = p.editors
      /\ q.claims = p.claims /\ q.thrown = FALSE
  BY DEF Page, Becomes
<1>3. q \in Pages
  BY <1>1 DEF Page, Becomes, Pages
<1> HIDE DEF q
<1>4. Quiet(q, m1, n1)
  BY <1>1, <1>2, <1>3, ThrownIsForgotten
<1>5. IInv'
  <2>1. stored' = Snapshot(q)
    BY <1>2 DEF Becomes, Snapshot
  <2>2. \A c \in Copies : c > minted' => meant'[c] = NoText
    BY DEF Becomes
  <2>3. newest' \in Derived..MaxText /\ meant' \in [Copies -> {NoText} \cup Texts]
    OBVIOUS
  <2>4. Sound(Page', meant', newest') /\ Settled(Page') /\ AllReached(Page')
        /\ stored' = Snapshot(Page')
    BY <1>4, <2>1 DEF Quiet, q
  <2> QED BY <2>2, <2>3, <2>4 DEF IInv
<1>6. RecordStep
  <2>1. \A c \in Copies :
          text[c] # NoText /\ text'[c] # NoText =>
            \/ text[c] <= text'[c]
            \/ IsLambda /\ \E e \in editors : e.of = c /\ e.doc = text'[c]
    BY PageIs DEF Becomes, Aged
  <2> QED BY <2>1 DEF RecordStep
<1> QED BY <1>5, <1>6

(* The undo on offer stays one for a copy deleted.                          *)
LEMMA UndoStays ==
  ASSUME IInv, NEW p \in Pages, Becomes(p), undo' = undo, setup' = setup,
         p.minted >= minted, Known(p) \subseteq Known(Page),
         newest' \in Nat, newest <= newest',
         \A c \in Copies \ Known(Page) : meant'[c] = meant[c]
  PROVE  UndoFits'
<1>1. CASE undo = NoUndo
  BY <1>1 DEF UndoFits, NoUndo
<1>2. CASE undo # NoUndo
  <2>1. /\ undo = [copy |-> undo.copy, text |-> undo.text, views |-> undo.views]
        /\ undo.copy \in 1..minted /\ text[undo.copy] = NoText
        /\ undo.text \in 0..newest /\ undo.views \subseteq Views
        /\ ~IsLambda /\ meant[undo.copy] > Derived => undo.text = meant[undo.copy]
    BY <1>2 DEF IInv, UndoFits
  <2>2. minted \in Nat /\ p.minted \in Nat /\ minted <= MaxCopies /\ newest \in Nat /\ MaxCopies \in Nat
    <3>1. Page \in Pages /\ Page.minted = minted /\ minted \in Nat /\ newest \in Nat
      BY PageIs DEF Quiet
    <3>2. minted \in 0..MaxCopies /\ p.minted \in 0..MaxCopies
      BY <3>1 DEF Pages
    <3> QED BY <3>1, <3>2, Apart
  <2>3. undo.copy \in 1..minted' /\ undo.copy \in Copies
    BY <2>1, <2>2, Apart DEF Becomes
  <2>4. text'[undo.copy] = NoText /\ undo.copy \notin Known(Page)
    BY <2>1, <2>3, PageIs DEF Becomes, Known
  <2>5. undo.text \in 0..newest'
    BY <2>1, <2>2
  <2>6. meant'[undo.copy] = meant[undo.copy]
    BY <2>3, <2>4
  <2>7. IsLambda' = IsLambda
    BY DEF IsLambda
  <2> QED BY <2>1, <2>3, <2>4, <2>5, <2>6, <2>7 DEF UndoFits
<1> QED BY <1>1, <1>2

(* What most events do: nothing is typed, and the undo goes or stays.       *)
LEMMA EndsUntyped ==
  ASSUME IInv, NEW p, Quiet(p, meant, newest), p.setup = setup, Aged(Page, p),
         p.minted >= minted, Becomes(p), UNCHANGED <<setup, newest, meant, reloads>>,
         \/ undo' = NoUndo
         \/ undo' = undo /\ Known(p) \subseteq Known(Page)
         \/ UndoFits'
  PROVE  IInv' /\ RecordStep
<1>1. UndoFits'
  <2>1. CASE undo' = NoUndo
    BY <2>1 DEF UndoFits, NoUndo
  <2>2. CASE undo' = undo /\ Known(p) \subseteq Known(Page)
    BY <2>2, UndoStays, PageIs DEF Quiet
  <2> QED BY <2>1, <2>2
<1>2. /\ meant \in [Copies -> {NoText} \cup Texts] /\ newest \in Derived..MaxText
      /\ \A c \in Copies : c > minted => meant[c] = NoText
  BY DEF IInv
<1>3. minted \in Nat /\ p.minted \in Nat /\ Copies \subseteq Nat
  BY PageIs, Apart DEF Quiet, Pages
<1>4. \A c \in Copies : c > p.minted => meant[c] = NoText
  BY <1>2, <1>3
<1> QED BY <1>1, <1>2, <1>4, Ends

(* An event that goes from page to page without a new copy.                 *)
LEMMA EndsKept ==
  ASSUME IInv, NEW p, Quiet(p, meant, newest), Kept(Page, p), p.setup = setup,
         p.minted = minted, Known(p) \subseteq Known(Page), Becomes(p),
         UNCHANGED <<setup, newest, meant, reloads>>,
         undo' = NoUndo \/ undo' = undo \/ UndoFits'
  PROVE  IInv' /\ RecordStep
<1>1. Aged(Page, p)
  BY PageIs, KeptIsAged DEF Quiet
<1>2. p.minted >= minted
  BY PageIs
<1> QED BY <1>1, <1>2, EndsUntyped

-----------------------------------------------------------------------------
(* The gestures on the views.  A view of the program, or none, has no       *)
(* editor between events.                                                   *)
LEMMA EmptyView ==
  ASSUME NEW p \in Pages, Settled(p), NEW l \in Views, p.shows[l] \notin Copies
  PROVE  On(p, l) = {}
<1> SUFFICES ASSUME NEW e \in On(p, l) PROVE FALSE
  OBVIOUS
<1>1. e \in Mounted(p) /\ e.at = l /\ e.of \in Copies
  BY DEF On, Mounted, Pages, EditorSet
<1>2. p.shows[l] = e.of
  BY <1>1 DEF Settled, Resolved
<1> QED BY <1>1, <1>2

(* A copy made and shown has its claim, and waits for its first build.      *)
LEMMA ForkStep ==
  ASSUME IInv, NEW l \in Views, NEW t \in Steps, Fork(l, t)
  PROVE  IInv' /\ RecordStep
<1> DEFINE a == Mint(Page, t)
           c == Page.minted + 1
           b == [a EXCEPT !.shows[l] = c]
           d == Claim(b, c, l)
<1>0. /\ Quiet(Page, meant, newest) /\ Page.minted = minted /\ Page.setup = setup
      /\ Page.shows = shows /\ Page.editors = editors /\ Page.text = text /\ newest \in Nat
      /\ minted \in Nat /\ setup.copies \in 1..MaxCopies /\ MaxCopies \in Nat
  BY PageIs, Apart
<1>1. /\ Page.minted < MaxCopies /\ HasRoom(Page) /\ t \in {Seed, Derived}
      /\ IsMachine(Page) => t = Seed
      /\ meant[Page.minted + 1] = NoText
  <2>1. minted < MaxCopies /\ c \in Copies /\ c > minted
    BY <1>0 DEF Fork, Copies
  <2> QED BY <1>0, <2>1, PageIs DEF Fork, Steps, IInv
<1>2. /\ a \in Pages /\ Sound(a, meant, newest) /\ Settled(a) /\ AllReached(a)
      /\ a.setup = Page.setup /\ a.minted = c /\ a.text = [Page.text EXCEPT ![c] = Seed]
      /\ a.shows = Page.shows /\ a.editors = Page.editors
      /\ c \in Copies /\ Page.text[c] = NoText /\ c \in Warm(a) /\ a.worker[c].bare
  BY <1>0, <1>1, MintSound DEF Quiet
<1>3. Becomes(d) /\ NoticeWith(NoUndo) /\ shows[l] = Source
  BY <1>2 DEF Fork
<1> HIDE DEF a, c
<1>4. On(a, l) = {}
  BY <1>0, <1>2, <1>3, EmptyView, Apart
<1>5. /\ Onward(a, b, meant, newest) /\ b.shows[l] = c
      /\ b.text = a.text /\ b.worker = a.worker /\ b.editors = a.editors
      /\ \A x \in Copies : x # c /\ Reached(a, x) => Reached(b, x)
  BY <1>2, <1>4, TurnedOnward
<1> HIDE DEF b
<1>6. b \in Pages /\ Sound(b, meant, newest) /\ Settled(b)
  BY <1>5 DEF Onward
<1>7. AllReached(b)
  BY <1>2, <1>5 DEF AllReached, Reached
<1>8. \A e \in AtOwn(b) : e.of # c
  <2> SUFFICES ASSUME NEW e \in AtOwn(b) PROVE e.of # c
    OBVIOUS
  <2>1. e \in Page.editors /\ e.of \in Copies
    BY <1>2, <1>5, <1>6 DEF AtOwn, Mounted, Pages, EditorSet
  <2>2. e.of <= minted
    BY <1>0, <2>1 DEF Quiet, Sound, Documented
  <2> QED BY <1>0, <2>1, <2>2, Apart DEF c
<1>9. /\ d \in Pages /\ Across(b, d, meant, newest) /\ d.text = b.text
      /\ AtHome(b) => AtHome(d)
  BY <1>2, <1>5, <1>6, <1>8, ClaimMoved
<1> HIDE DEF d
<1>10. Quiet(d, meant, newest) /\ d.setup = setup /\ d.minted >= minted
  BY <1>0, <1>2, <1>5, <1>6, <1>7, <1>9
     DEF Quiet, Across, Onward, Settled, AllReached, AllReachedStill, c
<1>11. Aged(Page, d)
  <2>1. d.text = [Page.text EXCEPT ![c] = Seed]
    BY <1>2, <1>5, <1>9
  <2>2. Page \in Pages
    BY <1>0 DEF Quiet
  <2>3. \A x \in Copies : x # c => d.text[x] = Page.text[x]
    BY <2>1, <2>2 DEF Pages
  <2> QED BY <1>2, <2>2, <2>3, SameTextIsAged
<1> QED BY <1>3, <1>10, <1>11, EndsUntyped DEF NoticeWith

(* A blank copy has no view yet.                                            *)
LEMMA ForkBlankStep ==
  ASSUME IInv, ForkBlank
  PROVE  IInv' /\ RecordStep
<1> DEFINE a == Mint(Page, Seed)
           c == Page.minted + 1
<1>0. /\ Quiet(Page, meant, newest) /\ Page.minted = minted /\ Page.setup = setup
      /\ Page.text = text /\ newest \in Nat
      /\ minted \in Nat /\ setup.copies \in 1..MaxCopies /\ MaxCopies \in Nat
  BY PageIs, Apart
<1>1. /\ Page.minted < MaxCopies /\ HasRoom(Page) /\ meant[Page.minted + 1] = NoText
  <2>1. minted < MaxCopies /\ c \in Copies /\ c > minted
    BY <1>0 DEF ForkBlank, Copies
  <2> QED BY <1>0, <2>1 DEF ForkBlank, IInv
<1>2. /\ a \in Pages /\ Sound(a, meant, newest) /\ Settled(a) /\ AllReached(a)
      /\ a.setup = Page.setup /\ a.minted = c /\ a.text = [Page.text EXCEPT ![c] = Seed]
      /\ c \in Copies /\ Page.text[c] = NoText
  BY <1>0, <1>1, MintSound DEF Quiet
<1>3. Becomes(a) /\ NoticeWith(NoUndo)
  BY DEF ForkBlank
<1> HIDE DEF a, c
<1>4. Aged(Page, a)
  <2>1. Page \in Pages
    BY <1>0 DEF Quiet
  <2>2. \A x \in Copies : x # c => a.text[x] = Page.text[x]
    BY <1>2, <2>1 DEF Pages
  <2>3. \A x \in Copies : Page.text[x] # NoText => a.text[x] = Page.text[x]
    BY <1>2, <2>2
  <2> HIDE DEF Page
  <2> QED BY <2>1, <2>3, SameTextIsAged
<1>5. Quiet(a, meant, newest) /\ a.setup = setup /\ a.minted >= minted
  BY <1>0, <1>2 DEF Quiet, c
<1> QED BY <1>3, <1>4, <1>5, EndsUntyped DEF NoticeWith

(* A view opened has the editor of the copy it shows, or the copy's is      *)
(* elsewhere.                                                               *)
LEMMA OpenViewStep ==
  ASSUME IInv, NEW l \in Views, NEW s \in {Source} \cup Warm(Page), OpenView(l, s)
  PROVE  IInv' /\ RecordStep
<1>0. /\ Quiet(Page, meant, newest) /\ Page.minted = minted /\ Page.setup = setup
      /\ Page.shows = shows /\ newest \in Nat /\ Page.thrown = FALSE
      /\ Closed \notin Copies /\ Source \notin Copies
  BY PageIs, Apart
<1> DEFINE a == [Page EXCEPT !.shows[l] = s]
           b == DropClaimsOn(a, l)
           r == IF s = Source THEN b ELSE MountScratchEditor(b, l, s)
<1>1. shows[l] = Closed
  BY DEF OpenView
<1>2. PICK order \in Orders : Swept(Reconcile(r, order), NoUndo)
  BY DEF OpenView
<1> HIDE DEF r
<1>3. On(Page, l) = {}
  BY <1>0, <1>1, EmptyView DEF Quiet
<1>4. /\ Onward(Page, a, meant, newest) /\ a.shows[l] = s
      /\ a.editors = Page.editors
      /\ \A x \in Copies : x # s /\ Reached(Page, x) => Reached(a, x)
  BY <1>0, <1>3, TurnedOnward DEF Quiet
<1> HIDE DEF a
<1>5. a \in Pages /\ Sound(a, meant, newest) /\ Settled(a) /\ On(a, l) = {}
  BY <1>3, <1>4 DEF Onward, On
<1>6. /\ b \in Pages /\ Across(a, b, meant, newest) /\ AtHome(b) /\ b.thrown = a.thrown
  BY <1>5, ClaimsDropped DEF Settled
<1> HIDE DEF b
<1>7. /\ Onward(a, b, meant, newest) /\ b.shows[l] = s
      /\ \A x \in Copies : x # s => Reached(b, x)
  <2>1. Warm(b) = Warm(a)
    BY <1>6 DEF Across, SameWorkers, Warm
  <2> QED BY <1>0, <1>4, <1>5, <1>6, <2>1
          DEF Quiet, AllReached, Across, Onward, Settled, AllReachedStill
<1>8. Onward(b, r, meant, newest) /\ AllReached(r)
  <2>0. b \in Pages /\ Sound(b, meant, newest) /\ Settled(b)
    BY <1>7 DEF Onward
  <2>1. CASE s = Source
    BY <1>0, <1>7, <2>0, <2>1, OnwardChains DEF r, AllReached
  <2>2. CASE s # Source
    <3>1. s \in Copies /\ r = MountScratchEditor(b, l, s)
      BY <2>2 DEF Warm, r
    <3>2. Onward(b, r, meant, newest) /\ Reached(r, s) /\ AllReachedStill(b, r)
      BY <1>7, <2>0, <3>1, MountedThere
    <3> QED BY <1>7, <3>2 DEF AllReached, AllReachedStill
  <2> QED BY <2>1, <2>2
<1>9. Onward(Page, r, meant, newest)
  <2>1. Onward(Page, b, meant, newest)
    BY <1>0, <1>4, <1>7, OnwardChains DEF Quiet
  <2> QED BY <1>0, <1>8, <2>1, OnwardChains DEF Quiet
<1> DEFINE q == Reconcile(r, order)
<1>10. /\ Quiet(q, meant, newest) /\ Kept(r, q) /\ Known(q) = Known(r)
       /\ q.setup = r.setup /\ q.minted = r.minted
  <2>1. /\ r \in Pages /\ Sound(r, meant, newest) /\ Resolved(r) /\ r.thrown = FALSE
    BY <1>0, <1>9 DEF Onward, Settled
  <2> QED BY <1>0, <1>8, <2>1, SweptQuiet
<1> HIDE DEF q
<1>11. Kept(Page, q) /\ Known(q) = Known(Page) /\ q.setup = setup /\ q.minted = minted
  BY <1>0, <1>9, <1>10, KeptChains DEF Onward, Quiet
<1> QED BY <1>2, <1>10, <1>11, EndsKept DEF Swept, NoticeWith, q

(* A view closed leaves no copy out of reach: a machine copy's editor goes, *)
(* and is mounted anew on another view of it.                               *)
LEMMA CloseViewStep ==
  ASSUME IInv, NEW l \in Views, CloseView(l)
  PROVE  IInv' /\ RecordStep
<1>0. /\ Quiet(Page, meant, newest) /\ Page.minted = minted /\ Page.setup = setup
      /\ Page.shows = shows /\ newest \in Nat /\ Page.thrown = FALSE
      /\ Closed \notin Copies /\ (IsLambda <=> ~IsMachine(Page))
  BY PageIs, Apart
<1> DEFINE c == shows[l]
           lost == ~IsLambda /\ On(Page, l) # {}
           a == LetGo(Page, l)
           b == [a EXCEPT !.shows[l] = Closed]
           r == IF lost THEN MountOnViewOf(b, c) ELSE b
<1>1. PICK order \in Orders : Swept(Reconcile(r, order), NoUndo)
  BY DEF CloseView
<1> HIDE DEF r
<1>2. /\ Onward(Page, a, meant, newest) /\ a.shows = Page.shows /\ On(a, l) = {}
      /\ \A x \in Copies :
           Reached(Page, x) /\ (~IsMachine(Page) \/ On(Page, l) = {} \/ x # Page.shows[l])
             => Reached(a, x)
  BY <1>0, LetGoAlong DEF Quiet
<1> HIDE DEF a
<1>3. a \in Pages /\ Sound(a, meant, newest) /\ Settled(a)
  BY <1>2 DEF Onward
<1>4. /\ Onward(a, b, meant, newest)
      /\ \A x \in Copies : x # Closed /\ Reached(a, x) => Reached(b, x)
  BY <1>2, <1>3, TurnedOnward
<1> HIDE DEF b
<1>5. b \in Pages /\ Sound(b, meant, newest) /\ Settled(b)
  BY <1>4 DEF Onward
<1>6. \A x \in Copies : x # c \/ ~lost => Reached(b, x)
  BY <1>0, <1>2, <1>4 DEF Quiet, AllReached
<1>7. Onward(b, r, meant, newest) /\ AllReached(r)
  <2>1. CASE ~lost
    BY <1>5, <1>6, <2>1, OnwardChains DEF r, AllReached
  <2>2. CASE lost
    <3>1. c \in Copies
      BY <1>0, <2>2, EmptyView DEF Quiet
    <3>2. r = MountOnViewOf(b, c)
      BY <2>2 DEF r
    <3> HIDE DEF c, lost
    <3>3. Onward(b, r, meant, newest) /\ Reached(r, c) /\ AllReachedStill(b, r)
      BY <1>5, <3>1, <3>2, MountedOnView
    <3> QED BY <1>6, <3>3 DEF AllReached, AllReachedStill
  <2> QED BY <2>1, <2>2
<1>8. Onward(Page, r, meant, newest)
  <2>1. Onward(Page, b, meant, newest)
    BY <1>0, <1>2, <1>4, OnwardChains DEF Quiet
  <2> QED BY <1>0, <1>7, <2>1, OnwardChains DEF Quiet
<1> DEFINE q == Reconcile(r, order)
<1>9. /\ Quiet(q, meant, newest) /\ Kept(r, q) /\ Known(q) = Known(r)
      /\ q.setup = r.setup /\ q.minted = r.minted
  <2>1. /\ r \in Pages /\ Sound(r, meant, newest) /\ Resolved(r) /\ r.thrown = FALSE
    BY <1>0, <1>8 DEF Onward, Settled
  <2> QED BY <1>0, <1>7, <2>1, SweptQuiet
<1> HIDE DEF q
<1>10. Kept(Page, q) /\ Known(q) = Known(Page) /\ q.setup = setup /\ q.minted = minted
  BY <1>0, <1>8, <1>9, KeptChains DEF Onward, Quiet
<1> QED BY <1>1, <1>9, <1>10, EndsKept DEF Swept, NoticeWith, q

(* A view moved to another session mounts the editor of the copy it comes   *)
(* to, and leaves none without.                                             *)
LEMMA RebindStep ==
  ASSUME IInv, NEW l \in Views, NEW s \in {Source} \cup Warm(Page), Rebind(l, s)
  PROVE  IInv' /\ RecordStep
<1>0. /\ Quiet(Page, meant, newest) /\ Page.minted = minted /\ Page.setup = setup
      /\ Page.shows = shows /\ newest \in Nat /\ Page.thrown = FALSE
      /\ Source \notin Copies /\ (IsLambda <=> ~IsMachine(Page))
  BY PageIs, Apart
<1> DEFINE c == shows[l]
           lost == ~IsLambda /\ On(Page, l) # {}
           a == LetGo(Page, l)
           b == [a EXCEPT !.shows[l] = s]
           d == IF s = Source THEN b ELSE MountScratchEditor(b, l, s)
           r == IF lost THEN MountOnViewOf(d, c) ELSE d
<1>1. Becomes(r) /\ NoticeWith(NoUndo) /\ c # s
  BY DEF Rebind
<1> HIDE DEF r, d
<1>2. /\ Onward(Page, a, meant, newest) /\ a.shows = Page.shows /\ On(a, l) = {}
      /\ \A x \in Copies :
           Reached(Page, x) /\ (~IsMachine(Page) \/ On(Page, l) = {} \/ x # Page.shows[l])
             => Reached(a, x)
  BY <1>0, LetGoAlong DEF Quiet
<1> HIDE DEF a
<1>3. a \in Pages /\ Sound(a, meant, newest) /\ Settled(a) /\ s \in {Source} \cup Warm(a)
  BY <1>2 DEF Onward
<1>4. /\ Onward(a, b, meant, newest) /\ b.shows[l] = s
      /\ \A x \in Copies : x # s /\ Reached(a, x) => Reached(b, x)
  BY <1>2, <1>3, TurnedOnward
<1> HIDE DEF b
<1>5. b \in Pages /\ Sound(b, meant, newest) /\ Settled(b)
  BY <1>4 DEF Onward
<1>6. \A x \in Copies : x # s /\ (x # c \/ ~lost) => Reached(b, x)
  BY <1>0, <1>2, <1>4 DEF Quiet, AllReached
<1> HIDE DEF c, lost
<1>7. Onward(b, d, meant, newest) /\ \A x \in Copies : x # c \/ ~lost => Reached(d, x)
  <2>1. CASE s = Source
    BY <1>0, <1>5, <1>6, <2>1, OnwardChains DEF d
  <2>2. CASE s # Source
    <3>1. s \in Copies /\ d = MountScratchEditor(b, l, s)
      BY <2>2 DEF Warm, d
    <3>2. Onward(b, d, meant, newest) /\ Reached(d, s) /\ AllReachedStill(b, d)
      BY <1>4, <1>5, <3>1, MountedThere
    <3> QED BY <1>6, <3>2 DEF AllReachedStill
  <2> QED BY <2>1, <2>2
<1>8. d \in Pages /\ Sound(d, meant, newest) /\ Settled(d)
  BY <1>7 DEF Onward
<1>9. Onward(d, r, meant, newest) /\ AllReached(r)
  <2>1. CASE ~lost
    BY <1>7, <1>8, <2>1, OnwardChains DEF r, AllReached
  <2>2. CASE lost
    <3>1. c \in Copies
      BY <1>0, <2>2, EmptyView DEF Quiet, c, lost
    <3>2. r = MountOnViewOf(d, c)
      BY <2>2 DEF r
    <3>3. Onward(d, r, meant, newest) /\ Reached(r, c) /\ AllReachedStill(d, r)
      BY <1>8, <3>1, <3>2, MountedOnView
    <3> QED BY <1>7, <3>3 DEF AllReached, AllReachedStill
  <2> QED BY <2>1, <2>2
<1>10. Onward(Page, r, meant, newest)
  <2>1. Onward(Page, b, meant, newest)
    BY <1>0, <1>2, <1>4, OnwardChains DEF Quiet
  <2>2. Onward(Page, d, meant, newest)
    BY <1>0, <1>7, <2>1, OnwardChains DEF Quiet
  <2> QED BY <1>0, <1>9, <2>2, OnwardChains DEF Quiet
<1>11. Quiet(r, meant, newest) /\ Kept(Page, r) /\ Known(r) = Known(Page)
       /\ r.setup = setup /\ r.minted = minted
  BY <1>0, <1>9, <1>10 DEF Onward, Quiet
<1> QED BY <1>1, <1>11, EndsKept DEF NoticeWith

(* A copy's editor moved to the view that asks for it.                      *)
LEMMA ShowEditorStep ==
  ASSUME IInv, NEW l \in Views, ShowEditor(l)
  PROVE  IInv' /\ RecordStep
<1>0. /\ Quiet(Page, meant, newest) /\ Page.minted = minted /\ Page.setup = setup
      /\ Page.shows = shows /\ newest \in Nat /\ Page.thrown = FALSE
  BY PageIs
<1> DEFINE c == shows[l]
           a == Claim(Page, c, l)
<1>1. PICK order \in Orders : Becomes(Reconcile(a, order)) /\ Unseen
  BY DEF ShowEditor
<1>2. c \in Copies
  BY DEF ShowEditor
<1>3. a \in Pages /\ Across(Page, a, meant, newest) /\ a.thrown = Page.thrown
  BY <1>0, <1>2, ClaimMoved DEF Quiet
<1> HIDE DEF a
<1> DEFINE q == Reconcile(a, order)
<1>4. /\ Quiet(q, meant, newest) /\ Kept(a, q) /\ Known(q) = Known(a)
      /\ q.setup = a.setup /\ q.minted = a.minted
  <2>1. Sound(a, meant, newest) /\ Resolved(a) /\ AllReached(a) /\ a.thrown = FALSE
    BY <1>0, <1>3 DEF Across, Quiet, Settled, AllReached, AllReachedStill
  <2> QED BY <1>0, <1>3, <2>1, SweptQuiet
<1> HIDE DEF q
<1>5. Kept(Page, q) /\ Known(q) = Known(Page) /\ q.setup = setup /\ q.minted = minted
  BY <1>0, <1>3, <1>4, KeptChains DEF Across, Quiet
<1> QED BY <1>1, <1>4, <1>5, EndsKept DEF Unseen, q

(* A layout applied again.                                                  *)
LEMMA ApplyLayoutStep ==
  ASSUME IInv, ApplyLayout
  PROVE  IInv' /\ RecordStep
<1>0. /\ Quiet(Page, meant, newest) /\ Page.minted = minted /\ Page.setup = setup
      /\ newest \in Nat /\ Page.thrown = FALSE
  BY PageIs
<1>1. PICK order \in Orders : Becomes(Reconcile(Page, order)) /\ Unseen
  BY DEF ApplyLayout
<1> DEFINE q == Reconcile(Page, order)
<1>2. /\ Quiet(q, meant, newest) /\ Kept(Page, q) /\ Known(q) = Known(Page)
      /\ q.setup = Page.setup /\ q.minted = Page.minted
  BY <1>0, SweptQuiet DEF Quiet, Settled
<1> HIDE DEF q
<1> QED BY <1>0, <1>1, <1>2, EndsKept DEF Unseen, q

-----------------------------------------------------------------------------
(* The copies menu.  A copy whose worker was ended is swept off the views,  *)
(* and a frame is drawn.                                                    *)
LEMMA SweptAndDrawn ==
  ASSUME NEW p \in Pages, NEW m, NEW n \in Nat, Sound(p, m, n), AllReached(p),
         p.thrown = FALSE, NEW order \in Orders
  PROVE  LET q == Draw(Reconcile(p, order)) IN
         /\ Quiet(q, m, n) /\ Kept(p, q) /\ Known(q) = Known(p)
         /\ q.setup = p.setup /\ q.minted = p.minted
<1> DEFINE r == Reconcile(p, order)
           q == Draw(r)
<1>1. r \in Pages /\ Across(p, r, m, n) /\ AtHome(r)
  BY Reconciled
<1> HIDE DEF r
<1>2. r \in Pages /\ Sound(r, m, n)
  BY <1>1 DEF Across
<1>3. q \in Pages /\ Along(r, q, m, n) /\ AllReachedStill(r, q) /\ Settled(q)
  BY <1>1, <1>2, Drawn
<1> HIDE DEF q
<1>4. Quiet(q, m, n) /\ Known(q) = Known(p) /\ q.setup = p.setup /\ q.minted = p.minted
  BY <1>1, <1>3 DEF Across, Along, SameDesk, Quiet, AllReached, AllReachedStill
<1>5. Kept(p, q)
  BY <1>1, <1>3, KeptChains DEF Across, Along
<1> QED BY <1>4, <1>5 DEF q, r

(* A copy paused keeps what its editors owed.                               *)
LEMMA PauseStep ==
  ASSUME IInv, NEW c \in Copies, Pause(c)
  PROVE  IInv' /\ RecordStep
<1>0. /\ Quiet(Page, meant, newest) /\ Page.minted = minted /\ Page.setup = setup
      /\ newest \in Nat /\ Page.thrown = FALSE
  BY PageIs
<1> DEFINE a == FlushCopy(Page, c)
           b == Cool(a, c, Source)
<1>1. PICK order \in Orders : Swept(Draw(Reconcile(b, order)), NoUndo)
  BY DEF Pause
<1>2. a \in Pages /\ Along(Page, a, meant, newest) /\ AllReachedStill(Page, a)
  BY <1>0, CopyFlushed DEF Quiet
<1> HIDE DEF a
<1>3. Sound(a, meant, newest) /\ AtHome(a)
  BY <1>0, <1>2 DEF Along, Quiet, Settled
<1>4. /\ b \in Pages /\ Sound(b, meant, newest) /\ Kept(a, b) /\ AllReachedStill(a, b)
      /\ b.setup = a.setup /\ b.minted = a.minted /\ b.text = a.text
      /\ b.thrown = a.thrown
  BY <1>2, <1>3, Cooled
<1> HIDE DEF b
<1>5. b.thrown = FALSE /\ AllReached(b)
  BY <1>0, <1>2, <1>4 DEF Along, SameDesk, Quiet, AllReached, AllReachedStill
<1> DEFINE q == Draw(Reconcile(b, order))
<1>6. /\ Quiet(q, meant, newest) /\ Kept(b, q) /\ Known(q) = Known(b)
      /\ q.setup = b.setup /\ q.minted = b.minted
  BY <1>0, <1>4, <1>5, SweptAndDrawn
<1> HIDE DEF q
<1>7. q.setup = setup /\ q.minted = minted /\ Known(q) = Known(Page)
  <2>1. Known(b) = Known(a)
    BY <1>4 DEF Known
  <2> QED BY <1>0, <1>2, <1>4, <1>6, <2>1 DEF Along, SameDesk
<1>8. Kept(Page, q)
  <2>1. Kept(Page, b)
    BY <1>0, <1>2, <1>4, KeptChains DEF Along, Quiet
  <2> QED BY <1>0, <1>4, <1>6, <2>1, KeptChains DEF Quiet
<1> QED BY <1>1, <1>6, <1>7, <1>8, EndsKept DEF Swept, NoticeWith, q

(* A copy deleted is offered back with the text its user means.             *)
LEMMA DeleteStep ==
  ASSUME IInv, NEW c \in Copies, Delete(c)
  PROVE  IInv' /\ RecordStep
<1>0. /\ Quiet(Page, meant, newest) /\ Page.minted = minted /\ Page.setup = setup
      /\ newest \in Nat /\ Page.thrown = FALSE /\ Page.shows = shows
      /\ (IsLambda <=> ~IsMachine(Page)) /\ minted \in Nat
  BY PageIs
<1> DEFINE a == FlushCopy(Page, c)
           b == Retire(a, c, Source)
           u == [copy |-> c, text |-> a.text[c], views |-> ViewsOf(a, c)]
<1>1. /\ c \in Known(Page)
      /\ \E order \in Orders : Swept(Draw(Reconcile(b, order)), u)
  BY DEF Delete
<1>2. PICK order \in Orders : Swept(Draw(Reconcile(b, order)), u)
  BY <1>1
<1>3. /\ a \in Pages /\ Along(Page, a, meant, newest) /\ AllReachedStill(Page, a)
      /\ \A f \in AtOwn(a) : f.of = c => ~Owes(f)
  BY <1>0, CopyFlushed DEF Quiet
<1> HIDE DEF a
<1>4. Sound(a, meant, newest) /\ Settled(a) /\ AtHome(a)
  BY <1>0, <1>3 DEF Along, Quiet, Settled
<1>5. /\ b \in Pages /\ Sound(b, meant, newest) /\ Kept(a, b) /\ AllReachedStill(a, b)
      /\ b.setup = a.setup /\ b.minted = a.minted /\ b.text = [a.text EXCEPT ![c] = NoText]
      /\ b.thrown = a.thrown
  BY <1>3, <1>4, Retired
<1> HIDE DEF b
<1>6. b.thrown = FALSE /\ AllReached(b)
  BY <1>0, <1>3, <1>5 DEF Along, SameDesk, Quiet, AllReached, AllReachedStill
<1> DEFINE q == Draw(Reconcile(b, order))
<1>7. /\ Quiet(q, meant, newest) /\ Kept(b, q) /\ Known(q) = Known(b)
      /\ q.setup = b.setup /\ q.minted = b.minted
  BY <1>0, <1>5, <1>6, SweptAndDrawn
<1>8. Swept(q, u)
  BY <1>2
<1> HIDE DEF q
<1>9. /\ q.setup = setup /\ q.minted = minted /\ Known(q) \subseteq Known(Page)
      /\ c \notin Known(q) /\ c \in Known(a)
  <2>1. Known(b) = Known(a) \ {c}
    BY <1>3, <1>5 DEF Known, Pages
  <2> QED BY <1>0, <1>1, <1>3, <1>5, <1>7, <2>1 DEF Along, SameDesk
<1>10. Kept(Page, q)
  <2>1. Kept(Page, b)
    BY <1>0, <1>3, <1>5, KeptChains DEF Along, Quiet
  <2> QED BY <1>0, <1>5, <1>7, <2>1, KeptChains DEF Quiet
<1>11. undo' = u => UndoFits'
  <2> SUFFICES ASSUME undo' = u PROVE UndoFits'
    OBVIOUS
  <2>1. undo'.copy = c /\ undo'.text = a.text[c] /\ undo'.views = ViewsOf(a, c)
    OBVIOUS
  <2>2. c \in 1..minted'
    <3>1. c <= a.minted /\ a.minted = minted
      BY <1>0, <1>3, <1>4, <1>9 DEF Sound, Registered, Along, SameDesk
    <3> QED BY <1>0, <1>8, <1>9, <3>1, Apart DEF Swept, Becomes
  <2>3. text'[c] = NoText
    BY <1>8, <1>9 DEF Swept, Becomes, Known
  <2>4. a.text[c] \in 0..newest
    <3>1. a.text[c] \in Texts /\ a.text[c] <= newest
      BY <1>3, <1>4, <1>9 DEF Sound, Registered, Known, Pages
    <3> DEFINE v == a.text[c]
    <3> HIDE DEF v
    <3>2. v \in Nat /\ v <= newest
      BY <3>1, Apart DEF v
    <3>3. v \in 0..newest
      BY <1>0, <3>2
    <3> QED BY <3>3 DEF v
  <2>5. ASSUME ~IsLambda, meant[c] > Derived PROVE a.text[c] = meant[c]
    <3>1. IsMachine(a)
      BY <1>0, <1>3, <2>5 DEF Along, SameDesk, IsMachine
    <3>2. \/ a.text[c] = meant[c]
          \/ \E e \in a.editors : e.of = c /\ Owes(e)
      BY <1>4, <1>9, <2>5, <3>1 DEF Sound, Documented
    <3>3. ASSUME NEW e \in a.editors, e.of = c PROVE ~Owes(e)
      <4>1. e \in Mounted(a)
        BY <1>4, <3>1, <3>3 DEF Sound, Seated, Mounted
      <4>2. e \in AtOwn(a)
        BY <1>4, <4>1 DEF Settled, Resolved, AtOwn
      <4> QED BY <1>3, <3>3, <4>2
    <3> QED BY <3>2, <3>3
  <2>6. newest' = newest /\ meant' = meant /\ IsLambda' = IsLambda
    BY <1>8 DEF Swept, NoticeWith, IsLambda
  <2>7. undo' = [copy |-> undo'.copy, text |-> undo'.text, views |-> undo'.views]
    BY <2>1
  <2>8. ViewsOf(a, c) \subseteq Views
    BY DEF ViewsOf
  <2> QED BY <2>1, <2>2, <2>3, <2>4, <2>5, <2>6, <2>7, <2>8 DEF UndoFits
<1> HIDE DEF u
<1> QED BY <1>7, <1>8, <1>9, <1>10, <1>11, EndsKept DEF Swept, NoticeWith

(* A copy resumed has a worker again.                                       *)
LEMMA ResumeStep ==
  ASSUME IInv, NEW c \in Copies, Resume(c)
  PROVE  IInv' /\ RecordStep
<1>0. /\ Quiet(Page, meant, newest) /\ Page.minted = minted /\ Page.setup = setup
      /\ newest \in Nat /\ Page.thrown = FALSE
  BY PageIs
<1> DEFINE a == Warmed(Page, c)
<1>1. PICK order \in Orders : Swept(Reconcile(a, order), NoUndo)
  BY DEF Resume
<1>2. c \in Known(Page) /\ c \notin Warm(Page) /\ HasRoom(Page)
  BY DEF Resume
<1>3. /\ a \in Pages /\ Sound(a, meant, newest) /\ Kept(Page, a)
      /\ Settled(a) /\ AllReached(a)
      /\ a.setup = Page.setup /\ a.minted = Page.minted /\ a.thrown = Page.thrown
      /\ Known(a) = Known(Page)
  BY <1>0, <1>2, WarmedSound DEF Quiet
<1> HIDE DEF a
<1> DEFINE q == Reconcile(a, order)
<1>4. /\ Quiet(q, meant, newest) /\ Kept(a, q) /\ Known(q) = Known(a)
      /\ q.setup = a.setup /\ q.minted = a.minted
  BY <1>0, <1>3, SweptQuiet DEF Settled
<1> HIDE DEF q
<1>5. Kept(Page, q)
  BY <1>0, <1>3, <1>4, KeptChains DEF Quiet
<1> QED BY <1>0, <1>1, <1>3, <1>4, <1>5, EndsKept DEF Swept, NoticeWith, q

(* A delete undone brings the copy back with its text and, where there is   *)
(* room, to the views it was on.                                            *)
LEMMA UndoStep ==
  ASSUME IInv, Undo
  PROVE  IInv' /\ RecordStep
<1>0. /\ Quiet(Page, meant, newest) /\ Page.minted = minted /\ Page.setup = setup
      /\ newest \in Nat /\ Page.text = text /\ newest \in Texts
      /\ (IsLambda <=> ~IsMachine(Page)) /\ minted \in Nat
  BY PageIs
<1> DEFINE c == undo.copy
           t == undo.text
           a == Reinstate(Page, c, t)
           b == Warmed(a, c)
           q == IF HasRoom(a) THEN MoveBack(b, c, undo.views) ELSE a
<1>1. undo # NoUndo /\ Becomes(q) /\ NoticeWith(NoUndo)
  BY DEF Undo
<1>2. /\ c \in Copies /\ Page.text[c] = NoText /\ c <= Page.minted
      /\ t \in Texts /\ t <= newest
      /\ (IsMachine(Page) /\ meant[c] > Derived => t = meant[c])
  <2>1. /\ c \in 1..minted /\ text[c] = NoText /\ t \in 0..newest
        /\ (~IsLambda /\ meant[c] > Derived => t = meant[c])
    BY <1>1 DEF IInv, UndoFits
  <2>2. minted \in 0..MaxCopies
    BY <1>0 DEF Quiet, Pages
  <2>3. newest \in 0..MaxText
    BY <1>0 DEF Texts, Seed
  <2>4. c \in Copies /\ t \in Texts
    BY <2>1, <2>2, <2>3, Apart DEF Texts, Seed
  <2> QED BY <1>0, <2>1, <2>4
<1> HIDE DEF q, c, t
<1>3. /\ a \in Pages /\ Sound(a, meant, newest) /\ Settled(a) /\ AllReached(a)
      /\ a.setup = Page.setup /\ a.minted = Page.minted
      /\ a.text = [Page.text EXCEPT ![c] = t]
      /\ c \notin Warm(a) /\ Known(a) = Known(Page) \cup {c}
  BY <1>0, <1>2, ReinstateSound DEF Quiet
<1> HIDE DEF a
<1>4. /\ Quiet(q, meant, newest) /\ q.text = a.text
      /\ q.setup = a.setup /\ q.minted = a.minted
  <2>1. CASE ~HasRoom(a)
    BY <1>3, <2>1 DEF q, Quiet
  <2>2. CASE HasRoom(a)
    <3>1. /\ b \in Pages /\ Sound(b, meant, newest) /\ Settled(b) /\ AllReached(b)
          /\ b.setup = a.setup /\ b.minted = a.minted /\ b.text = a.text
          /\ c \in Warm(b)
      BY <1>3, <2>2, WarmedSound
    <3>2. q = MoveBack(b, c, undo.views)
      BY <2>2 DEF q
    <3> HIDE DEF b
    <3>3. Onward(b, q, meant, newest) /\ AllReached(q) /\ q.text = b.text
      BY <3>1, <3>2, MovedBack
    <3> QED BY <3>1, <3>3 DEF Onward, Quiet
  <2> QED BY <2>1, <2>2
<1>5. Aged(Page, q)
  <2>1. Page \in Pages
    BY <1>0 DEF Quiet
  <2>2. \A x \in Copies : x # c => q.text[x] = Page.text[x]
    BY <1>3, <1>4, <2>1 DEF Pages
  <2> QED BY <1>2, <2>1, <2>2, SameTextIsAged
<1>6. q.setup = setup /\ q.minted >= minted
  BY <1>0, <1>3, <1>4
<1> QED BY <1>1, <1>4, <1>5, <1>6, EndsUntyped DEF NoticeWith

-----------------------------------------------------------------------------
(* The editors.  What an editor has on a view is of a copy held, so that a  *)
(* deleted copy's text on offer is not typed over.                          *)
LEMMA EditorsCopyIsKnown ==
  ASSUME IInv, NEW e \in editors, e.at \in Views \/ ~IsLambda
  PROVE  e.of \in Known(Page) /\ e.of <= minted
<1>1. /\ Quiet(Page, meant, newest) /\ Page.editors = editors /\ (IsLambda <=> ~IsMachine(Page))
      /\ Page.minted = minted
  BY PageIs
<1>2. e \in Mounted(Page)
  BY <1>1 DEF Quiet, Sound, Seated, Mounted
<1>3. Page.shows[e.at] = e.of /\ e.of \in Copies /\ e.at \in Views
  BY <1>1, <1>2 DEF Quiet, Settled, Resolved, Mounted, Pages, EditorSet
<1>4. e.of \in Warm(Page)
  BY <1>1, <1>3, Apart DEF Quiet, Sound, Registered
<1> QED BY <1>1, <1>4 DEF Quiet, Sound, Registered

(* A key typed is what the copy's user means, and is owed.                  *)
LEMMA TypeStep ==
  ASSUME IInv, NEW e \in editors, Type(e)
  PROVE  IInv' /\ RecordStep
<1>0. /\ Quiet(Page, meant, newest) /\ Page.setup = setup /\ Page.editors = editors
      /\ Page.minted = minted /\ Page.text = text /\ Page.worker = worker
      /\ Page.shows = shows /\ Page.claims = claims
      /\ newest \in Nat /\ Derived <= newest /\ setup.texts \in 1..MaxText
      /\ meant \in [Copies -> {NoText} \cup Texts]
      /\ minted \in Nat
  BY PageIs DEF IInv
<1> DEFINE t == newest + 1
           q == Change(Page, e, Typed(e, t))
           m1 == [meant EXCEPT ![e.of] = t]
<1>1. t \in Texts /\ t \in Derived..MaxText
  <2>1. newest < setup.texts
    BY DEF Type
  <2> QED BY <1>0, <2>1, Apart DEF Texts, Seed, Derived
<1>2. /\ e.at \in Views /\ newest' = t /\ meant' = m1
      /\ editors' = (editors \ {e}) \cup {Typed(e, t)}
      /\ UNCHANGED <<setup, registry, shows, claims, stored, undo, reloads>>
  BY DEF Type, Means
<1>3. /\ q \in Pages /\ Sound(q, m1, t)
      /\ Settled(Page) => Settled(q)
      /\ AllReachedStill(Page, q)
      /\ SameDesk(Page, q) /\ q.text = Page.text /\ q.worker = Page.worker
      /\ q.editors = (Page.editors \ {e}) \cup {Typed(e, t)}
  <2>1. Page \in Pages /\ Sound(Page, meant, newest) /\ e \in Page.editors
    BY <1>0 DEF Quiet
  <2>2. NowMeans(meant, newest, e.of, m1, t)
    BY DEF NowMeans
  <2> HIDE DEF m1, t
  <2> QED BY <1>0, <1>1, <2>1, <2>2, TypedSound
<1> HIDE DEF q
<1>4. Quiet(q, m1, t) /\ q.setup = setup /\ q.minted = minted /\ Known(q) = Known(Page)
  BY <1>0, <1>3 DEF Quiet, AllReached, AllReachedStill, SameDesk, Known
<1>5. Becomes(q)
  <2>1. stored = Snapshot(Page)
    BY DEF IInv
  <2>2. Snapshot(q) = Snapshot(Page)
    BY <1>3 DEF Snapshot, SameDesk
  <2> QED BY <1>0, <1>2, <1>3, <2>1, <2>2 DEF Becomes, SameDesk, registry
<1>6. e.of \in Known(Page) /\ e.of <= minted
  BY <1>2, EditorsCopyIsKnown
<1>7. Aged(Page, q)
  BY <1>0, <1>3, SameTextIsAged DEF Quiet
<1>8. /\ m1 \in [Copies -> {NoText} \cup Texts]
      /\ \A c \in Copies : c # e.of => m1[c] = meant[c]
  BY <1>0, <1>1
<1> HIDE DEF m1, t
<1>9. \A c \in Copies : c > q.minted => m1[c] = NoText
  <2> SUFFICES ASSUME NEW c \in Copies, c > q.minted PROVE m1[c] = NoText
    OBVIOUS
  <2>1. e.of \in Copies
    BY <1>6 DEF Known
  <2>2. c \in Nat /\ e.of \in Nat
    BY <2>1, Apart
  <2>3. c > minted /\ c # e.of
    BY <1>0, <1>4, <1>6, <2>2
  <2> QED BY <1>8, <2>3 DEF IInv
<1>10. UndoFits'
  <2>1. newest' \in Nat /\ newest <= newest'
    BY <1>0, <1>2 DEF t
  <2>2. \A c \in Copies \ Known(Page) : meant'[c] = meant[c]
    BY <1>2, <1>6, <1>8
  <2>3. q \in Pages /\ q.minted >= minted
    BY <1>0, <1>3, <1>4
  <2> QED BY <1>2, <1>4, <1>5, <2>1, <2>2, <2>3, UndoStays
<1> QED BY <1>1, <1>2, <1>4, <1>5, <1>7, <1>8, <1>9, <1>10, Ends

(* A debounce that runs out hands its text over.                            *)
LEMMA DebounceStep ==
  ASSUME IInv, NEW e \in editors, DebounceFires(e)
  PROVE  IInv' /\ RecordStep
<1>0. /\ Quiet(Page, meant, newest) /\ Page.minted = minted /\ Page.setup = setup
      /\ newest \in Nat /\ Page.editors = editors
  BY PageIs
<1> DEFINE q == Flush(Page, e)
<1>1. Becomes(q) /\ Unseen
  BY DEF DebounceFires
<1>2. q \in Pages /\ Along(Page, q, meant, newest) /\ AllReachedStill(Page, q)
  BY <1>0, FlushAlong DEF Quiet
<1> HIDE DEF q
<1>3. Quiet(q, meant, newest) /\ Kept(Page, q) /\ q.setup = setup /\ q.minted = minted
      /\ Known(q) = Known(Page)
  BY <1>0, <1>2 DEF Along, SameDesk, Quiet, Settled, AllReached, AllReachedStill
<1> QED BY <1>1, <1>3, EndsKept DEF Unseen

(* A format asked for takes what is owed off the debounce.                  *)
LEMMA AskFormatStep ==
  ASSUME IInv, NEW e \in editors, AskFormat(e)
  PROVE  IInv' /\ RecordStep
<1>0. /\ Quiet(Page, meant, newest) /\ Page.setup = setup /\ Page.editors = editors
      /\ Page.minted = minted /\ Page.text = text /\ Page.worker = worker
      /\ Page.shows = shows /\ Page.claims = claims /\ newest \in Nat
  BY PageIs
<1> DEFINE q == Change(Page, e, Asking(e))
<1>1. /\ editors' = (editors \ {e}) \cup {Asking(e)}
      /\ UNCHANGED <<setup, registry, shows, claims, stored, undo, newest, meant, reloads>>
  BY DEF AskFormat
<1>2. /\ q \in Pages /\ Sound(q, meant, newest)
      /\ Settled(Page) => Settled(q)
      /\ AllReachedStill(Page, q)
      /\ SameDesk(Page, q) /\ q.text = Page.text /\ q.worker = Page.worker
      /\ q.editors = (Page.editors \ {e}) \cup {Asking(e)}
  BY <1>0, AskedSound DEF Quiet
<1> HIDE DEF q
<1>3. Quiet(q, meant, newest) /\ q.setup = setup /\ q.minted = minted /\ Known(q) = Known(Page)
  BY <1>0, <1>2 DEF Quiet, AllReached, AllReachedStill, SameDesk, Known
<1>4. Becomes(q)
  <2>1. stored = Snapshot(Page)
    BY DEF IInv
  <2>2. Snapshot(q) = Snapshot(Page)
    BY <1>2 DEF Snapshot, SameDesk
  <2> QED BY <1>0, <1>1, <1>2, <2>1, <2>2 DEF Becomes, SameDesk, registry
<1>5. Aged(Page, q)
  BY <1>0, <1>2, SameTextIsAged DEF Quiet
<1>6. q.minted >= minted
  BY <1>3, PageIs
<1> QED BY <1>1, <1>3, <1>4, <1>5, <1>6, EndsUntyped

(* A format that answers hands over what it took off the debounce, or the   *)
(* text it made.                                                            *)
LEMMA FormatAnswersStep ==
  ASSUME IInv, NEW e \in editors, FormatAnswers(e)
  PROVE  IInv' /\ RecordStep
<1>0. /\ Quiet(Page, meant, newest) /\ Page.setup = setup /\ Page.editors = editors
      /\ Page.minted = minted /\ newest \in Nat /\ newest \in Derived..MaxText
      /\ setup.texts \in 1..MaxText /\ meant \in [Copies -> {NoText} \cup Texts]
      /\ minted \in Nat /\ (IsLambda <=> ~IsMachine(Page))
  BY PageIs DEF IInv
<1>1. e \in Page.editors /\ e \in EditorSet /\ e.of \in Copies /\ e.doc \in Texts
  BY <1>0 DEF Quiet, Pages, EditorSet
<1>2. PICK t \in {e.doc} \cup (IF e.doc = e.asked /\ newest < setup.texts
                               THEN {newest + 1} ELSE {}) :
         LET p == Change(Page, e, Answered(e, t))
         IN  /\ Becomes(IF HandsOver(e, t) THEN Recompile(p, e.of, t) ELSE p)
             /\ IF t = e.doc THEN UNCHANGED <<newest, meant>> ELSE Means(e.of, t)
  BY DEF FormatAnswers
<1> DEFINE r == Change(Page, e, Answered(e, t))
           q == IF HandsOver(e, t) THEN Recompile(r, e.of, t) ELSE r
<1>3. Becomes(q) /\ UNCHANGED <<setup, undo, reloads>>
  BY <1>2 DEF FormatAnswers
<1>4. /\ t \in Texts /\ newest' \in Derived..MaxText /\ newest' \in Nat /\ newest <= newest'
      /\ \/ t = e.doc /\ meant' = meant /\ newest' = newest
         \/ /\ e.doc = e.asked /\ t = newest + 1 /\ newest' = newest + 1
            /\ meant' = [meant EXCEPT ![e.of] = t]
  <2>1. CASE t = e.doc
    BY <1>0, <1>1, <1>2, <2>1
  <2>2. CASE t # e.doc
    <3>1. e.doc = e.asked /\ newest < setup.texts /\ t = newest + 1 /\ Means(e.of, t)
      BY <1>2, <2>2
    <3>2. t \in Derived..MaxText /\ t \in Nat /\ newest <= t
      BY <1>0, <3>1, Apart DEF Derived
    <3>3. t \in Texts
      BY <3>2, Apart DEF Texts, Seed
    <3> QED BY <3>1, <3>2, <3>3 DEF Means
  <2> QED BY <2>1, <2>2
<1> HIDE DEF q
<1>5. /\ q \in Pages /\ Sound(q, meant', newest') /\ Known(q) = Known(Page)
      /\ Settled(Page) => Settled(q)
      /\ AllReachedStill(Page, q)
      /\ Aged(Page, q) /\ SameDesk(Page, q)
  <2>1. Page \in Pages /\ Sound(Page, meant, newest)
    BY <1>0 DEF Quiet
  <2> DEFINE n2 == newest'
             m2 == meant'
  <2>2. /\ n2 \in Nat
        /\ \/ t = e.doc /\ m2 = meant /\ n2 = newest
           \/ /\ e.doc = e.asked /\ t = newest + 1 /\ n2 = newest + 1
              /\ m2 = [meant EXCEPT ![e.of] = t]
    BY <1>4
  <2> HIDE DEF n2, m2
  <2>3. /\ q \in Pages /\ Sound(q, m2, n2) /\ Known(q) = Known(Page)
        /\ Settled(Page) => Settled(q)
        /\ AllReachedStill(Page, q)
        /\ Aged(Page, q) /\ SameDesk(Page, q)
    BY <1>0, <1>1, <1>4, <2>1, <2>2, FormatSound DEF q
  <2> QED BY <2>3 DEF n2, m2
<1>6. Quiet(q, meant', newest') /\ q.setup = setup /\ q.minted = minted
  BY <1>0, <1>5 DEF Quiet, AllReached, AllReachedStill, SameDesk
<1>7. meant' \in [Copies -> {NoText} \cup Texts] /\ \A c \in Copies : c # e.of => meant'[c] = meant[c]
  BY <1>0, <1>1, <1>4
<1>8. e.of <= minted
  BY <1>0, <1>1 DEF Quiet, Sound, Documented
<1>9. \A c \in Copies : c > q.minted => meant'[c] = NoText
  <2> SUFFICES ASSUME NEW c \in Copies, c > q.minted PROVE meant'[c] = NoText
    OBVIOUS
  <2>1. c \in Nat /\ e.of \in Nat
    BY <1>1, Apart
  <2>2. c > minted /\ c # e.of
    BY <1>0, <1>6, <1>8, <2>1
  <2> QED BY <1>7, <2>2 DEF IInv
<1>10. UndoFits'
  <2>1. CASE IsLambda
    <3>1. UndoFits /\ undo' = undo /\ IsLambda'
      BY <1>3, <2>1 DEF IInv, IsLambda
    <3>2. undo = NoUndo => UndoFits'
      BY <3>1 DEF UndoFits, NoUndo
    <3>3. ASSUME undo # NoUndo PROVE UndoFits'
      <4>1. /\ undo = [copy |-> undo.copy, text |-> undo.text, views |-> undo.views]
            /\ undo.copy \in 1..minted /\ text[undo.copy] = NoText
            /\ undo.text \in 0..newest /\ undo.views \subseteq Views
        BY <3>1, <3>3 DEF UndoFits
      <4>2. minted \in 0..MaxCopies
        BY <1>0 DEF Quiet, Pages
      <4>3. undo.copy \in Copies /\ minted' = minted
        BY <1>3, <1>6, <4>1, <4>2, Apart DEF Becomes
      <4>4. undo.copy \notin Known(Page)
        BY <4>1, <4>3, PageIs DEF Known
      <4>5. text'[undo.copy] = NoText
        BY <1>3, <1>5, <4>3, <4>4 DEF Known, Becomes
      <4>6. undo.text \in 0..newest'
        BY <1>0, <1>4, <4>1
      <4> QED BY <3>1, <4>1, <4>3, <4>5, <4>6 DEF UndoFits
    <3> QED BY <3>2, <3>3
  <2>2. CASE ~IsLambda
    <3>1. e.of \in Known(Page)
      BY <2>2, EditorsCopyIsKnown
    <3>2. \A c \in Copies \ Known(Page) : meant'[c] = meant[c]
      BY <1>7, <3>1
    <3>3. q.minted >= minted
      BY <1>0, <1>6
    <3> QED BY <1>3, <1>4, <1>5, <3>2, <3>3, UndoStays
  <2> QED BY <2>1, <2>2
<1> QED BY <1>3, <1>4, <1>5, <1>6, <1>7, <1>9, <1>10, Ends

-----------------------------------------------------------------------------
(* The workers.  An answer to any but the last request is dropped.          *)
LEMMA StaleStep ==
  ASSUME IInv, NEW c \in Copies, Stale(c)
  PROVE  IInv' /\ RecordStep
<1>0. /\ Quiet(Page, meant, newest) /\ Page.minted = minted /\ Page.setup = setup
      /\ newest \in Nat /\ Page.worker = worker /\ minted \in Nat
  BY PageIs
<1> DEFINE q == AnswerOf(Page, c)
<1>1. Becomes(q) /\ Unseen /\ Page.worker[c].posts # <<>> /\ ~IsCurrent(Page, c)
  BY <1>0 DEF Stale
<1>2. /\ q \in Pages /\ Sound(q, meant, newest) /\ Known(q) = Known(Page)
      /\ Settled(Page) => Settled(q)
      /\ AllReachedStill(Page, q)
      /\ q.setup = Page.setup /\ q.minted = Page.minted /\ q.text = Page.text
      /\ q.editors = Page.editors
  BY <1>0, <1>1, StaleSound DEF Quiet
<1> HIDE DEF q
<1>3. Quiet(q, meant, newest) /\ q.setup = setup /\ q.minted >= minted
  BY <1>0, <1>2 DEF Quiet, AllReached, AllReachedStill
<1>4. Aged(Page, q)
  BY <1>0, <1>2, SameTextIsAged DEF Quiet
<1> QED BY <1>1, <1>2, <1>3, <1>4, EndsUntyped DEF Unseen

(* A build lands with the text of record or, of a lambda copy, with the one *)
(* that becomes it.                                                         *)
LEMMA BuildLandsStep ==
  ASSUME IInv, NEW c \in Copies, BuildLands(c)
  PROVE  IInv' /\ RecordStep
<1>0. /\ Quiet(Page, meant, newest) /\ Page.minted = minted /\ Page.setup = setup
      /\ newest \in Nat /\ Derived <= newest /\ Page.worker = worker /\ minted \in Nat
  BY PageIs
<1> DEFINE q == Land(Page, c, Head(Page.worker[c].posts))
<1>1. Becomes(q) /\ Unseen /\ Page.worker[c].posts # <<>> /\ IsCurrent(Page, c)
  BY <1>0 DEF BuildLands
<1>2. /\ q \in Pages /\ Sound(q, meant, newest) /\ Settled(q) /\ AllReached(q) /\ Aged(Page, q)
      /\ q.setup = Page.setup /\ q.minted = Page.minted /\ Known(q) = Known(Page)
  BY <1>0, <1>1, LandSound DEF Quiet
<1> HIDE DEF q
<1>3. Quiet(q, meant, newest) /\ q.setup = setup /\ q.minted >= minted
  BY <1>0, <1>2 DEF Quiet
<1> QED BY <1>1, <1>2, <1>3, EndsUntyped DEF Unseen

(* The worker of a copy after its last answer, when that has no build.      *)
Idle(v) == [v EXCEPT !.posts = Tail(@), !.holds = NoText]
Lost(v) == [v EXCEPT !.posts = Tail(@), !.holds = NoText, !.bare = TRUE]

(* It has nothing posted and holds nothing.                                 *)
LEMMA NothingHeld ==
  ASSUME NEW p \in Pages, NEW m, NEW n, Sound(p, m, n), NEW c \in Copies,
         p.worker[c].posts # <<>>, IsCurrent(p, c), NEW w,
         w = Idle(p.worker[c]) \/ w = Lost(p.worker[c])
  PROVE  /\ w \in WorkerSet /\ w.warm /\ w.posts = <<>> /\ w.holds = NoText
         /\ p.worker[c].bare => w.bare
         /\ w = Lost(p.worker[c]) => w.bare
<1> DEFINE v == p.worker[c]
<1>1. v \in WorkerSet /\ v.warm /\ v.posts \in Seq(Texts)
  BY PostsOf
<1>2. Tail(v.posts) = <<>>
  BY <1>1, PostsTail DEF IsCurrent
<1>3. <<>> \in Seq(Texts)
  <2> HIDE DEF Texts
  <2> QED BY EmptySeq
<1> HIDE DEF v
<1>4. /\ Idle(v) \in WorkerSet /\ Idle(v).warm = v.warm /\ Idle(v).posts = <<>>
      /\ Idle(v).holds = NoText /\ Idle(v).bare = v.bare
  BY <1>1, <1>2, <1>3 DEF WorkerSet, Idle
<1>5. /\ Lost(v) \in WorkerSet /\ Lost(v).warm = v.warm /\ Lost(v).posts = <<>>
      /\ Lost(v).holds = NoText /\ Lost(v).bare = TRUE
  BY <1>1, <1>2, <1>3 DEF WorkerSet, Lost
<1> QED BY <1>1, <1>4, <1>5 DEF v

(* A build that came to nothing leaves the worker idle.                     *)
LEMMA NoSessionStep ==
  ASSUME IInv, NEW c \in Copies, NoSession(c)
  PROVE  IInv' /\ RecordStep
<1>0. /\ Quiet(Page, meant, newest) /\ Page.minted = minted /\ Page.setup = setup
      /\ newest \in Nat /\ Page.worker = worker
  BY PageIs
<1> DEFINE w == Idle(Page.worker[c])
           q == WithRecord(Page, c, w, Page.text[c])
<1>1. Becomes(q) /\ Unseen /\ Page.worker[c].posts # <<>> /\ IsCurrent(Page, c)
  <2>1. q = [AnswerOf(Page, c) EXCEPT !.worker[c].holds = NoText]
    BY <1>0 DEF AnswerOf, WithRecord, Idle, Quiet, Pages
  <2> HIDE DEF q
  <2> QED BY <1>0, <2>1 DEF NoSession
<1>2. w \in WorkerSet /\ w.warm /\ w.posts = <<>> /\ w.holds = NoText
      /\ (Page.worker[c].bare => w.bare)
  BY <1>0, <1>1, NothingHeld DEF Quiet
<1> HIDE DEF w
<1>3. /\ q \in Pages /\ Sound(q, meant, newest) /\ Known(q) = Known(Page)
      /\ Settled(Page) => Settled(q)
      /\ AllReachedStill(Page, q)
      /\ q.setup = Page.setup /\ q.minted = Page.minted /\ Kept(Page, q)
  BY <1>0, <1>1, <1>2, FailedSound DEF Quiet
<1> HIDE DEF q
<1>4. Quiet(q, meant, newest) /\ q.setup = setup /\ q.minted = minted
  BY <1>0, <1>3 DEF Quiet, AllReached, AllReachedStill
<1> QED BY <1>1, <1>3, <1>4, EndsKept DEF Unseen

(* A worker that threw takes down the editor of its copy, which is bare     *)
(* then.                                                                    *)
LEMMA WorkerErrorStep ==
  ASSUME IInv, NEW c \in Copies, WorkerError(c)
  PROVE  IInv' /\ RecordStep
<1>0. /\ Quiet(Page, meant, newest) /\ Page.minted = minted /\ Page.setup = setup
      /\ newest \in Nat /\ Page.worker = worker
  BY PageIs
<1> DEFINE w == Lost(Page.worker[c])
           p == WithRecord(Page, c, w, Page.text[c])
           home == HomeFor(p, c)
           q == IF home = Nobody THEN p ELSE UnsetEditor(p, home)
<1>1. Becomes(q) /\ NoticeWith(NoUndo) /\ Page.worker[c].posts # <<>> /\ IsCurrent(Page, c)
  <2> DEFINE r == [AnswerOf(Page, c) EXCEPT !.worker[c].holds = NoText,
                                            !.worker[c].bare = TRUE]
  <2>1. p = r
    BY <1>0 DEF AnswerOf, WithRecord, Lost, Quiet, Pages
  <2>2. Becomes(IF HomeFor(r, c) = Nobody THEN r ELSE UnsetEditor(r, HomeFor(r, c)))
    BY DEF WorkerError
  <2> HIDE DEF p, r
  <2> QED BY <1>0, <2>1, <2>2 DEF WorkerError
<1>2. w \in WorkerSet /\ w.warm /\ w.posts = <<>> /\ w.holds = NoText
      /\ (Page.worker[c].bare => w.bare) /\ w.bare
  BY <1>0, <1>1, NothingHeld DEF Quiet
<1> HIDE DEF w
<1>3. /\ p \in Pages /\ Sound(p, meant, newest) /\ Known(p) = Known(Page)
      /\ Settled(Page) => Settled(p)
      /\ AllReachedStill(Page, p)
      /\ p.setup = Page.setup /\ p.minted = Page.minted /\ Kept(Page, p)
      /\ p.worker[c] = w
  BY <1>0, <1>1, <1>2, FailedSound DEF Quiet
<1> HIDE DEF p
<1>4. Settled(p) /\ AllReached(p)
  BY <1>0, <1>3 DEF Quiet, AllReached, AllReachedStill
<1>5. /\ Quiet(q, meant, newest) /\ Kept(p, q) /\ Known(q) = Known(p)
      /\ q.setup = p.setup /\ q.minted = p.minted
  <2>1. CASE home = Nobody
    BY <1>3, <1>4, <2>1, KeptChains DEF Quiet
  <2>2. CASE home # Nobody
    <3>1. home \in Views /\ p.shows[home] = c /\ q = UnsetEditor(p, home)
      BY <1>3, <2>2 DEF HomeFor, Pages
    <3> HIDE DEF q, home
    <3>2. /\ q \in Pages /\ Along(p, q, meant, newest)
          /\ \A x \in Copies : Reached(p, x) /\ x # c => Reached(q, x)
      BY <1>0, <1>3, <3>1, UnsetAlong
    <3>3. Reached(q, c)
      BY <1>2, <1>3, <3>2 DEF Along, SameWorkers, Reached
    <3> QED BY <1>4, <3>2, <3>3 DEF Along, SameDesk, Quiet, Settled, AllReached
  <2> QED BY <2>1, <2>2
<1> HIDE DEF q
<1>6. Kept(Page, q)
  BY <1>0, <1>3, <1>5, KeptChains DEF Quiet
<1> QED BY <1>0, <1>1, <1>3, <1>5, <1>6, EndsKept DEF NoticeWith

-----------------------------------------------------------------------------
(* A page loaded again has what was stored, which is what it had.           *)
LEMMA ReloadStep ==
  ASSUME IInv, Reload
  PROVE  IInv' /\ RecordStep
<1>0. /\ Quiet(Page, meant, newest) /\ Page.minted = minted /\ Page.setup = setup
      /\ newest \in Nat /\ newest \in Derived..MaxText /\ Page.text = text
      /\ Page.shows = shows /\ stored = Snapshot(Page) /\ minted \in Nat
  BY PageIs DEF IInv
<1> DEFINE p == Restore
           q == InTurn(InTurn(p, Leaves, WarmShown), Leaves, MountShown)
<1>1. /\ Becomes(q) /\ undo' = NoUndo /\ meant' = stored.text /\ UNCHANGED <<setup, newest>>
  BY DEF Reload
<1>2. p \in Pages /\ Loaded(Page, p) /\ p.worker = [c \in Copies |-> Asleep]
  <2>1. Asleep \in WorkerSet
    <3>1. <<>> \in Seq(Texts)
      <4> HIDE DEF Texts
      <4> QED BY EmptySeq
    <3> QED BY <3>1 DEF Asleep, WorkerSet
  <2>2. /\ stored.minted = Page.minted /\ stored.text = Page.text /\ stored.shows = Page.shows
    BY <1>0 DEF Snapshot
  <2>3. /\ Page.minted \in 0..MaxCopies /\ Page.text \in [Copies -> {NoText} \cup Texts]
        /\ Page.shows \in [Views -> {Closed, Source} \cup Copies] /\ Page.setup \in Setups
    BY <1>0 DEF Quiet, Pages
  <2>4. [c \in Copies |-> Asleep] \in [Copies -> WorkerSet]
        /\ [c \in Copies |-> Nobody] \in [Copies -> {Nobody} \cup Views]
        /\ {} \in SUBSET EditorSet
    BY <2>1
  <2> QED BY <1>0, <2>2, <2>3, <2>4 DEF Restore, Loaded, Pages
<1> HIDE DEF p
<1>3. /\ q \in Pages /\ Sound(q, Page.text, newest) /\ Settled(q) /\ AllReached(q)
      /\ q.setup = Page.setup /\ q.minted = Page.minted
      /\ q.text = Page.text /\ q.shows = Page.shows
  <2>1. Page \in Pages /\ Sound(Page, meant, newest)
    BY <1>0 DEF Quiet
  <2> QED BY <1>2, <2>1, LoadedSound
<1> HIDE DEF q
<1>4. Quiet(q, text, newest) /\ q.setup = setup /\ Aged(Page, q)
  BY <1>0, <1>3, SameTextIsAged DEF Quiet
<1>5. text \in [Copies -> {NoText} \cup Texts] /\ \A c \in Copies : c > q.minted => text[c] = NoText
  <2>1. text \in [Copies -> {NoText} \cup Texts]
    BY <1>0 DEF Quiet, Pages
  <2>2. \A c \in Known(Page) : c <= minted
    BY <1>0 DEF Quiet, Sound, Registered
  <2>3. ASSUME NEW c \in Copies, c > q.minted PROVE text[c] = NoText
    <3>1. c \in Nat
      BY Apart
    <3> QED BY <1>0, <1>3, <2>2, <2>3, <3>1 DEF Known
  <2> QED BY <2>1, <2>3
<1>6. UndoFits'
  BY <1>1 DEF UndoFits, NoUndo
<1>7. meant' = text /\ text' = text /\ shows' = shows
  BY <1>0, <1>1, <1>3 DEF Snapshot, Becomes
<1> QED BY <1>0, <1>1, <1>4, <1>5, <1>6, <1>7, Ends

-----------------------------------------------------------------------------
(* The invariant.  At the cap nothing changes but the notice.               *)
LEMMA RefusedStep ==
  ASSUME IInv, NEW c \in Copies, ResumeRefused(c)
  PROVE  IInv' /\ RecordStep
<1>0. Quiet(Page, meant, newest) /\ Page.minted = minted /\ Page.setup = setup
  BY PageIs
<1>1. Becomes(Page)
  BY DEF ResumeRefused, Becomes, registry, desk, Page, IInv
<1>2. Kept(Page, Page)
  BY <1>0, KeptChains DEF Quiet
<1> QED BY <1>0, <1>1, <1>2, EndsKept DEF ResumeRefused, NoticeWith

(* A page just opened has no copy.                                          *)
LEMMA InitCopies == Init => IInv
<1> SUFFICES ASSUME Init PROVE IInv
  OBVIOUS
<1>1. /\ Page.setup = setup /\ Page.minted = 0 /\ Page.text = [c \in Copies |-> NoText]
      /\ Page.worker = [c \in Copies |-> Asleep]
      /\ Page.shows = [l \in Views |-> IF l = 1 THEN Source ELSE Closed]
      /\ Page.claims = [c \in Copies |-> Nobody] /\ Page.editors = {}
  BY DEF Init, Page
<1>2. newest = Derived /\ meant = [c \in Copies |-> NoText] /\ stored = Snapshot(Page)
      /\ undo = NoUndo /\ setup \in Setups
  BY DEF Init
<1>3. Page \in Pages
  <2>1. Asleep \in WorkerSet
    <3>1. <<>> \in Seq(Texts)
      <4> HIDE DEF Texts
      <4> QED BY EmptySeq
    <3> QED BY <3>1 DEF Asleep, WorkerSet
  <2>2. 0 \in 0..MaxCopies
    BY Apart
  <2>3. /\ [c \in Copies |-> NoText] \in [Copies -> {NoText} \cup Texts]
        /\ [c \in Copies |-> Asleep] \in [Copies -> WorkerSet]
        /\ [l \in Views |-> IF l = 1 THEN Source ELSE Closed]
              \in [Views -> {Closed, Source} \cup Copies]
        /\ [c \in Copies |-> Nobody] \in [Copies -> {Nobody} \cup Views]
        /\ {} \in SUBSET EditorSet
    BY <2>1
  <2> QED BY <1>2, <2>2, <2>3 DEF Init, Page, Pages
<1>4. Known(Page) = {} /\ Warm(Page) = {} /\ Mounted(Page) = {} /\ AtOwn(Page) = {}
  BY <1>1 DEF Known, Warm, Mounted, AtOwn, Asleep
<1>5. Registered(Page, newest)
  <2>1. Cardinality({}) = 0 /\ Page.setup.cap \in Nat
    BY <1>3, FS_EmptySet, Legs
  <2>2. \A l \in Views : Page.shows[l] \in {Closed, Source}
    BY <1>1
  <2> QED BY <1>1, <1>4, <2>1, <2>2 DEF Registered
<1>6. Seated(Page) /\ Settled(Page)
  BY <1>1, <1>4 DEF Seated, Settled, Resolved, AtHome, HomeOnly
<1>7. Documented(Page, meant, newest)
  BY <1>1, <1>4 DEF Documented
<1>8. AllReached(Page)
  <2>1. ASSUME NEW c \in Copies PROVE ViewsOf(Page, c) = {}
    BY <1>1, <2>1, Apart DEF ViewsOf
  <2> QED BY <2>1 DEF AllReached, Reached
<1>9. newest \in Derived..MaxText /\ meant \in [Copies -> {NoText} \cup Texts]
      /\ \A c \in Copies : c > minted => meant[c] = NoText
  BY <1>2, SetupsAssumption DEF Derived
<1>10. UndoFits
  BY <1>2 DEF UndoFits, NoUndo
<1> QED BY <1>2, <1>3, <1>5, <1>6, <1>7, <1>8, <1>9, <1>10 DEF IInv, Sound

(* Every event keeps the invariant, and the record no older.                *)
LEMMA CopiesStep ==
  ASSUME IInv, [Next]_vars PROVE IInv' /\ [RecordStep]_vars
<1>1. CASE UNCHANGED vars
  <2>1. UNCHANGED <<setup, minted, text, worker, shows, claims, editors, stored, undo, newest, meant>>
    BY <1>1 DEF vars
  <2>2. Page' = Page /\ UndoFits' = UndoFits
    BY <2>1 DEF Page, UndoFits, IsLambda
  <2> QED BY <1>1, <2>1, <2>2 DEF IInv
<1>2. ASSUME ViewNext PROVE IInv' /\ RecordStep
  BY <1>2, ForkStep, OpenViewStep, RebindStep, CloseViewStep, ShowEditorStep DEF ViewNext
<1>3. ASSUME CopyNext PROVE IInv' /\ RecordStep
  BY <1>3, PauseStep, ResumeStep, RefusedStep, DeleteStep, StaleStep, BuildLandsStep,
     NoSessionStep, WorkerErrorStep DEF CopyNext
<1>4. ASSUME EditorNext PROVE IInv' /\ RecordStep
  BY <1>4, TypeStep, DebounceStep, AskFormatStep, FormatAnswersStep DEF EditorNext
<1> QED BY <1>1, <1>2, <1>3, <1>4, ForkBlankStep, ApplyLayoutStep, UndoStep, ReloadStep DEF Next

(* What the invariant says of the page as its users see it.                 *)
LEMMA InvTypes == IInv => TypeOK
<1> SUFFICES ASSUME IInv PROVE TypeOK
  OBVIOUS
<1>1. /\ Page \in Pages /\ Registered(Page, newest) /\ Page.minted = minted /\ Page.text = text
      /\ Page.worker = worker /\ Page.shows = shows /\ Page.claims = claims
      /\ Page.editors = editors
  BY PageIs DEF Quiet, Sound
<1>2. \A e \in editors : e \in EditorSet
  BY <1>1 DEF Pages
<1>3. \A e \in EditorSet :
          /\ e.of \in Copies /\ e.at \in {Held, Loose} \cup Views
          /\ e.doc \in Texts /\ e.timer \in BOOLEAN
          /\ {e.owed, e.asked} \subseteq {NoText} \cup Texts
  BY DEF EditorSet
<1>4. /\ minted \in 0..MaxCopies /\ text \in [Copies -> {NoText} \cup Texts]
      /\ worker \in [Copies -> WorkerSet] /\ shows \in [Views -> {Closed, Source} \cup Copies]
      /\ claims \in [Copies -> {Nobody} \cup Views]
      /\ \A c \in Copies : worker[c].warm \/ worker[c] = Asleep
  BY <1>1 DEF Pages, Registered
<1> QED BY <1>2, <1>3, <1>4 DEF TypeOK, WorkerSet

(* Views have their sessions, and copies their editors.                     *)
LEMMA InvInPlace == IInv => EditorsInPlace
<1> SUFFICES ASSUME IInv PROVE EditorsInPlace
  OBVIOUS
<1>0. /\ Page \in Pages /\ Registered(Page, newest) /\ Seated(Page) /\ Settled(Page)
      /\ AllReached(Page) /\ Page.setup = setup
      /\ Page.worker = worker /\ Page.shows = shows /\ Page.claims = claims
      /\ Page.editors = editors /\ (IsLambda <=> ~IsMachine(Page))
  BY PageIs DEF Quiet, Sound
<1>1. ViewsResolve
  BY <1>0 DEF Registered, ViewsResolve
<1>2. EditorIsOfItsView
  BY <1>0 DEF Settled, Resolved, Mounted, EditorIsOfItsView
<1>3. EditorIsInReach
  <2> SUFFICES ASSUME NEW l \in Views, shows[l] \in Copies, ~worker[shows[l]].bare
               PROVE  HasEditor(Page, shows[l])
    BY DEF EditorIsInReach
  <2> DEFINE c == shows[l]
  <2>1. PICK e \in editors : e.of = c /\ (e.at = Held \/ e \in AtOwn(Page))
    BY <1>0 DEF AllReached, Reached, ViewsOf
  <2>2. CASE e.at = Held
    BY <1>0, <2>1, <2>2 DEF HasEditor, HeldFor
  <2>3. CASE e \in AtOwn(Page)
    <3>1. claims[c] = e.at /\ shows[e.at] = c /\ e.at # Nobody
      BY <1>0, <2>1, <2>3, Apart DEF Settled, AtHome, HomeOnly, AtOwn, Mounted
    <3>2. HomeFor(Page, c) = e.at
      BY <1>0, <3>1 DEF HomeFor
    <3> QED BY <1>0, <3>1, <3>2 DEF HasEditor, On
  <2> QED BY <2>1, <2>2, <2>3
<1>4. IsLambda \/ OneEditor
  <2> SUFFICES ASSUME ~IsLambda, NEW c \in Copies
               PROVE  Cardinality({e \in editors : e.of = c}) <= 1
    BY DEF OneEditor
  <2> DEFINE s == {e \in editors : e.of = c}
  <2>1. \A e, f \in s : e = f
    BY <1>0 DEF Seated
  <2>2. CASE s = {}
    BY <2>2, FS_EmptySet
  <2>3. CASE s # {}
    <3>1. PICK e : s = {e}
      BY <2>1, <2>3
    <3>2. Cardinality({e}) = 1
      BY FS_Singleton
    <3> HIDE DEF s
    <3>3. Cardinality(s) <= 1
      BY <3>1, <3>2
    <3> QED BY <3>3 DEF s
  <2> QED BY <2>2, <2>3
<1> QED BY <1>1, <1>2, <1>3, <1>4 DEF EditorsInPlace

(* Editor, record and worker hold one text.                                 *)
LEMMA InvAgree == IInv => TextsAgree
<1> SUFFICES ASSUME IInv PROVE TextsAgree
  OBVIOUS
<1>0. /\ Page \in Pages /\ Registered(Page, newest) /\ Documented(Page, meant, newest)
      /\ Page.worker = worker /\ Page.text = text
      /\ Page.editors = editors /\ (IsLambda <=> ~IsMachine(Page))
  BY PageIs DEF Quiet, Sound
<1>1. WorkerFollowsRecord
  BY <1>0 DEF Registered, FollowsRecord, WorkerFollowsRecord
<1>2. ASSUME ~IsLambda PROVE TypedIsKept
  <2> SUFFICES ASSUME NEW c \in Known(Page), meant[c] > Derived
               PROVE  \/ text[c] = meant[c]
                      \/ \E e \in editors : e.of = c /\ Owes(e) /\ Due(e) = meant[c]
    BY DEF TypedIsKept
  <2>1. \/ text[c] = meant[c]
        \/ \E e \in editors : e.of = c /\ Owes(e)
    BY <1>0, <1>2 DEF Documented
  <2>2. ASSUME NEW e \in editors, e.of = c, Owes(e) PROVE Due(e) = meant[c]
    <3>1. Due(e) = e.doc
      BY <1>0, <2>2, DueIsDoc
    <3>2. e.doc = meant[c]
      BY <1>0, <1>2, <2>2 DEF Documented
    <3> QED BY <3>1, <3>2
  <2> QED BY <2>1, <2>2
<1>3. ASSUME ~IsLambda PROVE EditorShowsRecord
  <2> SUFFICES ASSUME NEW e \in editors, ~Owes(e) PROVE e.doc = text[e.of]
    BY DEF EditorShowsRecord
  <2>1. e.of \in Known(Page)
    BY <1>3, EditorsCopyIsKnown
  <2>2. text[e.of] \in {NoText, e.doc}
    BY <1>0, <1>3 DEF Documented
  <2> QED BY <1>0, <2>1, <2>2 DEF Known
<1> QED BY <1>1, <1>2, <1>3 DEF TextsAgree

(* The invariant holds of every page at all times.                          *)
LEMMA CopiesInv == Spec => []IInv
<1> QED BY InitCopies, CopiesStep, PTL DEF Spec

(* Every part of the page has its type, and a copy asleep has no worker     *)
(* state left (scratch-buffers.ts).                                         *)
THEOREM CopiesTypes == Spec => []TypeOK
<1> QED BY CopiesInv, InvTypes, PTL

(* Whatever is opened, closed, moved, paused, deleted, undone or loaded     *)
(* again while builds land and fail: every view has a session, what is on a *)
(* view is the editor of the copy shown there, a copy shown has its editor  *)
(* in reach, and a machine copy has no second one (editor-custody.ts:116).  *)
THEOREM EditorsStayInPlace == Spec => []EditorsInPlace
<1> QED BY CopiesInv, InvInPlace, PTL

(* The worker with nothing left to answer has the text of record, and of a  *)
(* machine copy so has the editor, or it owes what was typed last.          *)
THEOREM TextsStayAgreed == Spec => []TextsAgree
<1> QED BY CopiesInv, InvAgree, PTL

(* No event replaces a text of record by an older one, but for a lambda     *)
(* copy's by one of its editors', and a reload loses none.                  *)
THEOREM RecordsSurvive == Spec => RecordSurvives
<1>1. RecordStep <=>
        /\ \A c \in Copies :
             (text[c] # NoText /\ text'[c] # NoText) =>
                 \/ text[c] <= text'[c]
                 \/ IsLambda /\ \E e \in editors : e.of = c /\ e.doc = text'[c]
        /\ reloads' # reloads => text' = text /\ shows' = shows
  BY DEF RecordStep
<1> QED BY <1>1, InitCopies, CopiesStep, PTL DEF Spec, RecordSurvives
=============================================================================
