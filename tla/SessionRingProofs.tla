-------------------------- MODULE SessionRingProofs --------------------------
(***************************************************************************)
(* Proofs about what a session's page shows of its worker's recordings: a   *)
(* ring holds one recording of one build without a gap, keeps its first     *)
(* step until somebody continues it, and the requests that reach the worker *)
(* are for what it is recording.  Then that a value once known stays known  *)
(* until the text changes: results and value reports cross edits,           *)
(* continues, rewinds and throws, and none that follows a decided one takes *)
(* it back.                                                                 *)
(***************************************************************************)
EXTENDS SessionProofs

-----------------------------------------------------------------------------
(* The books of what is live, for calls s that are suspended.  A leg whose  *)
(* first fill is over, n frames of it recorded, has no loop in flight but a *)
(* continue's.                                                              *)
OverIn(s, n, l) ==
    /\ n > 0
    /\ \A i \in DOMAIN s : Flies(s[i], l) => s[i].by = "extend"
FillOver(l) == OverIn(suspended, recorded[l], l)

(* A leg's cursor c stands on the last of the n steps that were recorded,   *)
(* in the lap its epoch counts; its allowance a is more than a ring holds   *)
(* only once its first fill is over.                                        *)
BookOf(s, c, n, a, l) ==
    /\ c.lap = epoch[l]
    /\ (n = 0 /\ c.pos = 0) \/ (n = c.pos + 1 /\ Present(l))
    /\ \A i \in DOMAIN s : Flies(s[i], l) => n > 0
    /\ History <= a /\ n <= a
    /\ a # History => OverIn(s, n, l)

(* One run goes through the legs in order, and has recorded nothing of      *)
(* those to come: n is what is recorded, by leg.                            *)
Place(l) == CHOOSE i \in DOMAIN FillOrder : FillOrder[i] = l
RunsOn(c) == c.by = "run" /\ Owns(c.gen)
Ahead(c, n) == \A l \in Legs : Place(l) > Place(c.leg) => n[l] = 0
NoRun(s) == \A i \in DOMAIN s : ~RunsOn(s[i])

RunIn(s, n) ==
    /\ \A i, j \in DOMAIN s : RunsOn(s[i]) /\ RunsOn(s[j]) => i = j
    /\ \A i \in DOMAIN s : RunsOn(s[i]) => Ahead(s[i], n)

(* Leg l is none the run among s has still to come to.                      *)
Reached(s, l) == \A i \in DOMAIN s : RunsOn(s[i]) => Place(l) <= Place(s[i].leg)

(* A loop t about to start begins a leg's recording, or continues it after  *)
(* its first fill.                                                          *)
TurnIn(t, s, n) ==
    t # Idle /\ Owns(t.call.gen) =>
        LET c == t.call
        IN  /\ c.by = "run" => Ahead(c, n) /\ NoRun(s)
            /\ t.pc = "record" =>
                  /\ c.by # "extend" => n[c.leg] = 0
                  /\ c.by = "extend" => OverIn(s, n[c.leg], c.leg)
                  /\ c.by = "rewind" => Reached(s, c.leg)

BooksOf(l) == BookOf(suspended, live.cursor[l], recorded[l], allowance[l], l)

BookInv ==
    /\ live # NoLive => \A l \in Legs : BooksOf(l)
    /\ RunIn(suspended, recorded)
    /\ TurnIn(running, suspended, recorded)

(* The same of the state a step ends in, told of the one it began in.       *)
BooksNext ==
    live' # NoLive =>
        /\ \A l \in Legs :
              BookOf(suspended', live'.cursor[l], recorded'[l], allowance'[l], l)
        /\ RunIn(suspended', recorded')
        /\ TurnIn(running', suspended', recorded')

(* In a step that neither builds nor rewinds, the calls that fly are those  *)
(* that flew.                                                               *)
LEMMA BooksStay == ASSUME SameFlight, BooksNext PROVE BookInv'
<1>1. CASE live' = NoLive
  BY <1>1 DEF BookInv, RunIn, TurnIn, RunsOn, Owns
<1>2. CASE live' # NoLive
  <2>1. live # NoLive /\ live'.gen = live.gen /\ live'.prog = live.prog /\ epoch' = epoch
    BY <1>2 DEF SameFlight
  <2>2. ASSUME NEW l \in Legs PROVE BooksOf(l)'
    <3>1. BookOf(suspended', live'.cursor[l], recorded'[l], allowance'[l], l)
      BY <1>2 DEF BooksNext
    <3> QED BY <1>2, <2>1, <3>1 DEF BooksOf, BookOf, OverIn, Flies, Owns, Present
  <2>3. RunIn(suspended, recorded)'
    BY <1>2, <2>1 DEF BooksNext, RunIn, RunsOn, Owns, Ahead
  <2>4. TurnIn(running, suspended, recorded)'
    BY <1>2, <2>1 DEF BooksNext, TurnIn, OverIn, Reached, NoRun, RunsOn, Flies, Owns, Ahead
  <2> QED BY <2>2, <2>3, <2>4 DEF BookInv
<1> QED BY <1>1, <1>2

(* A leg's place in the order of a run.                                     *)
LEMMA PlaceOf ==
  /\ \A l \in Legs : /\ Place(l) \in 1..Len(FillOrder) /\ Place(l) \in Nat
                     /\ FillOrder[Place(l)] = l
  /\ \A i \in 1..Len(FillOrder) : FillOrder[i] \in Legs /\ Place(FillOrder[i]) = i
  /\ Len(FillOrder) \in Nat
<1>1. DOMAIN FillOrder = 1..Len(FillOrder) /\ Len(FillOrder) \in Nat
  BY ProtocolAssumption
<1>2. ASSUME NEW l \in Legs
      PROVE  Place(l) \in 1..Len(FillOrder) /\ Place(l) \in Nat /\ FillOrder[Place(l)] = l
  BY <1>1, NextLeg DEF Place
<1>3. ASSUME NEW i \in 1..Len(FillOrder) PROVE FillOrder[i] \in Legs /\ Place(FillOrder[i]) = i
  <2>1. FillOrder[i] \in Legs
    BY <1>1 DEF Legs, ToSet
  <2>2. Place(FillOrder[i]) \in DOMAIN FillOrder /\ FillOrder[Place(FillOrder[i])] = FillOrder[i]
    BY <1>1, <1>2, <2>1
  <2> QED BY <1>1, <2>1, <2>2, ProtocolAssumption
<1> QED BY <1>1, <1>2, <1>3

(* Fewer calls, and the run among them still the only one.                  *)
LEMMA RunShrinks ==
  ASSUME NEW s \in Seq(CallType), NEW i \in DOMAIN s, NEW n, RunIn(s, n)
  PROVE  /\ RunIn(RemoveAt(s, i), n)
         /\ RunsOn(s[i]) => NoRun(RemoveAt(s, i))
         /\ \A j \in DOMAIN RemoveAt(s, i) : \E k \in DOMAIN s : RemoveAt(s, i)[j] = s[k]
<1> DEFINE t == RemoveAt(s, i)
<1>1. /\ Len(s) \in Nat \ {0} /\ DOMAIN s = 1..Len(s) /\ DOMAIN t = 1..(Len(s) - 1)
      /\ \A j \in 1..(Len(s) - 1) : t[j] = s[Before(i, j)]
  BY Removed
<1> HIDE DEF t
<1>2. \A j \in DOMAIN t : /\ Before(i, j) \in DOMAIN s /\ Before(i, j) # i
                          /\ t[j] = s[Before(i, j)]
  BY <1>1 DEF Before
<1>3. \A j, k \in DOMAIN t : Before(i, j) = Before(i, k) => j = k
  BY <1>1 DEF Before
<1>4. RunIn(t, n)
  <2>1. ASSUME NEW j \in DOMAIN t, NEW k \in DOMAIN t, RunsOn(t[j]), RunsOn(t[k])
        PROVE  j = k
    <3>1. Before(i, j) = Before(i, k)
      BY <1>2, <2>1 DEF RunIn
    <3> QED BY <1>3, <3>1
  <2>2. ASSUME NEW j \in DOMAIN t, RunsOn(t[j]) PROVE Ahead(t[j], n)
    BY <1>2, <2>2 DEF RunIn
  <2> QED BY <2>1, <2>2 DEF RunIn
<1>5. RunsOn(s[i]) => NoRun(t)
  BY <1>2 DEF RunIn, NoRun
<1> QED BY <1>2, <1>4, <1>5 DEF t

(* A call joins the others; if it is a run, it is the only one.             *)
LEMMA RunJoins ==
  ASSUME NEW s \in Seq(CallType), NEW c \in CallType, NEW n, RunIn(s, n),
         RunsOn(c) => NoRun(s) /\ Ahead(c, n)
  PROVE  RunIn(Append(s, c), n)
<1> DEFINE t == Append(s, c)
           k == Len(s) + 1
<1>1. /\ Len(s) \in Nat /\ DOMAIN s = 1..Len(s) /\ DOMAIN t = 1..k
      /\ \A i \in DOMAIN s : t[i] = s[i]
      /\ t[k] = c
  BY SeqIsSeq, Appended
<1> HIDE DEF t
<1>2. k \notin DOMAIN s /\ DOMAIN t = DOMAIN s \cup {k}
  BY <1>1
<1> HIDE DEF k
<1>3. ASSUME NEW i \in DOMAIN t, NEW j \in DOMAIN t, RunsOn(t[i]), RunsOn(t[j])
      PROVE  i = j
  <2>1. CASE i = k \/ j = k
    BY <1>1, <1>2, <1>3, <2>1 DEF NoRun
  <2>2. CASE i # k /\ j # k
    BY <1>1, <1>2, <1>3, <2>2 DEF RunIn
  <2> QED BY <2>1, <2>2
<1>4. ASSUME NEW i \in DOMAIN t, RunsOn(t[i]) PROVE Ahead(t[i], n)
  BY <1>1, <1>2, <1>4 DEF RunIn
<1> QED BY <1>3, <1>4 DEF RunIn, t

-----------------------------------------------------------------------------
(* What a call that goes on tells the page, of the state it began in: the   *)
(* frames it recorded, a reading, or its error.                             *)
TellsFrames(r) ==
    /\ r.kind = "frames" /\ live' # NoLive
    /\ r.leg \in Legs /\ Present(r.leg) /\ r.epoch = epoch[r.leg]
    /\ recorded' = [recorded EXCEPT ![r.leg] = @ + Len(r.frames)]
    /\ recorded'[r.leg] <= allowance[r.leg]
    /\ \A k \in DOMAIN r.frames :
          r.frames[k] = [gen |-> r.gen, lap |-> r.epoch, step |-> recorded[r.leg] + k - 1]
    /\ r.done # NotDone => OverIn(suspended', recorded'[r.leg], r.leg)

TellsReading(r) ==
    r.kind \in {"result", "tm-value", "rxm-value"} /\ live' # NoLive /\ recorded' = recorded

TellsError(r) == r.kind = "worker-error" /\ live' = NoLive

Tells ==
    \/ toPage' = toPage /\ recorded' = recorded
    \/ \E r : /\ Owns(r.gen) /\ toPage' = Append(toPage, r)
              /\ TellsFrames(r) \/ TellsReading(r) \/ TellsError(r)

GoesOn ==
    /\ SameFlight /\ Tells
    /\ live' # NoLive =>
          /\ allowance' = allowance
          /\ \A l \in Legs : FillOver(l) => OverIn(suspended', recorded'[l], l)

(* A chunk of a loop that flies.                                            *)
LEMMA ChunkBooks ==
  ASSUME CallInv, BookInv, live # NoLive, NEW call \in CallType, Flies(call, call.leg),
         Present(call.leg), NEW first \in BOOLEAN, NEW others \in Seq(CallType),
         Chunk(call, first, others), SameFlight,
         \A j \in DOMAIN others : ~Flies(others[j], call.leg),
         \A j \in DOMAIN others : \E k \in DOMAIN suspended : others[j] = suspended[k],
         RunIn(others, recorded),
         RunsOn(call) => Ahead(call, recorded) /\ NoRun(others),
         ~RunsOn(call) => Reached(others, call.leg),
         first <=> recorded[call.leg] = 0,
         FillOver(call.leg) => call.by = "extend"
  PROVE  BooksNext /\ GoesOn
<1> DEFINE l == call.leg
           was == live.cursor[l]
           had == Had(l, first)
<1>0. /\ l \in Legs /\ live \in LiveType /\ CallsFit
      /\ recorded \in [Legs -> Nat] /\ allowance \in [Legs -> Nat]
      /\ recorded[l] \in Nat /\ allowance[l] \in Nat /\ was \in CursorType
      /\ was.pos \in Nat /\ History \in Nat \ {0}
  <2>1. l \in Legs /\ live \in LiveType /\ CallsFit
    BY DEF CallType, CallInv, CallsFit, CallTypes
  <2>2. recorded \in [Legs -> Nat] /\ allowance \in [Legs -> Nat]
    BY DEF CallInv, CallsFit, CallTypes
  <2>3. was \in CursorType
    BY <2>1 DEF LiveType
  <2>4. was.pos \in Nat
    BY <2>3 DEF CursorType
  <2>5. History \in Nat \ {0}
    BY ProtocolAssumption
  <2> QED BY <2>1, <2>2, <2>3, <2>4, <2>5
<1>1. PICK n \in Nat, c \in CursorType, d \in DoneType :
         ChunkOf(call, first, others, n, c, d)
  BY <1>0, ChunkInFull DEF CallsFit
<1> DEFINE m == had + n
<1>2. /\ c.pos = was.pos + n /\ c.lap = was.lap /\ c.pos \in Nat
      /\ n = 0 \/ m <= allowance[l]
      /\ live' = [live EXCEPT !.cursor[l] = c]
      /\ recorded' = [recorded EXCEPT ![l] = m]
      /\ toPage' = Append(toPage,
                     [kind |-> "frames", gen |-> call.gen, leg |-> l, epoch |-> call.epoch,
                      frames |-> Frames(l, IF first THEN was.pos ELSE was.pos + 1,
                                        was.pos + n),
                      done |-> d])
      /\ running' = IF d = NotDone THEN Idle ELSE AtAfter(call, TRUE)
      /\ suspended' = IF d = NotDone THEN Append(others, call) ELSE others
      /\ allowance' = allowance /\ epoch' = epoch
  <2>1. /\ c.pos = was.pos + n /\ c.lap = was.lap
        /\ n = 0 \/ m <= allowance[l]
        /\ live' = [live EXCEPT !.cursor[l] = c]
        /\ recorded' = [recorded EXCEPT ![l] = m]
    BY <1>1 DEF ChunkOf
  <2>2. toPage' = Append(toPage,
                    [kind |-> "frames", gen |-> call.gen, leg |-> l, epoch |-> call.epoch,
                     frames |-> Frames(l, IF first THEN was.pos ELSE was.pos + 1,
                                       was.pos + n),
                     done |-> d])
    BY <1>1, Zenon DEF ChunkOf, Post
  <2>3. /\ running' = IF d = NotDone THEN Idle ELSE AtAfter(call, TRUE)
        /\ suspended' = IF d = NotDone THEN Append(others, call) ELSE others
        /\ allowance' = allowance /\ epoch' = epoch
    BY <1>1, Zenon DEF ChunkOf
  <2>4. c.pos \in Nat
    <3>1. \A x \in CursorType : x.pos \in Nat
      BY DEF CursorType
    <3> QED BY <3>1
  <2> QED BY <2>1, <2>2, <2>3, <2>4, Zenon
<1>3. /\ was.lap = epoch[l] /\ History <= allowance[l] /\ recorded[l] <= allowance[l]
      /\ allowance[l] # History => FillOver(l)
      /\ (recorded[l] = 0 /\ was.pos = 0) \/ recorded[l] = was.pos + 1
  BY <1>0 DEF BookInv, BooksOf, BookOf, FillOver
<1>4. /\ had \in Nat /\ had > 0 /\ had <= allowance[l]
      /\ recorded[l] = IF first THEN was.pos ELSE was.pos + 1
      /\ first => had = 1 /\ recorded[l] = 0
      /\ ~first => had = recorded[l]
  BY <1>0, <1>3 DEF Had
<1>5. m \in Nat /\ m > 0 /\ m <= allowance[l] /\ m = c.pos + 1
  <2> HIDE DEF had, l, was
  <2>1. n \in Nat /\ had \in Nat /\ had > 0
    BY <1>4
  <2>2. m \in Nat /\ m > 0
    BY <2>1
  <2>3. m <= allowance[l]
    <3>1. CASE n = 0
      BY <1>4, <2>1, <3>1
    <3>2. CASE n # 0
      BY <1>2, <3>2
    <3> QED BY <3>1, <3>2
  <2>4. had = was.pos + 1
    <3>1. CASE first
      BY <1>0, <1>4, <3>1
    <3>2. CASE ~first
      BY <1>0, <1>4, <3>2
    <3> QED BY <3>1, <3>2
  <2>5. c.pos = was.pos + n /\ was.pos \in Nat
    BY <1>0, <1>2
  <2>6. m = c.pos + 1
    BY <2>1, <2>4, <2>5
  <2> QED BY <2>2, <2>3, <2>6
<1> HIDE DEF had, m
<1>6. \A i \in DOMAIN suspended' :
         \/ i \in DOMAIN others /\ suspended'[i] = others[i]
         \/ d = NotDone /\ suspended'[i] = call
  <2>1. IsSeq(others)
    BY SeqIsSeq
  <2> QED BY <1>2, <2>1, AppendedTo
<1>7. d # NotDone \/ call.by = "extend" => OverIn(suspended', m, l)
  BY <1>5, <1>6 DEF OverIn
<1>8. /\ recorded'[l] = m /\ \A k \in Legs : k # l => recorded'[k] = recorded[k]
      /\ live'.cursor[l] = c /\ \A k \in Legs : k # l => live'.cursor[k] = live.cursor[k]
  BY <1>0, <1>2 DEF LiveType
<1>9. ASSUME NEW k \in Legs, k # l
      PROVE  \A i \in DOMAIN suspended' : Flies(suspended'[i], k) =>
                \E j \in DOMAIN suspended : suspended'[i] = suspended[j]
  BY <1>6, <1>9 DEF Flies
<1>10. ASSUME NEW k \in Legs
       PROVE  BookOf(suspended', live'.cursor[k], recorded'[k], allowance'[k], k)
  <2>1. CASE k = l
    <3>1. allowance[l] # History => OverIn(suspended', m, l)
      BY <1>3, <1>7
    <3> QED BY <1>2, <1>3, <1>5, <1>8, <2>1, <3>1 DEF BookOf
  <2>2. CASE k # l
    <3>1. BookOf(suspended, live.cursor[k], recorded[k], allowance[k], k)
      BY DEF BookInv, BooksOf
    <3>2. /\ live'.cursor[k] = live.cursor[k] /\ recorded'[k] = recorded[k]
          /\ allowance'[k] = allowance[k]
      BY <1>2, <1>8, <2>2
    <3>3. \A i \in DOMAIN suspended' : Flies(suspended'[i], k) =>
             \E j \in DOMAIN suspended : suspended'[i] = suspended[j]
      BY <1>9, <2>2
    <3>4. OverIn(suspended, recorded[k], k) => OverIn(suspended', recorded[k], k)
      BY <3>3 DEF OverIn
    <3>5. \A i \in DOMAIN suspended' : Flies(suspended'[i], k) => recorded[k] > 0
      BY <3>1, <3>3 DEF BookOf
    <3> QED BY <3>1, <3>2, <3>4, <3>5 DEF BookOf
  <2> QED BY <2>1, <2>2
<1>11. RunIn(others, recorded') /\ (RunsOn(call) => Ahead(call, recorded'))
  <2>1. ASSUME NEW k \in Legs, RunsOn(call), Place(k) > Place(l) PROVE recorded'[k] = 0
    <3>1. recorded[k] = 0
      BY <2>1 DEF Ahead
    <3>2. k # l
      BY <1>0, <2>1, PlaceOf
    <3> QED BY <1>8, <3>1, <3>2
  <2>2. ASSUME NEW j \in DOMAIN others, RunsOn(others[j]), NEW k \in Legs,
               Place(k) > Place(others[j].leg)
        PROVE  recorded'[k] = 0
    <3>1. recorded[k] = 0
      BY <2>2 DEF RunIn, Ahead
    <3>2. Place(l) <= Place(others[j].leg)
      BY <2>2 DEF NoRun, Reached
    <3>3. others[j].leg \in Legs
      <4>1. others[j] \in CallType
        BY <2>2
      <4> QED BY <4>1 DEF CallType
    <3>4. k # l
      BY <1>0, <2>2, <3>2, <3>3, PlaceOf
    <3> QED BY <1>8, <3>1, <3>4
  <2> QED BY <2>1, <2>2 DEF RunIn, Ahead
<1>12. RunIn(suspended', recorded')
  BY <1>2, <1>11, RunJoins
<1>13. TurnIn(running', suspended', recorded')
  <2>1. CASE d = NotDone
    BY <1>2, <2>1 DEF TurnIn
  <2>2. CASE d # NotDone
    BY <1>2, <1>11, <2>2 DEF TurnIn, AtAfter, RunsOn
  <2> QED BY <2>1, <2>2
<1>14. BooksNext
  BY <1>10, <1>12, <1>13 DEF BooksNext
<1>15. ASSUME NEW k \in Legs, FillOver(k) PROVE OverIn(suspended', recorded'[k], k)
  <2>1. CASE k = l
    BY <1>7, <1>8, <1>15, <2>1
  <2>2. CASE k # l
    BY <1>8, <1>9, <1>15, <2>2 DEF FillOver, OverIn
  <2> QED BY <2>1, <2>2
<1>16. Tells
  <2> DEFINE from == IF first THEN was.pos ELSE was.pos + 1
             to == was.pos + n
             fs == Frames(l, from, to)
             r == [kind |-> "frames", gen |-> call.gen, leg |-> l, epoch |-> call.epoch,
                   frames |-> fs, done |-> d]
  <2>0. to \in Nat /\ n \in Nat /\ was.pos \in Nat /\ from \in Nat
    <3>1. c.pos \in Nat /\ c.pos = was.pos + n
      BY <1>1, <1>2 DEF CursorType
    <3> QED BY <1>0, <1>1, <3>1
  <2>1. from \in Nat /\ to \in Nat /\ from <= to + 1 /\ from = recorded[l]
        /\ to - from + 1 = m - recorded[l]
    <3> DEFINE p == was.pos
    <3>1. m = had + n /\ from = recorded[l] /\ to = p + n /\ p \in Nat
      BY <1>4, <2>0 DEF m
    <3>2. \/ from = p /\ had = 1 /\ recorded[l] = 0
          \/ from = p + 1 /\ had = p + 1 /\ recorded[l] = p + 1
      BY <1>4
    <3> HIDE DEF p, from, to
    <3> QED BY <2>0, <3>1, <3>2
  <2> HIDE DEF from, to
  <2>2. /\ Len(fs) = to - from + 1 /\ fs \in Seq(FrameType)
        /\ \A i \in 1..(to - from + 1) :
              fs[i] = [gen |-> live.gen, lap |-> was.lap, step |-> from + i - 1]
    BY <1>0, <2>1, FramesOfChunk
  <2> HIDE DEF fs
  <2>3. /\ r.kind = "frames" /\ r.gen = call.gen /\ r.leg = l /\ r.epoch = call.epoch
        /\ r.frames = fs /\ r.done = d /\ toPage' = Append(toPage, r)
    BY <1>2 DEF from, to, fs
  <2> HIDE DEF r
  <2>4. live' # NoLive /\ call.gen = live.gen /\ call.epoch = epoch[l]
    <3>1. live'.gen = live.gen /\ live.gen \in 1..MaxGen
      BY <1>0, <1>2 DEF LiveType
    <3>2. live'.gen # 0
      BY <3>1
    <3> QED BY <3>2 DEF Flies, Owns, NoLive
  <2>5. recorded' = [recorded EXCEPT ![l] = @ + Len(fs)]
    <3>1. recorded[l] + Len(fs) = m
      BY <1>0, <1>5, <2>1, <2>2
    <3> QED BY <1>2, <3>1
  <2>6. \A k \in DOMAIN fs :
           fs[k] = [gen |-> r.gen, lap |-> r.epoch, step |-> recorded[l] + k - 1]
    <3>1. DOMAIN fs = 1..(to - from + 1)
      BY <2>1, <2>2
    <3>2. r.gen = live.gen /\ r.epoch = was.lap
      BY <1>3, <2>3, <2>4
    <3> QED BY <2>1, <2>2, <3>1, <3>2
  <2>7. TellsFrames(r)
    BY <1>0, <1>5, <1>7, <1>8, <2>3, <2>4, <2>5, <2>6 DEF TellsFrames
  <2>8. Owns(r.gen)
    BY <2>3 DEF Flies, Owns
  <2> QED BY <2>3, <2>7, <2>8 DEF Tells
<1> QED BY <1>2, <1>14, <1>15, <1>16 DEF GoesOn

(* A step that moves no cursor and records nothing: the calls in flight are *)
(* of those that were.                                                      *)
LEMMA BooksAside ==
  ASSUME CallInv, BookInv, SameFlight, Tells,
         UNCHANGED <<recorded, allowance>>, live # NoLive,
         live'.cursor = live.cursor,
         \A i \in DOMAIN suspended' : \A l \in Legs : Flies(suspended'[i], l) =>
            \E j \in DOMAIN suspended : suspended'[i] = suspended[j],
         RunIn(suspended', recorded), TurnIn(running', suspended', recorded)
  PROVE  BooksNext /\ GoesOn
<1>1. ASSUME NEW l \in Legs, NEW n, OverIn(suspended, n, l) PROVE OverIn(suspended', n, l)
  BY <1>1 DEF OverIn
<1>2. ASSUME NEW l \in Legs
      PROVE  BookOf(suspended', live'.cursor[l], recorded'[l], allowance'[l], l)
  <2>1. BookOf(suspended, live.cursor[l], recorded[l], allowance[l], l)
    BY DEF BookInv, BooksOf
  <2>2. \A i \in DOMAIN suspended' : Flies(suspended'[i], l) => recorded[l] > 0
    BY <2>1 DEF BookOf
  <2> QED BY <1>1, <2>1, <2>2 DEF BookOf
<1>3. BooksNext
  BY <1>2 DEF BooksNext
<1>4. \A l \in Legs : FillOver(l) => OverIn(suspended', recorded'[l], l)
  BY <1>1 DEF FillOver
<1> QED BY <1>3, <1>4 DEF GoesOn

(* A step that leaves nothing live.                                         *)
LEMMA BooksDropped ==
  ASSUME SameFlight, Tells, live' = NoLive PROVE BooksNext /\ GoesOn
BY DEF BooksNext, GoesOn

(* A throw of a call of what is live tells its error.                       *)
LEMMA ThrowBooks ==
  ASSUME SameFlight, NEW call, NEW others, Owns(call.gen), Throw(call, others)
  PROVE  BooksNext /\ GoesOn
<1> DEFINE r == [kind |-> "worker-error", gen |-> call.gen]
<1>1. live' = NoLive /\ toPage' = Append(toPage, r)
  BY DEF Throw, Post
<1>2. r.gen = call.gen /\ r.kind = "worker-error"
  OBVIOUS
<1> HIDE DEF r
<1>3. Tells
  BY <1>1, <1>2 DEF Tells, TellsError, Owns
<1> QED BY <1>1, <1>3, BooksDropped

(* A leg recorded in part is none the run has still to come to.             *)
LEMMA RecordedReached ==
  ASSUME NEW s \in Seq(CallType), NEW n \in [Legs -> Nat], RunIn(s, n), NEW l \in Legs,
         n[l] > 0
  PROVE  Reached(s, l)
<1> SUFFICES ASSUME NEW i \in DOMAIN s, RunsOn(s[i]) PROVE Place(l) <= Place(s[i].leg)
  BY DEF Reached
<1>1. s[i] \in CallType
  OBVIOUS
<1>2. s[i].leg \in Legs
  BY <1>1 DEF CallType
<1>3. ~(Place(l) > Place(s[i].leg))
  BY DEF RunIn, Ahead
<1> QED BY <1>2, <1>3, PlaceOf

(* A loop starts.                                                           *)
LEMMA EnterBooks ==
  ASSUME CallInv, OneLoop, BookInv, SameFlight, EnterRecord PROVE BooksNext /\ GoesOn
<1> DEFINE asked == running.call
           call == [asked EXCEPT !.epoch = epoch[asked.leg]]
<1>1. running.pc = "record" /\ running # Idle
  BY DEF EnterRecord, Idle
<1>2. asked \in CallType /\ asked.by # "value" /\ asked.leg \in Legs
  <2>1. running.call \in CallType /\ asked.by # "value"
    BY <1>1, RunningCall
  <2> QED BY <2>1 DEF CallType
<1>3. suspended \in Seq(CallType) /\ epoch \in [Legs -> 0..MaxEpoch]
      /\ recorded \in [Legs -> Nat]
  BY DEF CallInv, CallsFit, CallTypes
<1>4. /\ call \in CallType /\ call.by = asked.by /\ call.gen = asked.gen
      /\ call.leg = asked.leg /\ call.epoch = epoch[call.leg]
  BY <1>2, <1>3 DEF CallType
<1>5. TurnIn(running, suspended, recorded) /\ RunIn(suspended, recorded)
  BY DEF BookInv
<1> HIDE DEF call, asked
<1>6. CASE /\ running' = AtAfter(call, FALSE)
           /\ UNCHANGED <<toPage, live, recorded, allowance, suspended>>
  <2>1. CASE live = NoLive
    BY <1>6, <2>1, BooksDropped DEF Tells
  <2>2. CASE live # NoLive
    <3>1. TurnIn(running', suspended', recorded)
      <4>1. running'.call = call /\ running'.pc = "after"
        BY <1>6 DEF AtAfter
      <4> QED BY <1>1, <1>4, <1>5, <1>6, <4>1 DEF TurnIn, RunsOn, Ahead, asked
    <3> QED BY <1>5, <1>6, <2>2, <3>1, BooksAside DEF Tells
  <2> QED BY <2>1, <2>2
<1>7. CASE ~TurnedAway(call) /\ Chunk(call, First(call), suspended)
  <2>1. /\ live # NoLive /\ Owns(call.gen) /\ Present(call.leg) /\ ~recording[call.leg]
        /\ Flies(call, call.leg)
    BY <1>2, <1>4, <1>7 DEF TurnedAway, Holds, Owns, Flies
  <2>2. \A j \in DOMAIN suspended : ~Flies(suspended[j], call.leg)
    BY <1>2, <1>4, <2>1 DEF OneLoop, OneOf, FlightsOf
  <2>3. /\ call.by = "run" => Ahead(call, recorded) /\ NoRun(suspended)
        /\ call.by # "extend" => recorded[call.leg] = 0
        /\ call.by = "extend" => OverIn(suspended, recorded[call.leg], call.leg)
        /\ call.by = "rewind" => Reached(suspended, call.leg)
    BY <1>1, <1>4, <1>5, <2>1 DEF TurnIn, Ahead, asked
  <2>4. call.by \in {"run", "extend", "rewind"}
    BY <1>2, <1>4 DEF CallType
  <2>5. ~RunsOn(call) => Reached(suspended, call.leg)
    BY <1>2, <1>3, <1>4, <1>5, <2>1, <2>3, <2>4, RecordedReached DEF RunsOn, OverIn
  <2>6. First(call) \in BOOLEAN /\ (First(call) <=> recorded[call.leg] = 0)
    BY <2>3 DEF First, OverIn
  <2>7. FillOver(call.leg) => call.by = "extend"
    BY <2>3 DEF FillOver, OverIn
  <2> QED BY <1>3, <1>4, <1>5, <1>7, <2>1, <2>2, <2>3, <2>5, <2>6, <2>7, ChunkBooks DEF RunsOn
<1>8. CASE ~TurnedAway(call) /\ Throw(call, suspended)
  BY <1>8, ThrowBooks DEF TurnedAway, Holds
<1> QED BY <1>6, <1>7, <1>8 DEF EnterRecord, books, asked, call

(* A loop wakes.                                                            *)
LEMMA ResumeBooks ==
  ASSUME CallInv, OneLoop, BookInv, SameFlight, NEW l \in Legs, ResumeRecord(l)
  PROVE  BooksNext /\ GoesOn
<1>1. PICK i \in DOMAIN suspended :
         LET call   == suspended[i]
             others == RemoveAt(suspended, i)
         IN  /\ call.by # "value" /\ call.leg = l
             /\ IF Owns(call.gen) /\ epoch[l] = call.epoch
                THEN Chunk(call, FALSE, others) \/ Throw(call, others)
                ELSE /\ suspended' = others
                     /\ running' = AtAfter(call, TRUE)
                     /\ UNCHANGED <<toPage, live, handles, books, throws>>
  BY DEF ResumeRecord
<1> DEFINE call == suspended[i]
           others == RemoveAt(suspended, i)
<1>2. /\ call \in CallType /\ LoopFits(call) /\ others \in Seq(CallType)
      /\ suspended \in Seq(CallType) /\ recorded \in [Legs -> Nat]
      /\ call.by # "value" /\ call.leg = l
  BY <1>1, SuspendedCall DEF CallInv, CallsFit, CallTypes
<1>3. RunIn(suspended, recorded)
  BY DEF BookInv
<1>4. /\ RunIn(others, recorded) /\ (RunsOn(call) => NoRun(others))
      /\ \A j \in DOMAIN others : \E k \in DOMAIN suspended : others[j] = suspended[k]
  BY <1>2, <1>3, RunShrinks
<1>5. RunsOn(call) => Ahead(call, recorded)
  BY <1>3 DEF RunIn
<1>6. \/ Owns(call.gen) /\ epoch[l] = call.epoch /\ Chunk(call, FALSE, others)
      \/ Owns(call.gen) /\ Throw(call, others)
      \/ /\ suspended' = others /\ running' = AtAfter(call, TRUE)
         /\ UNCHANGED <<toPage, live, recorded, allowance>>
  BY <1>1 DEF books
<1>7. Owns(call.gen) /\ epoch[l] = call.epoch => LeavesLeg(others, l)
  BY <1>2, WokenLeaves DEF Flies, Owns
<1>8. live # NoLive /\ Flies(call, l) => recorded[l] > 0
  BY DEF BookInv, BooksOf, BookOf
<1>9. FillOver(l) /\ Flies(call, l) => call.by = "extend"
  BY DEF FillOver, OverIn
<1> HIDE DEF call, others
<1>10. CASE Owns(call.gen) /\ epoch[l] = call.epoch /\ Chunk(call, FALSE, others)
  <2>1. live # NoLive /\ Flies(call, call.leg) /\ Present(call.leg)
    BY <1>2, <1>10 DEF Owns, Flies, LoopFits
  <2>2. \A j \in DOMAIN others : ~Flies(others[j], call.leg)
    <3>1. OneOf(others, l, FALSE)
      BY <1>7, <1>10 DEF LeavesLeg
    <3> QED BY <1>2, <3>1 DEF OneOf, FlightsOf
  <2>3. recorded[l] > 0 /\ recorded[l] \in Nat
    BY <1>2, <1>8, <2>1
  <2>4. ~RunsOn(call) => Reached(others, call.leg)
    BY <1>2, <1>4, <2>3, RecordedReached
  <2>5. FALSE <=> recorded[call.leg] = 0
    BY <1>2, <2>3
  <2>6. FALSE \in BOOLEAN
    OBVIOUS
  <2>7. FillOver(call.leg) => call.by = "extend"
    BY <1>2, <1>9, <2>1
  <2> QED BY <1>2, <1>4, <1>5, <1>10, <2>1, <2>2, <2>4, <2>5, <2>6, <2>7, ChunkBooks
<1>11. CASE Owns(call.gen) /\ Throw(call, others)
  BY <1>11, ThrowBooks
<1>12. CASE /\ suspended' = others /\ running' = AtAfter(call, TRUE)
            /\ UNCHANGED <<toPage, live, recorded, allowance>>
  <2>1. CASE live = NoLive
    BY <1>12, <2>1, BooksDropped DEF Tells
  <2>2. CASE live # NoLive
    <3>1. TurnIn(running', suspended', recorded)
      <4>1. running'.call = call /\ running'.pc = "after"
        BY <1>12 DEF AtAfter
      <4> QED BY <1>4, <1>5, <1>12, <4>1 DEF TurnIn, RunsOn
    <3> QED BY <1>4, <1>12, <2>2, <3>1, BooksAside DEF Tells
  <2> QED BY <2>1, <2>2
<1> QED BY <1>6, <1>10, <1>11, <1>12

(* A reading is posted.                                                     *)
Reads(g) == \E r : /\ r.kind \in {"result", "tm-value", "rxm-value"} /\ r.gen = g
                   /\ toPage' = Append(toPage, r)

LEMMA ReadsTells ==
  ASSUME NEW g, Owns(g), Reads(g), recorded' = recorded, live' # NoLive PROVE Tells
BY DEF Reads, Tells, TellsReading

(* A call answers, or throws in the attempt.                                *)
LEMMA AnswerBooks ==
  ASSUME CallInv, BookInv, SameFlight, NEW call, Owns(call.gen), NEW P, Answer(call, P),
         P => Reads(call.gen), UNCHANGED books
  PROVE  BooksNext /\ GoesOn
<1>1. CASE /\ P /\ running' = Idle /\ UNCHANGED <<live, suspended>>
  <2>1. live # NoLive /\ UNCHANGED <<recorded, allowance>>
    BY DEF Owns, books
  <2>2. Tells
    BY <1>1, <2>1, ReadsTells
  <2>3. RunIn(suspended', recorded) /\ TurnIn(running', suspended', recorded)
    BY <1>1 DEF BookInv, TurnIn
  <2> QED BY <1>1, <2>1, <2>2, <2>3, BooksAside
<1>2. CASE live' = NoLive /\ Post([kind |-> "worker-error", gen |-> call.gen])
  <2> DEFINE r == [kind |-> "worker-error", gen |-> call.gen]
  <2>1. toPage' = Append(toPage, r) /\ r.gen = call.gen /\ r.kind = "worker-error"
    BY <1>2 DEF Post
  <2> HIDE DEF r
  <2>2. Tells
    BY <1>2, <2>1 DEF Tells, TellsError
  <2> QED BY <1>2, <2>2, BooksDropped
<1> QED BY <1>1, <1>2 DEF Answer

(* A result is a reading.                                                   *)
LEMMA ResultReads == ASSUME NEW g, PostResult(g) PROVE Reads(g)
<1> DEFINE read == [l \in Legs |-> ReadPart(l)]
           held == IF \E l \in Legs : posted[l] # NoPart THEN posted ELSE rewoundFrom
           new == KeepDecided(posted, KeepInFlight(held, read, recording))
           r == [kind |-> "result", gen |-> g, part |-> new]
<1>1. toPage' = Append(toPage, r)
  BY DEF PostResult, Post
<1>2. r.kind = "result" /\ r.gen = g
  OBVIOUS
<1> HIDE DEF r
<1> QED BY <1>1, <1>2 DEF Reads

(* A call whose turn it is goes on with nothing posted.                     *)
LEMMA QuietBooks ==
  ASSUME CallInv, BookInv, SameFlight, UNCHANGED <<toPage, live, books, suspended>>,
         TurnIn(running', suspended, recorded)
  PROVE  BooksNext /\ GoesOn
<1>1. UNCHANGED <<recorded, allowance>> /\ Tells
  BY DEF books, Tells
<1>2. CASE live = NoLive
  BY <1>1, <1>2, BooksDropped
<1>3. CASE live # NoLive
  <2>1. RunIn(suspended', recorded) /\ TurnIn(running', suspended', recorded)
    BY DEF BookInv
  <2> QED BY <1>1, <1>3, <2>1, BooksAside
<1> QED BY <1>2, <1>3

(* A run's loop has returned.                                               *)
LEMMA AfterRunBooks ==
  ASSUME CallInv, BookInv, SameFlight, AfterRun PROVE BooksNext /\ GoesOn
<1> DEFINE call == running.call
           at == CHOOSE i \in DOMAIN FillOrder : FillOrder[i] = call.leg
           next == FillOrder[at + 1]
<1>1. /\ running.pc = "after" /\ running # Idle /\ call.by = "run" /\ UNCHANGED books
  BY DEF AfterRun, Returned, Idle
<1>2. call \in CallType /\ call.leg \in Legs
  <2>1. running.call \in CallType
    BY <1>1, RunningCall
  <2> QED BY <2>1 DEF CallType
<1>3. Owns(call.gen) => Ahead(call, recorded) /\ NoRun(suspended)
  BY <1>1 DEF BookInv, TurnIn
<1>4. /\ at = Place(call.leg) /\ at \in 1..Len(FillOrder) /\ Len(FillOrder) \in Nat
      /\ at < Len(FillOrder) => next \in Legs /\ Place(next) = at + 1
  <2>1. at = Place(call.leg)
    BY DEF Place
  <2> HIDE DEF at
  <2>2. at \in 1..Len(FillOrder) /\ Len(FillOrder) \in Nat
    BY <1>2, <2>1, PlaceOf
  <2>3. at < Len(FillOrder) => at + 1 \in 1..Len(FillOrder)
    BY <2>2
  <2> QED BY <2>1, <2>2, <2>3, PlaceOf
<1>5. CASE /\ at < Len(FillOrder)
           /\ running' = AtRecord([call EXCEPT !.leg = next])
           /\ UNCHANGED <<toPage, live, suspended>>
  <2> DEFINE c == [call EXCEPT !.leg = next]
  <2>1. c.by = "run" /\ c.gen = call.gen /\ c.leg = next
    BY <1>1, <1>2 DEF CallType
  <2>2. running'.call = c /\ running'.pc = "record"
    BY <1>5 DEF AtRecord
  <2> HIDE DEF c, next, at
  <2>3. Owns(call.gen) => recorded[next] = 0 /\ Ahead(c, recorded)
    <3> SUFFICES ASSUME Owns(call.gen) PROVE recorded[next] = 0 /\ Ahead(c, recorded)
      OBVIOUS
    <3>1. Place(next) > Place(call.leg) /\ next \in Legs
      BY <1>4, <1>5
    <3>2. \A k \in Legs : Place(k) > Place(next) => Place(k) > Place(call.leg)
      BY <1>4, <1>5, PlaceOf
    <3> QED BY <1>3, <2>1, <3>1, <3>2 DEF Ahead
  <2>4. TurnIn(running', suspended, recorded)
    BY <1>3, <2>1, <2>2, <2>3 DEF TurnIn
  <2> QED BY <1>1, <1>5, <2>4, QuietBooks
<1>6. CASE /\ running' = AtValue([call EXCEPT !.by = "value"])
           /\ UNCHANGED <<toPage, live, suspended>>
  <2>1. running'.call.by = "value" /\ running'.pc = "value"
    BY <1>2, <1>6 DEF AtValue, CallType
  <2>2. TurnIn(running', suspended, recorded)
    BY <2>1 DEF TurnIn
  <2> QED BY <1>1, <1>6, <2>2, QuietBooks
<1>7. CASE Answers(call.gen) /\ Answer(call, PostResult(call.gen))
  BY <1>1, <1>7, ResultReads, AnswerBooks DEF Answers
<1>8. CASE NoAnswer
  BY <1>1, <1>8, QuietBooks DEF NoAnswer, TurnIn
<1> QED BY <1>5, <1>6, <1>7, <1>8 DEF AfterRun

(* A continue's loop has returned.                                          *)
LEMMA AfterExtendBooks ==
  ASSUME CallInv, BookInv, SameFlight, AfterExtend PROVE BooksNext /\ GoesOn
<1> DEFINE call == running.call
           P == /\ Post([kind |-> "rxm-value", gen |-> call.gen, value |-> Value("rxm")])
                /\ UNCHANGED parts
<1>1. UNCHANGED books
  BY DEF AfterExtend, Returned
<1>2. P => Reads(call.gen)
  <2> DEFINE r == [kind |-> "rxm-value", gen |-> call.gen, value |-> Value("rxm")]
  <2> SUFFICES ASSUME toPage' = Append(toPage, r) PROVE Reads(call.gen)
    BY DEF Post
  <2>1. r.kind = "rxm-value" /\ r.gen = call.gen
    OBVIOUS
  <2> HIDE DEF r
  <2> QED BY <2>1 DEF Reads
<1>3. \/ NoAnswer
      \/ Owns(call.gen) /\ Answer(call, P)
      \/ Owns(call.gen) /\ Answer(call, PostResult(call.gen))
  BY DEF AfterExtend
<1> HIDE DEF P
<1>4. CASE NoAnswer
  BY <1>1, <1>4, QuietBooks DEF NoAnswer, TurnIn
<1>5. CASE Owns(call.gen) /\ Answer(call, P)
  BY <1>1, <1>2, <1>5, AnswerBooks
<1>6. CASE Owns(call.gen) /\ Answer(call, PostResult(call.gen))
  BY <1>1, <1>6, ResultReads, AnswerBooks
<1> QED BY <1>3, <1>4, <1>5, <1>6

(* A rewind's loop has returned.                                            *)
LEMMA AfterRewindBooks ==
  ASSUME CallInv, BookInv, SameFlight, AfterRewind PROVE BooksNext /\ GoesOn
BY QuietBooks DEF AfterRewind, Returned, NoAnswer, TurnIn

(* A value run's chunk, its call taken from among the others.               *)
LEMMA ValueChunkBooks ==
  ASSUME CallInv, BookInv, SameFlight, NEW call \in CallType, call.by = "value",
         NEW others \in Seq(CallType), ValueChunk(call, others),
         \A j \in DOMAIN others : \E k \in DOMAIN suspended : others[j] = suspended[k],
         RunIn(others, recorded)
  PROVE  BooksNext /\ GoesOn
<1>1. ~RunsOn(call) /\ \A l \in Legs : ~Flies(call, l)
  BY DEF RunsOn, Flies
<1>2. IsSeq(others)
  BY SeqIsSeq
<1>3. CASE /\ suspended' = others /\ running' = Idle
           /\ UNCHANGED <<toPage, live, books>>
  <2>1. UNCHANGED <<recorded, allowance>> /\ Tells
    BY <1>3 DEF books, Tells
  <2>2. CASE live = NoLive
    BY <1>3, <2>1, <2>2, BooksDropped
  <2>3. CASE live # NoLive
    <3>1. RunIn(suspended', recorded) /\ TurnIn(running', suspended', recorded)
      BY <1>3 DEF TurnIn
    <3> QED BY <1>3, <2>1, <2>3, <3>1, BooksAside
  <2> QED BY <2>2, <2>3
<1>4. CASE /\ HasValueRun(call.gen)
           /\ live' = [live EXCEPT !.chunks = @ - 1]
           /\ Post([kind |-> "tm-value", gen |-> call.gen,
                    value |-> IF live.chunks = 1 THEN Decided ELSE Unfinished])
           /\ suspended' = IF live.chunks = 1 THEN others ELSE Append(others, call)
           /\ running' = Idle
           /\ UNCHANGED <<handles, books, throws>>
  <2> DEFINE r == [kind |-> "tm-value", gen |-> call.gen,
                   value |-> IF live.chunks = 1 THEN Decided ELSE Unfinished]
  <2>1. toPage' = Append(toPage, r)
    BY <1>4 DEF Post
  <2>2. r.kind = "tm-value" /\ r.gen = call.gen
    OBVIOUS
  <2> HIDE DEF r
  <2>3. UNCHANGED <<recorded, allowance>> /\ Owns(call.gen) /\ live # NoLive
    BY <1>4 DEF books, HasValueRun, Owns
  <2>4. live \in LiveType
    BY <2>3 DEF CallInv, CallsFit, CallTypes
  <2>5. live'.gen \in 1..MaxGen /\ live'.cursor = live.cursor
    BY <1>4, <2>4 DEF LiveType
  <2>6. live' # NoLive
    BY <2>5 DEF NoLive
  <2>7. Tells
    BY <2>1, <2>2, <2>3, <2>6, ReadsTells DEF Reads
  <2>8. \A i \in DOMAIN suspended' :
           \/ i \in DOMAIN others /\ suspended'[i] = others[i]
           \/ suspended'[i] = call
    BY <1>2, <1>4, AppendedTo
  <2>9. \A i \in DOMAIN suspended' : \A l \in Legs : Flies(suspended'[i], l) =>
           \E j \in DOMAIN suspended : suspended'[i] = suspended[j]
    BY <1>1, <2>8
  <2>10. RunIn(suspended', recorded) /\ TurnIn(running', suspended', recorded)
    BY <1>1, <1>4, RunJoins DEF TurnIn
  <2> QED BY <2>3, <2>5, <2>7, <2>9, <2>10, BooksAside
<1>5. CASE HasValueRun(call.gen) /\ Throw(call, others)
  BY <1>5, ThrowBooks DEF HasValueRun
<1> QED BY <1>3, <1>4, <1>5 DEF ValueChunk

(* A value run's turn.                                                      *)
LEMMA ValueBooks ==
  ASSUME CallInv, BookInv, SameFlight, RunValue PROVE BooksNext /\ GoesOn
<1>1. suspended \in Seq(CallType) /\ RunIn(suspended, recorded)
  BY DEF CallInv, CallsFit, CallTypes, BookInv
<1>2. CASE running.pc = "value" /\ ValueChunk(running.call, suspended)
  <2>1. running # Idle
    BY <1>2 DEF Idle
  <2>2. running.call \in CallType /\ running.call.by = "value"
    BY <1>2, <2>1, RunningCall DEF CallInv, RunningFits
  <2> QED BY <1>1, <1>2, <2>2, ValueChunkBooks
<1>3. CASE \E i \in DOMAIN suspended : /\ suspended[i].by = "value"
                                       /\ ValueChunk(suspended[i], RemoveAt(suspended, i))
  <2>1. PICK i \in DOMAIN suspended : /\ suspended[i].by = "value"
                                      /\ ValueChunk(suspended[i], RemoveAt(suspended, i))
    BY <1>3
  <2>2. /\ suspended[i] \in CallType /\ RemoveAt(suspended, i) \in Seq(CallType)
        /\ RunIn(RemoveAt(suspended, i), recorded)
        /\ \A j \in DOMAIN RemoveAt(suspended, i) :
              \E k \in DOMAIN suspended : RemoveAt(suspended, i)[j] = suspended[k]
    BY <1>1, SuspendedCall, RunShrinks
  <2> QED BY <2>1, <2>2, ValueChunkBooks
<1> QED BY <1>2, <1>3 DEF RunValue

(* The steps that take no message and start no build.                       *)
LEMMA ProceedsBooks ==
  CallInv /\ OneLoop /\ BookInv /\ Proceeds => BooksNext /\ GoesOn /\ BookInv'
<1> SUFFICES ASSUME CallInv, OneLoop, BookInv, Proceeds PROVE BooksNext /\ GoesOn /\ BookInv'
  OBVIOUS
<1>1. SameFlight
  BY ProceedsLoops
<1>2. BooksNext /\ GoesOn
  BY <1>1, EnterBooks, ResumeBooks, AfterRunBooks, AfterExtendBooks, AfterRewindBooks,
     ValueBooks DEF Proceeds
<1> QED BY <1>1, <1>2, BooksStay

-----------------------------------------------------------------------------
(* Requests.  A continue raises a leg's allowance, its first fill over.     *)
LEMMA ExtendBooks ==
  ASSUME CallInv, BookInv, SameFlight, ReceiveExtend, IsRequest(Head(toWorker)),
         Owns(Head(toWorker).gen) => FillOver(Head(toWorker).leg)
  PROVE  /\ BooksNext
         /\ UNCHANGED <<toPage, recorded, suspended>>
         /\ ~(UNCHANGED <<live, allowance>>) => Owns(Head(toWorker).gen)
         /\ live' # NoLive => \A k \in Legs : k # Head(toWorker).leg =>
                                 allowance'[k] = allowance[k]
<1> DEFINE m == Head(toWorker)
           l == m.leg
           c == Call("extend", m.gen, l, m.epoch)
<1>1. /\ running = Idle /\ UNCHANGED <<toPage, recorded, recording, epoch, suspended>>
      /\ toWorker # <<>> /\ m.kind = "extend"
  BY DEF ReceiveExtend, Received, Free
<1>2. l \in Legs
  BY <1>1 DEF IsRequest
<1>3. CASE UNCHANGED <<live, allowance, running>>
  <2>1. TurnIn(running', suspended, recorded)
    BY <1>1, <1>3 DEF TurnIn
  <2>2. BooksNext
    BY <1>1, <1>3, <2>1, QuietBooks DEF books
  <2> QED BY <1>1, <1>3, <2>2
<1>4. CASE /\ Owns(m.gen)
           /\ allowance' = [allowance EXCEPT ![l] = recorded[l] + History]
           /\ live' = IF Present(l) /\ live.cursor[l].status = "capped"
                      THEN [live EXCEPT !.cursor[l] = Raised(@)] ELSE live
           /\ running' = AtRecord(c)
  <2>1. /\ live \in LiveType /\ recorded \in [Legs -> Nat] /\ allowance \in [Legs -> Nat]
        /\ History \in Nat
    BY <1>4, ProtocolAssumption DEF CallInv, CallsFit, CallTypes, Owns
  <2>2. live.cursor[l] \in CursorType
    BY <1>2, <2>1 DEF LiveType
  <2>3. Raised(live.cursor[l]).pos = live.cursor[l].pos
        /\ Raised(live.cursor[l]).lap = live.cursor[l].lap
    BY <2>2 DEF Raised, CursorType
  <2>4. \A k \in Legs : live'.cursor[k].pos = live.cursor[k].pos
                        /\ live'.cursor[k].lap = live.cursor[k].lap
    <3>1. CASE live' = live
      BY <3>1
    <3>2. CASE live' = [live EXCEPT !.cursor[l] = Raised(@)]
      BY <1>2, <2>1, <2>3, <3>2 DEF LiveType
    <3> QED BY <1>4, <3>1, <3>2
  <2>5. FillOver(l)
    BY <1>4
  <2>6. ASSUME NEW k \in Legs
        PROVE  BookOf(suspended', live'.cursor[k], recorded'[k], allowance'[k], k)
    <3>1. BookOf(suspended, live.cursor[k], recorded[k], allowance[k], k)
      BY <1>4 DEF BookInv, BooksOf, Owns
    <3>2. allowance'[k] = IF k = l THEN recorded[l] + History ELSE allowance[k]
      BY <1>2, <1>4, <2>1
    <3>3. /\ History <= allowance'[k] /\ recorded[k] <= allowance'[k]
          /\ allowance'[k] # History => OverIn(suspended, recorded[k], k)
      BY <2>1, <2>5, <3>1, <3>2 DEF BookOf, FillOver
    <3> QED BY <1>1, <2>4, <3>1, <3>3 DEF BookOf
  <2>7. TurnIn(running', suspended', recorded')
    <3>1. running'.call = c /\ c.by = "extend" /\ c.leg = l /\ running'.pc = "record"
      BY <1>4 DEF AtRecord, Call
    <3> HIDE DEF c
    <3> QED BY <1>1, <2>5, <3>1 DEF TurnIn, FillOver
  <2>8. RunIn(suspended', recorded')
    BY <1>1 DEF BookInv
  <2>9. BooksNext
    BY <2>6, <2>7, <2>8 DEF BooksNext
  <2> QED BY <1>1, <1>4, <2>1, <2>9
<1> QED BY <1>3, <1>4 DEF ReceiveExtend

(* A rewind begins its leg's recording again, under the next epoch.         *)
LEMMA RewindBooks ==
  ASSUME CallInv, BookInv, ReceiveRewind, IsRequest(Head(toWorker)),
         Owns(Head(toWorker).gen) => /\ FillOver(Head(toWorker).leg)
                                     /\ Head(toWorker).epoch = epoch[Head(toWorker).leg] + 1
  PROVE  BookInv'
<1> DEFINE m == Head(toWorker)
           c == Call("rewind", m.gen, m.leg, m.epoch)
<1>1. /\ running = Idle /\ UNCHANGED <<toPage, suspended>>
      /\ toWorker # <<>> /\ m.kind = "rewind"
  BY DEF ReceiveRewind, Received, Free
<1>2. PICK l \in Legs : l = m.leg
  BY <1>1 DEF IsRequest
<1>3. CASE UNCHANGED <<live, books, running>>
  <2>1. BooksNext /\ SameFlight
    BY <1>1, <1>3 DEF BooksNext, BookInv, BooksOf, SameFlight, books
  <2> QED BY <2>1, BooksStay
<1>4. CASE /\ Holds(m.gen, l) /\ Owns(m.gen)
           /\ epoch' = [epoch EXCEPT ![l] = m.epoch]
           /\ live' = [live EXCEPT !.cursor[l] = OpenCursor(@.lap + 1)]
           /\ recorded' = [recorded EXCEPT ![l] = 0]
           /\ allowance' = [allowance EXCEPT ![l] = History]
           /\ running' = AtRecord(c)
  <2>1. /\ live \in LiveType /\ live # NoLive
        /\ recorded \in [Legs -> Nat] /\ allowance \in [Legs -> Nat]
        /\ epoch \in [Legs -> 0..MaxEpoch] /\ History \in Nat /\ suspended \in Seq(CallType)
    BY <1>4, ProtocolAssumption DEF CallInv, CallsFit, CallTypes, Holds, Owns
  <2>2. FillOver(l) /\ m.epoch = epoch[l] + 1 /\ epoch[l] \in Nat
    BY <1>2, <1>4, <2>1
  <2>3. /\ live'.gen = live.gen /\ live' # NoLive /\ live'.prog = live.prog
        /\ live'.cursor[l] = OpenCursor(live.cursor[l].lap + 1)
        /\ \A k \in Legs : k # l => live'.cursor[k] = live.cursor[k]
    <3>1. /\ live'.gen = live.gen /\ live'.prog = live.prog
          /\ live'.cursor[l] = OpenCursor(live.cursor[l].lap + 1)
          /\ \A k \in Legs : k # l => live'.cursor[k] = live.cursor[k]
      BY <1>2, <1>4, <2>1 DEF LiveType
    <3>2. live.gen \in 1..MaxGen
      BY <2>1 DEF LiveType
    <3> QED BY <3>1, <3>2 DEF NoLive
  <2>4. \A k \in Legs : k # l => /\ epoch'[k] = epoch[k] /\ recorded'[k] = recorded[k]
                                 /\ allowance'[k] = allowance[k]
    BY <1>4, <2>1
  <2>5. /\ epoch'[l] = epoch[l] + 1 /\ recorded'[l] = 0 /\ allowance'[l] = History
    BY <1>2, <1>4, <2>1, <2>2
  <2>6. \A i \in DOMAIN suspended : RunsOn(suspended[i])' <=> RunsOn(suspended[i])
    BY <1>1, <2>1, <2>3 DEF RunsOn, Owns
  <2>7. \A k \in Legs : k # l =>
           \A i \in DOMAIN suspended : Flies(suspended[i], k)' <=> Flies(suspended[i], k)
    BY <1>1, <2>1, <2>3, <2>4 DEF Flies, Owns
  <2>8. (\A i \in DOMAIN suspended : ~Flies(suspended[i], l))'
    <3> SUFFICES ASSUME NEW i \in DOMAIN suspended, Flies(suspended[i], l)' PROVE FALSE
      BY <1>1
    <3>1. LoopFits(suspended[i]) /\ suspended[i] \in CallType
      BY SuspendedCall
    <3>2. /\ suspended[i].by # "value" /\ Owns(suspended[i].gen) /\ suspended[i].leg = l
          /\ suspended[i].epoch = epoch[l] + 1
      BY <1>1, <2>1, <2>3, <2>5 DEF Flies, Owns
    <3>3. epoch[l] + 1 <= epoch[l]
      BY <3>1, <3>2 DEF LoopFits
    <3> QED BY <2>2, <3>3
  <2>9. ASSUME NEW k \in Legs PROVE BooksOf(k)'
    <3>1. BookOf(suspended, live.cursor[k], recorded[k], allowance[k], k)
      BY <2>1 DEF BookInv, BooksOf
    <3>2. CASE k = l
      <4>1. live.cursor[l].lap = epoch[l]
        BY <3>1, <3>2 DEF BookOf
      <4>2. live'.cursor[l].lap = epoch'[l] /\ live'.cursor[l].pos = 0
        BY <2>3, <2>5, <4>1 DEF OpenCursor
      <4> QED BY <2>1, <2>5, <2>8, <3>2, <4>2 DEF BooksOf, BookOf
    <3>3. CASE k # l
      <4>1. /\ live'.cursor[k] = live.cursor[k] /\ epoch'[k] = epoch[k]
            /\ recorded'[k] = recorded[k] /\ allowance'[k] = allowance[k]
            /\ Present(k)' <=> Present(k)
        BY <2>3, <2>4, <3>3 DEF Present
      <4>2. \A i \in DOMAIN suspended : Flies(suspended[i], k)' <=> Flies(suspended[i], k)
        BY <2>7, <3>3
      <4> QED BY <1>1, <3>1, <4>1, <4>2 DEF BooksOf, BookOf, OverIn
    <3> QED BY <3>2, <3>3
  <2>10. RunIn(suspended, recorded)'
    <3>1. \A k \in Legs : recorded[k] = 0 => recorded'[k] = 0
      BY <2>4, <2>5
    <3>2. RunIn(suspended, recorded)
      BY DEF BookInv
    <3> QED BY <1>1, <2>6, <3>1, <3>2 DEF RunIn, Ahead
  <2>11. TurnIn(running, suspended, recorded)'
    <3>1. running'.call = c /\ c.by = "rewind" /\ c.leg = l /\ running'.pc = "record"
      BY <1>2, <1>4 DEF AtRecord, Call
    <3> HIDE DEF c
    <3>2. Reached(suspended, l)
      <4>1. recorded[l] > 0 /\ RunIn(suspended, recorded)
        BY <2>2 DEF FillOver, OverIn, BookInv
      <4> QED BY <1>2, <2>1, <4>1, RecordedReached
    <3>3. Reached(suspended, l)'
      BY <1>1, <2>6, <3>2 DEF Reached
    <3> QED BY <2>5, <3>1, <3>3 DEF TurnIn
  <2> QED BY <2>9, <2>10, <2>11 DEF BookInv
<1> QED BY <1>2, <1>3, <1>4 DEF ReceiveRewind, FlagHandedOver, Holds

(* A build opens its books.                                                 *)
LEMMA BuildBooks ==
  ASSUME CallInv, NEW g \in 1..MaxGen, Build(g),
         \A i \in DOMAIN suspended : suspended[i].gen < g
  PROVE  BookInv'
<1>1. /\ recorded' = [l \in Legs |-> 0] /\ allowance' = [l \in Legs |-> History]
      /\ epoch' = [l \in Legs |-> 0] /\ suspended' = suspended
  BY DEF Build, NewBooks
<1>2. CASE live' = NoLive
  BY <1>2 DEF BookInv, RunIn, TurnIn, RunsOn, Owns
<1>3. ASSUME NEW p \in Programs, p # NoSession,
             live' = [gen |-> g, prog |-> p, chunks |-> p.chunks,
                      cursor |-> [l \in Legs |-> OpenCursor(0)]],
             running' = AtRecord(Call("run", g, FillOrder[1], 0))
      PROVE  BookInv'
  <2>1. /\ live'.gen = g /\ \A l \in Legs : live'.cursor[l] = OpenCursor(0)
    BY <1>3
  <2>2. \A i \in DOMAIN suspended : ~Owns(suspended[i].gen)'
    <3>1. \A i \in DOMAIN suspended : suspended[i].gen \in Int /\ suspended[i].gen < g
      <4>1. \A i \in DOMAIN suspended : suspended[i] \in CallType
        BY SuspendedCall
      <4> QED BY <4>1 DEF CallType
    <3>2. \A i \in DOMAIN suspended : suspended[i].gen # g
      BY <3>1
    <3> QED BY <1>1, <2>1, <3>2 DEF Owns
  <2>3. (\A i \in DOMAIN suspended : ~RunsOn(suspended[i])
                                      /\ \A l \in Legs : ~Flies(suspended[i], l))'
    BY <1>1, <2>2 DEF RunsOn, Flies
  <2>4. ASSUME NEW l \in Legs PROVE BooksOf(l)'
    <3>1. /\ recorded'[l] = 0 /\ allowance'[l] = History /\ epoch'[l] = 0
          /\ live'.cursor[l].pos = 0 /\ live'.cursor[l].lap = 0 /\ History \in Nat
      BY <1>1, <2>1, ProtocolAssumption DEF OpenCursor
    <3> QED BY <2>3, <3>1 DEF BooksOf, BookOf
  <2>5. RunIn(suspended, recorded)'
    BY <2>3 DEF RunIn
  <2>6. TurnIn(running, suspended, recorded)'
    <3> DEFINE c == Call("run", g, FillOrder[1], 0)
    <3>1. running'.call = c /\ c.by = "run" /\ c.leg = FillOrder[1] /\ running'.pc = "record"
      BY <1>3 DEF AtRecord, Call
    <3>2. FillOrder[1] \in Legs
      <4>1. Len(FillOrder) \in Nat \ {0}
        BY ProtocolAssumption
      <4> QED BY <4>1, PlaceOf
    <3> HIDE DEF c
    <3> QED BY <1>1, <2>3, <3>1, <3>2 DEF TurnIn, Ahead, NoRun
  <2> QED BY <2>4, <2>5, <2>6 DEF BookInv
<1> QED BY <1>2, <1>3 DEF Build

-----------------------------------------------------------------------------
(* Parts.  They are kept for all legs or for none, none was read while a    *)
(* rewind's fill ran, and a leg that was rewound has one from before.       *)
PartsFit ==
    /\ (\A l \in Legs : posted[l] = NoPart) \/ (\A l \in Legs : posted[l] # NoPart)
    /\ \A l \in Legs : ~posted[l].filling /\ ~rewoundFrom[l].filling
    /\ Kind = "session" /\ live # NoLive =>
          \A l \in Legs : epoch[l] > 0 => posted[l] # NoPart \/ rewoundFrom[l] # NoPart

(* A leg a rewind refills has a loop in flight.                             *)
LEMMA RefillingFlies ==
  ASSUME CallInv, OneLoop, live # NoLive, NEW l \in Legs, Refilling(l)
  PROVE  /\ recording[l] /\ epoch[l] > 0
         /\ \E i \in DOMAIN suspended : Flies(suspended[i], l) /\ suspended[i].by = "rewind"
<1>1. PICK i \in DOMAIN suspended : suspended[i] = Call("rewind", live.gen, l, epoch[l])
  BY DEF Refilling
<1>2. /\ suspended[i].by = "rewind" /\ suspended[i].gen = live.gen /\ suspended[i].leg = l
      /\ suspended[i].epoch = epoch[l]
  BY <1>1 DEF Call
<1>3. Flies(suspended[i], l)
  BY <1>2 DEF Flies, Owns
<1>4. LoopFits(suspended[i])
  BY SuspendedCall
<1> QED BY <1>2, <1>3, <1>4 DEF LoopFits, OneLoop, OneOf, FlightsOf

(* What a leg answers is no missing part, and says if it was refilling.     *)
LEMMA ReadingFilling ==
  ASSUME live \in LiveType, NEW l \in Legs
  PROVE  ReadPart(l) # NoPart /\ ReadPart(l).filling = Refilling(l)
<1>1. ReadPart(l) \in ReadType
  BY ReadingTypes
<1>2. ReadPart(l).value # "no-part"
  BY <1>1 DEF ReadType, None, Unfinished, Decided
<1> QED BY <1>2 DEF NoPart, ReadPart, Part

(* A result.                                                                *)
LEMMA ResultParts ==
  ASSUME CallInv, OneLoop, PartsFit, Kind = "session", NEW g, Owns(g), PostResult(g)
  PROVE  /\ \A l \in Legs : posted'[l] # NoPart /\ ~posted'[l].filling
         /\ rewoundFrom' = rewoundFrom
<1> DEFINE read == [l \in Legs |-> ReadPart(l)]
           held == IF \E l \in Legs : posted[l] # NoPart THEN posted ELSE rewoundFrom
           kept == KeepInFlight(held, read, recording)
<1>1. posted' = KeepDecided(posted, kept) /\ rewoundFrom' = rewoundFrom
  BY DEF PostResult
<1>2. live # NoLive /\ live \in LiveType
  BY DEF Owns, CallInv, CallsFit, CallTypes
<1>3. ASSUME NEW l \in Legs PROVE kept[l] # NoPart /\ ~kept[l].filling
  <2>1. read[l] = ReadPart(l)
    OBVIOUS
  <2>2. ReadPart(l) # NoPart /\ ReadPart(l).filling = Refilling(l)
    BY <1>2, ReadingFilling
  <2>3. ~held[l].filling
    BY DEF PartsFit
  <2>4. Refilling(l) => recording[l] /\ held[l] # NoPart
    <3> SUFFICES ASSUME Refilling(l) PROVE recording[l] /\ held[l] # NoPart
      OBVIOUS
    <3>1. recording[l] /\ epoch[l] > 0
      BY <1>2, RefillingFlies
    <3>2. posted[l] # NoPart \/ rewoundFrom[l] # NoPart
      BY <1>2, <3>1 DEF PartsFit
    <3> QED BY <3>1, <3>2 DEF PartsFit
  <2>5. kept[l] = IF recording[l] /\ held[l] # NoPart THEN held[l] ELSE read[l]
    BY DEF KeepInFlight
  <2> HIDE DEF kept, held, read
  <2>6. CASE recording[l] /\ held[l] # NoPart
    BY <2>3, <2>5, <2>6
  <2>7. CASE ~(recording[l] /\ held[l] # NoPart)
    <3>1. ~Refilling(l) /\ kept[l] = ReadPart(l)
      BY <2>1, <2>4, <2>5, <2>7
    <3> QED BY <2>2, <3>1
  <2> QED BY <2>6, <2>7
<1> HIDE DEF kept
<1>4. ASSUME NEW l \in Legs PROVE posted'[l] # NoPart /\ ~posted'[l].filling
  <2>1. posted'[l] = IF posted[l] = NoPart THEN kept[l] ELSE KeepDecidedPart(posted[l], kept[l])
    BY <1>1 DEF KeepDecided
  <2>2. \/ posted'[l] = kept[l]
        \/ posted'[l] = posted[l] /\ posted[l] # NoPart
    BY <2>1 DEF KeepDecidedPart
  <2>3. ~posted[l].filling
    BY DEF PartsFit
  <2> QED BY <1>3, <2>2, <2>3
<1> QED BY <1>1, <1>4

(* Only a result of the source session writes the parts.                    *)
LEMMA ProceedsWrites ==
  Proceeds => UNCHANGED parts \/ (Kind = "session" /\ \E g : Owns(g) /\ PostResult(g))
<1>1. EnterRecord \/ RunValue \/ (\E l \in Legs : ResumeRecord(l)) => UNCHANGED parts
  BY DEF EnterRecord, RunValue, ResumeRecord
<1>2. ASSUME NEW call, NEW P, Answer(call, P) PROVE P \/ UNCHANGED parts
  BY <1>2 DEF Answer
<1>3. AfterRun => UNCHANGED parts \/ (Kind = "session" /\ \E g : Owns(g) /\ PostResult(g))
  BY <1>2 DEF AfterRun, Answers, NoAnswer
<1>4. AfterExtend => UNCHANGED parts \/ (Kind = "session" /\ \E g : Owns(g) /\ PostResult(g))
  <2> DEFINE call == running.call
             P == /\ Post([kind |-> "rxm-value", gen |-> call.gen, value |-> Value("rxm")])
                  /\ UNCHANGED parts
  <2> SUFFICES ASSUME AfterExtend
               PROVE  \/ UNCHANGED parts
                      \/ Kind = "session" /\ \E g : Owns(g) /\ PostResult(g)
    OBVIOUS
  <2>1. \/ NoAnswer
        \/ Answer(call, P)
        \/ Kind = "session" /\ Owns(call.gen) /\ Answer(call, PostResult(call.gen))
    BY DEF AfterExtend
  <2>2. P => UNCHANGED parts
    OBVIOUS
  <2> HIDE DEF P
  <2>3. Answer(call, P) => UNCHANGED parts
    BY <1>2, <2>2
  <2>4. Answer(call, PostResult(call.gen)) => PostResult(call.gen) \/ UNCHANGED parts
    BY <1>2
  <2> QED BY <2>1, <2>3, <2>4 DEF NoAnswer
<1>5. AfterRewind => UNCHANGED parts
  BY DEF AfterRewind, NoAnswer
<1> QED BY <1>1, <1>3, <1>4, <1>5 DEF Proceeds

(* A call that goes on.                                                     *)
LEMMA ProceedsParts ==
  ASSUME CallInv, OneLoop, PartsFit, Proceeds PROVE PartsFit'
<1>1. live' # NoLive => live # NoLive /\ epoch' = epoch
  BY ProceedsLoops DEF SameFlight
<1>2. CASE UNCHANGED parts
  BY <1>1, <1>2 DEF PartsFit, parts
<1>3. CASE Kind = "session" /\ \E g : Owns(g) /\ PostResult(g)
  <2>1. /\ \A l \in Legs : posted'[l] # NoPart /\ ~posted'[l].filling
        /\ rewoundFrom' = rewoundFrom
    BY <1>3, ResultParts
  <2> QED BY <2>1 DEF PartsFit
<1> QED BY <1>2, <1>3, ProceedsWrites

(* A rewind keeps the part of a leg whose first fill is over.               *)
LEMMA RewindParts ==
  ASSUME CallInv, OneLoop, PartsFit, ReceiveRewind, IsRequest(Head(toWorker)),
         Owns(Head(toWorker).gen) => FillOver(Head(toWorker).leg)
  PROVE  PartsFit'
<1> DEFINE m == Head(toWorker)
<1>1. m.kind = "rewind"
  BY DEF ReceiveRewind, Received
<1>2. PICK l \in Legs : l = m.leg
  BY <1>1 DEF IsRequest
<1>3. CASE UNCHANGED <<live, books, parts>>
  BY <1>3 DEF PartsFit, books, parts
<1>4. CASE /\ Owns(m.gen)
           /\ epoch' = [epoch EXCEPT ![l] = m.epoch]
           /\ rewoundFrom' = IF Kind = "session" /\ \A k \in Legs : posted[k] = NoPart
                             THEN [rewoundFrom EXCEPT ![l] = ReadPart(l)] ELSE rewoundFrom
           /\ posted' = posted
  <2>1. /\ live # NoLive /\ live \in LiveType /\ epoch \in [Legs -> 0..MaxEpoch]
        /\ rewoundFrom \in [Legs -> KeptType]
    BY <1>4 DEF Owns, CallInv, CallsFit, CallTypes, PartTypes
  <2>2. ReadPart(l) # NoPart /\ ~ReadPart(l).filling
    <3>1. ReadPart(l) # NoPart /\ ReadPart(l).filling = Refilling(l)
      BY <2>1, ReadingFilling
    <3>2. ~Refilling(l)
      BY <1>2, <1>4, <2>1, RefillingFlies DEF FillOver, OverIn
    <3> QED BY <3>1, <3>2
  <2>3. \A k \in Legs : /\ k # l => epoch'[k] = epoch[k] /\ rewoundFrom'[k] = rewoundFrom[k]
                        /\ ~rewoundFrom'[k].filling
    BY <1>4, <2>1, <2>2 DEF PartsFit
  <2>4. Kind = "session" => posted[l] # NoPart \/ rewoundFrom'[l] # NoPart
    BY <1>4, <2>1, <2>2 DEF PartsFit
  <2> QED BY <1>4, <2>1, <2>3, <2>4 DEF PartsFit
<1> QED BY <1>2, <1>3, <1>4 DEF ReceiveRewind, Holds

(* A build has no parts yet.                                                *)
LEMMA BuildParts == ASSUME NEW g, Build(g) PROVE PartsFit'
<1>1. /\ posted' = [l \in Legs |-> NoPart] /\ rewoundFrom' = [l \in Legs |-> NoPart]
      /\ epoch' = [l \in Legs |-> 0]
  BY DEF Build, NewBooks
<1> QED BY <1>1 DEF PartsFit, NoPart

-----------------------------------------------------------------------------
(* Requests.  Those of what is live ask for what its legs' first fills are  *)
(* over for: continues under the leg's epoch and, after them, one rewind to *)
(* the next.                                                                *)
OfLive(i) == toWorker[i].kind # "build" /\ toWorker[i].gen = live.gen
Rewinds(i, l) == OfLive(i) /\ toWorker[i].kind = "rewind" /\ toWorker[i].leg = l
Extends(i, l) == OfLive(i) /\ toWorker[i].kind = "extend" /\ toWorker[i].leg = l

RequestFits(l) ==
    /\ \A i \in DOMAIN toWorker : Extends(i, l) =>
          /\ FillOver(l) /\ toWorker[i].epoch = epoch[l]
          /\ \A j \in DOMAIN toWorker : Rewinds(j, l) => i < j
    /\ \A i \in DOMAIN toWorker : Rewinds(i, l) =>
          /\ FillOver(l) /\ toWorker[i].epoch = epoch[l] + 1
          /\ \A j \in DOMAIN toWorker : Rewinds(j, l) => i = j

RequestsFit == live # NoLive => \A l \in Legs : RequestFits(l)

(* Requests are posted for builds that were taken up, and legs shown.       *)
TakenUp == ~awaitingRun => Old(gen)
RequestsOld ==
    \A i \in DOMAIN toWorker : toWorker[i].kind # "build" =>
        Old(toWorker[i].gen) /\ (awaitingRun => toWorker[i].gen < gen)
LegsOld == \A l \in Legs : legGen[l] <= gen /\ (awaitingRun => legGen[l] < gen)

-----------------------------------------------------------------------------
(* Replies.  Those of the newest build begin with its compiled reply, or    *)
(* are the one that says there is nothing to show, after which none comes.  *)
OfGen(i) == toPage[i].gen = gen
Opens(i) == OfGen(i) /\ toPage[i].kind = "compiled"
Closes(i) == OfGen(i) /\ toPage[i].kind \in {"no-session", "worker-error"}

ReplyOrder ==
    /\ \A i, j \in DOMAIN toPage : Opens(i) /\ OfGen(j) => i <= j
    /\ \A i, j \in DOMAIN toPage : OfGen(i) /\ Closes(j) => i <= j
    /\ \A i \in DOMAIN toPage : Closes(i) => ~Owns(gen)
    /\ \A i \in DOMAIN toPage : Opens(i) => awaitingRun
    /\ awaitingRun =>
          \A i \in DOMAIN toPage : OfGen(i) =>
              Closes(i) \/ \E j \in DOMAIN toPage : Opens(j)

(* A build the page has not heard of yet is as it was begun.                *)
Unheard ==
    awaitingRun /\ Owns(gen) =>
        /\ \E i \in DOMAIN toPage : Opens(i)
        /\ \A l \in Legs : epoch[l] = 0 /\ allowance[l] = History

(* What the page will have of leg l once the newest build's compiled reply  *)
(* is in: the epoch it takes frames of, and how many steps it was told.     *)
ShownEpoch(l) == IF awaitingRun THEN 0 ELSE legEpoch[l]
Shown(l) == IF awaitingRun THEN 0 ELSE ring[l].first + Len(ring[l].frames)

(* Frames are of their reply's generation and epoch, which is no later than *)
(* the leg's; those that end a recording end its first fill.                *)
FrameFits(r) ==
    /\ \A k \in DOMAIN r.frames : r.frames[k].gen = r.gen /\ r.frames[k].lap = r.epoch
    /\ r.epoch <= ShownEpoch(r.leg)
    /\ Owns(gen) =>
          /\ r.epoch <= epoch[r.leg]
          /\ r.epoch = epoch[r.leg] /\ r.done # NotDone => FillOver(r.leg)

FramesFit ==
    \A i \in DOMAIN toPage : OfGen(i) /\ toPage[i].kind = "frames" => FrameFits(toPage[i])

(* A leg's frames on their way go on where its ring ends, up to what the    *)
(* worker recorded: f counts the steps told before each reply.  Of a        *)
(* recording nobody continued they are no more than a ring holds.           *)
KeyedTo(r, l) ==
    r.kind = "frames" /\ r.gen = gen /\ r.leg = l /\ r.epoch = ShownEpoch(l)

Follows(r, n, m, l) ==
    IF KeyedTo(r, l)
    THEN /\ m = n + Len(r.frames)
         /\ \A k \in DOMAIN r.frames : r.frames[k].step = n + k - 1
    ELSE m = n

Room(n, l) == awaitingRun \/ continues[l] = 0 => n <= History
Ends(n, l) == Owns(gen) /\ epoch[l] = ShownEpoch(l) => n = recorded[l]

Counts(f, l) ==
    /\ f[1] = Shown(l)
    /\ \A i \in 1..(Len(toPage) + 1) : Room(f[i], l)
    /\ \A i \in DOMAIN toPage : Follows(toPage[i], f[i], f[i + 1], l)

Chain(l) ==
    \E f \in [1..(Len(toPage) + 1) -> Nat] : Counts(f, l) /\ Ends(f[Len(toPage) + 1], l)

Chains == \A l \in Legs : Chain(l)

(* What the page shows of a leg of the newest build is what the worker      *)
(* keeps, or the leg was just sent back to its first step.                  *)
Synced(l) ==
    /\ \/ legEpoch[l] = epoch[l] /\ \A i \in DOMAIN toWorker : ~Rewinds(i, l)
       \/ /\ legEpoch[l] = epoch[l] + 1
          /\ ring[l] = EmptyRing /\ done[l] = NotDone /\ continues[l] = 0
    /\ done[l] # NotDone \/ continues[l] > 0 => FillOver(l)
    /\ /\ legEpoch[l] = epoch[l]
       /\ allowance[l] # History \/ \E i \in DOMAIN toWorker : Extends(i, l)
       => continues[l] > 0

Sync == Owns(gen) /\ ~awaitingRun => \A l \in Legs : Synced(l)

(* A ring holds one recording of its generation, whole unless somebody      *)
(* continued it.                                                            *)
RingFits(l) ==
    LET r == ring[l]
    IN  /\ \A i \in DOMAIN r.frames :
              /\ r.frames[i].gen = legGen[l] /\ r.frames[i].lap = r.frames[1].lap
              /\ r.frames[i].step = r.first + i - 1
        /\ legGen[l] = gen => \A i \in DOMAIN r.frames : r.frames[i].lap = legEpoch[l]
        /\ continues[l] = 0 => r.first = 0 /\ Len(r.frames) <= History

Rings == \A l \in Legs : RingFits(l)

(* A ring of an earlier generation is shown only by a copy whose newest     *)
(* text did not build.                                                      *)
Foreign(l) == ring[l].frames # <<>> /\ legGen[l] # gen
ForeignOver ==
    ~awaitingRun /\ (\E l \in Legs : Foreign(l)) =>
        /\ Kind # "session" /\ ~Owns(gen)
        /\ \A i \in DOMAIN toPage : ~OfGen(i)

PageInv == /\ TakenUp /\ RequestsOld /\ LegsOld
           /\ ReplyOrder /\ Unheard /\ FramesFit /\ Chains
           /\ Sync /\ Rings /\ ForeignOver

RingInv == BookInv /\ PartsFit /\ RequestsFit /\ PageInv

-----------------------------------------------------------------------------
(* What the page shows, unchanged.                                          *)
SameShown == UNCHANGED <<gen, awaitingRun, ring, legEpoch, continues>>

(* A chain, opened: the replies are counted, f[N + 1] the last count.       *)
LEMMA ChainOpened ==
  ASSUME IsSeq(toPage), NEW l \in Legs, Chain(l)
  PROVE  \E N \in Nat : \E f \in [1..(N + 1) -> Nat] :
            /\ N = Len(toPage) /\ DOMAIN toPage = 1..N
            /\ f[1] = Shown(l)
            /\ \A i \in 1..(N + 1) : Room(f[i], l)
            /\ \A i \in 1..N : Follows(toPage[i], f[i], f[i + 1], l)
            /\ Ends(f[N + 1], l)
<1>1. Len(toPage) \in Nat /\ DOMAIN toPage = 1..Len(toPage)
  BY DEF IsSeq
<1>2. PICK f \in [1..(Len(toPage) + 1) -> Nat] : Counts(f, l) /\ Ends(f[Len(toPage) + 1], l)
  BY DEF Chain
<1> QED BY <1>1, <1>2 DEF Counts

(* A chain of the next state, closed.                                       *)
LEMMA ChainClosed ==
  ASSUME NEW l \in Legs, NEW N \in Nat, Len(toPage') = N, DOMAIN toPage' = 1..N,
         NEW f \in [1..(N + 1) -> Nat],
         (f[1] = Shown(l))', (\A i \in 1..(N + 1) : Room(f[i], l))',
         (\A i \in 1..N : Follows(toPage[i], f[i], f[i + 1], l))',
         Ends(f[N + 1], l)'
  PROVE  Chain(l)'
<1>1. Counts(f, l)'
  BY DEF Counts
<1>2. Ends(f[Len(toPage) + 1], l)'
  OBVIOUS
<1>3. f \in [1..(Len(toPage') + 1) -> Nat]
  OBVIOUS
<1> QED BY <1>1, <1>2, <1>3 DEF Chain

(* The count of a leg's steps, as the replies stay.                         *)
LEMMA ChainStays ==
  ASSUME IsSeq(toPage), NEW l \in Legs, Chain(l), toPage' = toPage,
         UNCHANGED <<gen, awaitingRun>>, Shown(l)' = Shown(l), ShownEpoch(l)' = ShownEpoch(l),
         \A n \in Nat : Room(n, l) => Room(n, l)',
         \A n \in Nat : Ends(n, l) => Ends(n, l)'
  PROVE  Chain(l)'
<1>1. PICK N, f :
         /\ N \in Nat /\ f \in [1..(N + 1) -> Nat]
         /\ N = Len(toPage) /\ DOMAIN toPage = 1..N
         /\ f[1] = Shown(l)
         /\ \A i \in 1..(N + 1) : Room(f[i], l)
         /\ \A i \in 1..N : Follows(toPage[i], f[i], f[i + 1], l)
         /\ Ends(f[N + 1], l)
  BY ChainOpened
<1>2. (\A i \in 1..N : Follows(toPage[i], f[i], f[i + 1], l))'
  BY <1>1 DEF Follows, KeyedTo
<1>3. (\A i \in 1..(N + 1) : Room(f[i], l))'
  BY <1>1
<1>4. Ends(f[N + 1], l)'
  BY <1>1
<1> QED BY <1>1, <1>2, <1>3, <1>4, ChainClosed

(* As the worker posts one more reply.                                      *)
LEMMA ChainGrows ==
  ASSUME IsSeq(toPage), NEW l \in Legs, Chain(l), NEW r, toPage' = Append(toPage, r),
         SameShown,
         \A n \in Nat : Ends(n, l) =>
            \E m \in Nat : /\ Follows(r, n, m, l)
                           /\ Room(n, l) => Room(m, l)
                           /\ Ends(m, l)'
  PROVE  Chain(l)'
<1>1. PICK N, f :
         /\ N \in Nat /\ f \in [1..(N + 1) -> Nat]
         /\ N = Len(toPage) /\ DOMAIN toPage = 1..N
         /\ f[1] = Shown(l)
         /\ \A i \in 1..(N + 1) : Room(f[i], l)
         /\ \A i \in 1..N : Follows(toPage[i], f[i], f[i + 1], l)
         /\ Ends(f[N + 1], l)
  BY ChainOpened
<1>2. PICK m \in Nat : /\ Follows(r, f[N + 1], m, l)
                       /\ Room(f[N + 1], l) => Room(m, l)
                       /\ Ends(m, l)'
  <2>1. PICK n \in Nat : n = f[N + 1] /\ Ends(n, l)
    BY <1>1
  <2> QED BY <2>1
<1> DEFINE g == [i \in 1..(N + 2) |-> IF i = N + 2 THEN m ELSE f[i]]
<1>3. /\ g \in [1..(N + 2) -> Nat] /\ g[1] = f[1] /\ g[N + 2] = m
      /\ \A i \in 1..(N + 1) : g[i] = f[i]
  BY <1>1
<1> HIDE DEF g
<1>4. /\ Len(toPage') = N + 1 /\ DOMAIN toPage' = 1..(N + 1)
      /\ \A i \in 1..N : toPage'[i] = toPage[i]
      /\ toPage'[N + 1] = r
  BY <1>1, Appended
<1>5. \A x, n, k : /\ Follows(x, n, k, l)' <=> Follows(x, n, k, l)
                   /\ Room(n, l)' <=> Room(n, l)
  BY DEF Follows, KeyedTo, ShownEpoch, Room, SameShown
<1>6. (g[1] = Shown(l))'
  BY <1>1, <1>3 DEF Shown, SameShown
<1>7. (\A i \in 1..(N + 2) : Room(g[i], l))'
  <2>1. ASSUME NEW i \in 1..(N + 2) PROVE Room(g[i], l)
    <3>1. Room(f[N + 1], l)
      BY <1>1
    <3>2. CASE i = N + 2
      BY <1>2, <1>3, <3>1, <3>2
    <3>3. CASE i # N + 2
      <4>1. i \in 1..(N + 1)
        BY <1>1, <3>3
      <4>2. g[i] = f[i]
        BY <1>3, <4>1
      <4> QED BY <1>1, <4>1, <4>2
    <3> QED BY <3>2, <3>3
  <2> QED BY <1>5, <2>1
<1>8. (\A i \in 1..(N + 1) : Follows(toPage[i], g[i], g[i + 1], l))'
  <2>1. ASSUME NEW i \in 1..(N + 1) PROVE Follows(toPage'[i], g[i], g[i + 1], l)
    <3>1. CASE i = N + 1
      <4>1. g[i] = f[N + 1] /\ g[i + 1] = m /\ toPage'[i] = r
        <5>1. i \in 1..(N + 1) /\ i + 1 = N + 2
          BY <1>1, <3>1
        <5> QED BY <1>3, <1>4, <3>1, <5>1
      <4> QED BY <1>2, <4>1
    <3>2. CASE i # N + 1
      <4>1. i \in 1..N /\ i \in 1..(N + 1) /\ i + 1 \in 1..(N + 1)
        BY <1>1, <3>2
      <4> QED BY <1>1, <1>3, <1>4, <4>1
    <3> QED BY <3>1, <3>2
  <2> QED BY <1>5, <2>1
<1>9. Ends(g[N + 2], l)'
  BY <1>2, <1>3
<1> DEFINE M == N + 1
<1>10. M \in Nat /\ N + 2 = M + 1
  BY <1>1
<1> HIDE DEF M
<1> QED BY <1>3, <1>4, <1>6, <1>7, <1>8, <1>9, <1>10, ChainClosed DEF M

(* As the page takes the oldest reply.                                      *)
LEMMA ChainShifts ==
  ASSUME IsSeq(toPage), NEW l \in Legs, Chain(l), toPage # <<>>, toPage' = Tail(toPage),
         gen' = gen, ShownEpoch(l)' = ShownEpoch(l),
         \A n \in Nat : Room(n, l) => Room(n, l)',
         \A n \in Nat : Ends(n, l) => Ends(n, l)',
         \A m \in Nat : Follows(Head(toPage), Shown(l), m, l) => m = Shown(l)'
  PROVE  Chain(l)'
<1>1. PICK N, f :
         /\ N \in Nat /\ f \in [1..(N + 1) -> Nat]
         /\ N = Len(toPage) /\ DOMAIN toPage = 1..N
         /\ f[1] = Shown(l)
         /\ \A i \in 1..(N + 1) : Room(f[i], l)
         /\ \A i \in 1..N : Follows(toPage[i], f[i], f[i + 1], l)
         /\ Ends(f[N + 1], l)
  BY ChainOpened
<1>2. /\ N # 0 /\ Head(toPage) = toPage[1] /\ DOMAIN toPage' = 1..(N - 1)
      /\ Len(toPage') = N - 1
      /\ \A i \in 1..(N - 1) : toPage'[i] = toPage[i + 1]
  <2>1. /\ Len(toPage) \in Nat \ {0} /\ Head(toPage) = toPage[1]
        /\ DOMAIN Tail(toPage) = 1..(Len(toPage) - 1)
        /\ \A i \in DOMAIN Tail(toPage) : Tail(toPage)[i] = toPage[i + 1]
    BY Taken
  <2>2. Len(Tail(toPage)) = Len(toPage) - 1
    BY HeadTailProperties DEF IsSeq
  <2> QED BY <1>1, <2>1, <2>2
<1> DEFINE M == N - 1
           g == [i \in 1..N |-> f[i + 1]]
<1>3. M \in Nat /\ M + 1 = N
  BY <1>1, <1>2
<1>4. /\ g \in [1..N -> Nat] /\ g[1] = f[2] /\ g[N] = f[N + 1]
      /\ \A i \in 1..N : g[i] = f[i + 1] /\ i + 1 \in 1..(N + 1)
  BY <1>1, <1>2
<1> HIDE DEF g
<1>5. \A x, n, k : Follows(x, n, k, l)' <=> Follows(x, n, k, l)
  BY DEF Follows, KeyedTo
<1>6. (g[1] = Shown(l))'
  <2>1. f[2] \in Nat /\ Follows(toPage[1], f[1], f[2], l)
    BY <1>1, <1>2
  <2> QED BY <1>1, <1>2, <1>4, <2>1
<1>7. (\A i \in 1..N : Room(g[i], l))'
  <2>1. ASSUME NEW i \in 1..N PROVE Room(g[i], l)'
    <3>1. g[i] = f[i + 1] /\ i + 1 \in 1..(N + 1) /\ f[i + 1] \in Nat
      BY <1>4
    <3> QED BY <1>1, <3>1
  <2> QED BY <2>1
<1>8. (\A i \in 1..(N - 1) : Follows(toPage[i], g[i], g[i + 1], l))'
  <2>1. ASSUME NEW i \in 1..(N - 1) PROVE Follows(toPage'[i], g[i], g[i + 1], l)
    <3>1. i + 1 \in 1..N /\ i \in 1..N
      BY <1>1, <1>2
    <3>2. g[i] = f[i + 1] /\ g[i + 1] = f[i + 1 + 1]
      BY <1>4, <3>1
    <3> QED BY <1>1, <1>2, <3>1, <3>2
  <2> QED BY <1>5, <2>1
<1>9. Ends(g[N], l)'
  BY <1>1, <1>2, <1>4
<1> HIDE DEF M
<1> QED BY <1>2, <1>3, <1>4, <1>6, <1>7, <1>8, <1>9, ChainClosed DEF M

(* As a leg has none of the replies to come.                                *)
LEMMA ChainRestarts ==
  ASSUME NEW l \in Legs, NEW n \in Nat, IsSeq(toPage'),
         (Shown(l) = n /\ Room(n, l) /\ Ends(n, l))',
         (\A i \in DOMAIN toPage : ~KeyedTo(toPage[i], l))'
  PROVE  Chain(l)'
<1> DEFINE N == Len(toPage')
           g == [i \in 1..(N + 1) |-> n]
<1>1. N \in Nat /\ DOMAIN toPage' = 1..N
  BY DEF IsSeq
<1>2. PICK M \in Nat : M = N
  BY <1>1
<1>3. /\ g \in [1..(M + 1) -> Nat] /\ \A i \in 1..(M + 1) : g[i] = n
  BY <1>2
<1> HIDE DEF g
<1>4. PICK h \in [1..(M + 1) -> Nat] : \A i \in 1..(M + 1) : h[i] = n
  BY <1>3
<1>5. h[1] = n /\ h[M + 1] = n /\ \A i \in 1..M : h[i] = n /\ h[i + 1] = n
  BY <1>4
<1>6. (\A i \in 1..M : Follows(toPage[i], h[i], h[i + 1], l))'
  BY <1>1, <1>2, <1>5 DEF Follows
<1>7. (\A i \in 1..(M + 1) : Room(h[i], l))'
  BY <1>4
<1> QED BY <1>1, <1>2, <1>5, <1>6, <1>7, ChainClosed

-----------------------------------------------------------------------------
(* What is live goes on being recorded, or is dropped.                      *)
LegsGoOn ==
    live' # NoLive =>
        /\ live # NoLive /\ live'.gen = live.gen /\ epoch' = epoch
        /\ \A l \in Legs : FillOver(l) => FillOver(l)'

(* A first fill that is over stays so.                                      *)
LEMMA FillStays ==
  ASSUME SameFlight, live' # NoLive, NEW l \in Legs, OverIn(suspended', recorded'[l], l)
  PROVE  FillOver(l)'
<1>1. live # NoLive /\ live'.gen = live.gen /\ epoch' = epoch
  BY DEF SameFlight
<1> QED BY <1>1 DEF FillOver, OverIn, Flies, Owns

LEMMA GoesOnLegs == GoesOn => LegsGoOn
<1> SUFFICES ASSUME GoesOn, live' # NoLive
             PROVE  /\ live # NoLive /\ live'.gen = live.gen /\ epoch' = epoch
                    /\ \A l \in Legs : FillOver(l) => FillOver(l)'
  BY DEF LegsGoOn
<1> QED BY FillStays DEF GoesOn, SameFlight

(* A step that leaves the worker's calls and books alone.                   *)
LEMMA LegsUntouched ==
  ASSUME UNCHANGED <<live, epoch, recorded, suspended>> PROVE LegsGoOn
BY DEF LegsGoOn, FillOver, OverIn, Flies, Owns

(* The requests left are d places further up, and no others but builds.     *)
RequestsFrom(d) ==
    \A i \in DOMAIN toWorker' :
        \/ toWorker'[i].kind = "build"
        \/ i + d \in DOMAIN toWorker /\ toWorker'[i] = toWorker[i + d]

(* Moving up keeps an order.                                                *)
LEMMA SameShift ==
  ASSUME NEW i \in Int, NEW j \in Int, NEW d \in Int
  PROVE  (i + d = j + d => i = j) /\ (i + d < j + d => i < j)
OBVIOUS

(* The same of those for leg l of what is live.                             *)
RequestsOf(d, l) ==
    \A i \in DOMAIN toWorker' :
        \/ toWorker'[i].kind = "build" \/ toWorker'[i].gen # live.gen
        \/ toWorker'[i].leg # l
        \/ i + d \in DOMAIN toWorker /\ toWorker'[i] = toWorker[i + d]

(* They fit as they did: leg l's, and all.                                  *)
LEMMA RequestsStayFitOf ==
  ASSUME NEW l \in Legs, RequestFits(l), IsSeq(toWorker), IsSeq(toWorker'), NEW d \in Int,
         RequestsOf(d, l), live # NoLive, live'.gen = live.gen, epoch'[l] = epoch[l],
         FillOver(l) => FillOver(l)'
  PROVE  RequestFits(l)'
<1>1. DOMAIN toWorker \subseteq Int /\ DOMAIN toWorker' \subseteq Int
  BY DEF IsSeq
<1>2. ASSUME NEW i \in DOMAIN toWorker', OfLive(i)', toWorker'[i].leg = l
      PROVE  /\ i + d \in DOMAIN toWorker /\ toWorker'[i] = toWorker[i + d]
             /\ OfLive(i + d)
  BY <1>2 DEF RequestsOf, OfLive
<1>3. ASSUME NEW i \in DOMAIN toWorker', Extends(i, l)'
      PROVE  /\ i + d \in DOMAIN toWorker /\ toWorker'[i] = toWorker[i + d]
             /\ Extends(i + d, l)
  BY <1>2, <1>3 DEF Extends
<1>4. ASSUME NEW i \in DOMAIN toWorker', Rewinds(i, l)'
      PROVE  /\ i + d \in DOMAIN toWorker /\ toWorker'[i] = toWorker[i + d]
             /\ Rewinds(i + d, l)
  BY <1>2, <1>4 DEF Rewinds
<1>5. ASSUME NEW i \in DOMAIN toWorker', Extends(i, l)'
      PROVE  /\ FillOver(l)' /\ toWorker'[i].epoch = epoch'[l]
             /\ \A j \in DOMAIN toWorker' : Rewinds(j, l)' => i < j
  <2>1. FillOver(l)' /\ toWorker'[i].epoch = epoch'[l]
    BY <1>3, <1>5 DEF RequestFits
  <2>2. ASSUME NEW j \in DOMAIN toWorker', Rewinds(j, l)' PROVE i < j
    <3>1. i + d < j + d
      BY <1>3, <1>4, <1>5, <2>2 DEF RequestFits
    <3>2. i \in Int /\ j \in Int
      BY <1>1, <1>5, <2>2
    <3> QED BY <3>1, <3>2, SameShift
  <2> QED BY <2>1, <2>2
<1>6. ASSUME NEW i \in DOMAIN toWorker', Rewinds(i, l)'
      PROVE  /\ FillOver(l)' /\ toWorker'[i].epoch = epoch'[l] + 1
             /\ \A j \in DOMAIN toWorker' : Rewinds(j, l)' => i = j
  <2>1. FillOver(l)' /\ toWorker'[i].epoch = epoch'[l] + 1
    BY <1>4, <1>6 DEF RequestFits
  <2>2. ASSUME NEW j \in DOMAIN toWorker', Rewinds(j, l)' PROVE i = j
    <3>1. i + d = j + d
      BY <1>4, <1>6, <2>2 DEF RequestFits
    <3>2. i \in Int /\ j \in Int
      BY <1>1, <1>6, <2>2
    <3> QED BY <3>1, <3>2, SameShift
  <2> QED BY <2>1, <2>2
<1> QED BY <1>5, <1>6 DEF RequestFits

LEMMA RequestsStayFit ==
  ASSUME RequestsFit, LegsGoOn, IsSeq(toWorker), IsSeq(toWorker'), NEW d \in Int,
         RequestsFrom(d)
  PROVE  RequestsFit'
<1> SUFFICES ASSUME live' # NoLive, NEW l \in Legs PROVE RequestFits(l)'
  BY DEF RequestsFit
<1>1. RequestsOf(d, l)
  BY DEF RequestsOf, RequestsFrom
<1> QED BY <1>1, RequestsStayFitOf DEF LegsGoOn, RequestsFit

(* And are of builds taken up as they were.                                 *)
LEMMA RequestsStayOld ==
  ASSUME RequestsOld, StillOld, UNCHANGED <<gen, awaitingRun>>, NEW d \in Int,
         RequestsFrom(d)
  PROVE  RequestsOld'
<1>1. ASSUME NEW i \in DOMAIN toWorker', toWorker'[i].kind # "build"
      PROVE  i + d \in DOMAIN toWorker /\ toWorker'[i] = toWorker[i + d]
  BY <1>1 DEF RequestsFrom
<1>2. ASSUME NEW i \in DOMAIN toWorker', toWorker'[i].kind # "build", NEW g,
             g = toWorker'[i].gen
      PROVE  Old(g)' /\ (awaitingRun => g < gen)
  <2>1. Old(g) /\ (awaitingRun => g < gen)
    BY <1>1, <1>2 DEF RequestsOld
  <2> QED BY <2>1 DEF StillOld
<1> QED BY <1>2 DEF RequestsOld

(* Requests that stay, and those that stay when the oldest is taken.        *)
LEMMA RequestsUntouched == IsSeq(toWorker) /\ toWorker' = toWorker => RequestsFrom(0)
BY DEF RequestsFrom, IsSeq

LEMMA RequestsShifted ==
  IsSeq(toWorker) /\ toWorker # <<>> /\ toWorker' = Tail(toWorker) => RequestsFrom(1)
BY Taken DEF RequestsFrom

-----------------------------------------------------------------------------
(* Calls that go on, and continues: what they tell the page.                *)

(* The replies after a call has told one, r, or none.                       *)
TellsOf(r) == Owns(r.gen) /\ (TellsFrames(r) \/ TellsReading(r) \/ TellsError(r))

LEMMA TellsOne ==
  ASSUME IsSeq(toPage), Tells, toPage' # toPage \/ recorded' # recorded
  PROVE  \E r : /\ TellsOf(r) /\ toPage' = Append(toPage, r) /\ r.kind # "compiled"
                /\ DOMAIN toPage \subseteq Int /\ IsSeq(toPage')
                /\ \A i \in DOMAIN toPage : i \in DOMAIN toPage' /\ toPage'[i] = toPage[i]
                /\ \A i \in DOMAIN toPage' :
                      \/ i \in DOMAIN toPage /\ toPage'[i] = toPage[i]
                      \/ /\ i = Len(toPage) + 1 /\ toPage'[i] = r
                         /\ \A j \in DOMAIN toPage' : j <= i
<1>1. PICK r : TellsOf(r) /\ toPage' = Append(toPage, r)
  BY DEF Tells, TellsOf
<1>2. r.kind # "compiled"
  BY <1>1 DEF TellsOf, TellsFrames, TellsReading, TellsError
<1>3. /\ IsSeq(toPage') /\ DOMAIN toPage = 1..Len(toPage) /\ Len(toPage) \in Nat
      /\ DOMAIN toPage' = 1..(Len(toPage) + 1)
      /\ \A i \in DOMAIN toPage : toPage'[i] = toPage[i]
      /\ toPage'[Len(toPage) + 1] = r
  BY <1>1, Appended
<1>4. \A i \in DOMAIN toPage : i \in DOMAIN toPage' /\ toPage'[i] = toPage[i]
  BY <1>3
<1>5. \A i \in DOMAIN toPage' :
         \/ i \in DOMAIN toPage /\ toPage'[i] = toPage[i]
         \/ /\ i = Len(toPage) + 1 /\ toPage'[i] = r
            /\ \A j \in DOMAIN toPage' : j <= i
  BY <1>3
<1>6. DOMAIN toPage \subseteq Int
  BY <1>3
<1> QED BY <1>1, <1>2, <1>3, <1>4, <1>5, <1>6

(* What is told comes after the build's compiled reply, an error last.      *)
LEMMA TellsInOrder ==
  ASSUME IsSeq(toPage), ReplyOrder, Unheard, LegsGoOn, UNCHANGED <<gen, awaitingRun>>, Tells
  PROVE  ReplyOrder'
<1>1. Owns(gen)' => Owns(gen)
  BY DEF LegsGoOn, Owns
<1>2. CASE toPage' = toPage
  BY <1>1, <1>2 DEF ReplyOrder, OfGen, Opens, Closes
<1>3. CASE toPage' # toPage
  <2>1. PICK r : /\ TellsOf(r) /\ toPage' = Append(toPage, r) /\ r.kind # "compiled"
                 /\ DOMAIN toPage \subseteq Int /\ IsSeq(toPage')
                 /\ \A i \in DOMAIN toPage : i \in DOMAIN toPage' /\ toPage'[i] = toPage[i]
                 /\ \A i \in DOMAIN toPage' :
                       \/ i \in DOMAIN toPage /\ toPage'[i] = toPage[i]
                       \/ /\ i = Len(toPage) + 1 /\ toPage'[i] = r
                          /\ \A j \in DOMAIN toPage' : j <= i
    BY <1>3, TellsOne
  <2>2. \A i \in DOMAIN toPage : /\ OfGen(i)' <=> OfGen(i)
                                 /\ Opens(i)' <=> Opens(i)
                                 /\ Closes(i)' <=> Closes(i)
    BY <2>1 DEF OfGen, Opens, Closes
  <2>3. ASSUME NEW i \in DOMAIN toPage', i \notin DOMAIN toPage
        PROVE  /\ \A j \in DOMAIN toPage' : j <= i
               /\ OfGen(i)' => Owns(gen) /\ \A j \in DOMAIN toPage : ~Closes(j)
               /\ ~Opens(i)'
               /\ Closes(i)' => ~Owns(gen)'
    <3>1. toPage'[i] = r /\ \A j \in DOMAIN toPage' : j <= i
      BY <2>1, <2>3
    <3>2. OfGen(i)' => Owns(gen)
      BY <2>1, <3>1 DEF OfGen, TellsOf
    <3>3. Owns(gen) => \A j \in DOMAIN toPage : ~Closes(j)
      BY DEF ReplyOrder
    <3>4. ~Opens(i)'
      BY <2>1, <3>1 DEF Opens
    <3>5. Closes(i)' => live' = NoLive
      BY <2>1, <3>1 DEF Closes, TellsOf, TellsFrames, TellsReading, TellsError
    <3> QED BY <3>1, <3>2, <3>3, <3>4, <3>5 DEF Owns
  <2>4. ASSUME NEW i \in DOMAIN toPage', NEW j \in DOMAIN toPage', Opens(i)', OfGen(j)'
        PROVE  i <= j
    <3>1. i \in DOMAIN toPage /\ i \in DOMAIN toPage'
      BY <2>3, <2>4
    <3>2. CASE j \in DOMAIN toPage
      BY <2>2, <2>4, <3>1, <3>2 DEF ReplyOrder
    <3>3. CASE j \notin DOMAIN toPage
      BY <2>3, <3>1, <3>3
    <3> QED BY <3>2, <3>3
  <2>5. ASSUME NEW i \in DOMAIN toPage', NEW j \in DOMAIN toPage', OfGen(i)', Closes(j)'
        PROVE  i <= j
    <3>1. CASE j \notin DOMAIN toPage
      BY <2>3, <3>1
    <3>2. CASE j \in DOMAIN toPage
      <4>1. i \in DOMAIN toPage
        BY <2>2, <2>3, <2>5, <3>2
      <4> QED BY <2>2, <2>5, <3>2, <4>1 DEF ReplyOrder
    <3> QED BY <3>1, <3>2
  <2>6. ASSUME NEW i \in DOMAIN toPage', Closes(i)' PROVE ~Owns(gen)'
    <3>1. CASE i \in DOMAIN toPage
      BY <1>1, <2>2, <2>6, <3>1 DEF ReplyOrder
    <3>2. CASE i \notin DOMAIN toPage
      BY <2>3, <2>6, <3>2
    <3> QED BY <3>1, <3>2
  <2>7. ASSUME NEW i \in DOMAIN toPage', Opens(i)' PROVE awaitingRun'
    BY <2>2, <2>3, <2>7 DEF ReplyOrder
  <2>8. ASSUME awaitingRun', NEW i \in DOMAIN toPage', OfGen(i)'
        PROVE  Closes(i)' \/ \E j \in DOMAIN toPage' : Opens(j)'
    <3>1. CASE i \in DOMAIN toPage
      <4>1. Closes(i) \/ \E j \in DOMAIN toPage : Opens(j)
        BY <2>2, <2>8, <3>1 DEF ReplyOrder
      <4> QED BY <2>1, <2>2, <3>1, <4>1
    <3>2. CASE i \notin DOMAIN toPage
      <4>1. \E j \in DOMAIN toPage : Opens(j)
        BY <2>3, <2>8, <3>2 DEF Unheard
      <4> QED BY <2>1, <2>2, <4>1
    <3> QED BY <3>1, <3>2
  <2> QED BY <2>4, <2>5, <2>6, <2>7, <2>8 DEF ReplyOrder
<1> QED BY <1>2, <1>3

(* A continue of the page's is counted when its allowance is raised.        *)
AllowancesKept ==
    live' # NoLive /\ Owns(gen) =>
        \A l \in Legs :
            \/ allowance'[l] = allowance[l]
            \/ ~awaitingRun /\ (legEpoch[l] = epoch[l] => continues[l] > 0)

LEMMA TellsUnheard ==
  ASSUME IsSeq(toPage), Unheard, LegsGoOn, AllowancesKept, Tells,
         UNCHANGED <<gen, awaitingRun>>
  PROVE  Unheard'
<1> SUFFICES ASSUME awaitingRun, Owns(gen)'
             PROVE  /\ \E i \in DOMAIN toPage' : Opens(i)'
                    /\ \A l \in Legs : epoch'[l] = 0 /\ allowance'[l] = History
  BY DEF Unheard
<1>1. /\ live' # NoLive /\ Owns(gen) /\ epoch' = epoch
      /\ \A l \in Legs : allowance'[l] = allowance[l]
  BY DEF LegsGoOn, Owns, AllowancesKept
<1>2. \A i \in DOMAIN toPage : i \in DOMAIN toPage' /\ toPage'[i] = toPage[i]
  BY TellsOne
<1>3. PICK i \in DOMAIN toPage : Opens(i)
  BY <1>1 DEF Unheard
<1>4. i \in DOMAIN toPage' /\ Opens(i)'
  BY <1>2, <1>3 DEF Opens, OfGen
<1> QED BY <1>1, <1>4 DEF Unheard

(* Frames fit the reply they are in.                                        *)
LEMMA TellsFit ==
  ASSUME SessionInv, Unheard, FramesFit, Sync, LegsGoOn, Tells, SameFlight,
         UNCHANGED <<gen, awaitingRun, legEpoch>>
  PROVE  FramesFit'
<1>1. ASSUME NEW r, FrameFits(r), r.leg \in Legs PROVE FrameFits(r)'
  BY <1>1 DEF FrameFits, ShownEpoch, LegsGoOn, Owns
<1>2. \A i \in DOMAIN toPage : IsReply(toPage[i]) /\ IsSeq(toPage)
  BY DEF SessionInv, RepliesTyped
<1>3. CASE toPage' = toPage
  <2> SUFFICES ASSUME NEW i \in DOMAIN toPage, NEW r, r = toPage[i], r.gen = gen,
                      r.kind = "frames"
               PROVE  FrameFits(r)'
    BY <1>3 DEF FramesFit, OfGen
  <2>1. FrameFits(r) /\ r.leg \in Legs
    BY <1>2 DEF FramesFit, OfGen, IsReply
  <2> QED BY <1>1, <2>1
<1>4. CASE toPage' # toPage
  <2>0. IsSeq(toPage)
    BY DEF SessionInv, RepliesTyped
  <2>1. PICK r : /\ TellsOf(r) /\ toPage' = Append(toPage, r)
                 /\ \A i \in DOMAIN toPage' :
                       \/ i \in DOMAIN toPage /\ toPage'[i] = toPage[i]
                       \/ toPage'[i] = r
    BY <1>4, <2>0, TellsOne
  <2>2. ASSUME r.gen = gen, r.kind = "frames" PROVE FrameFits(r)'
    <3>1. TellsFrames(r) /\ Owns(gen)
      BY <2>1, <2>2 DEF TellsOf, TellsReading, TellsError
    <3>2. /\ r.leg \in Legs /\ r.epoch = epoch[r.leg] /\ live' # NoLive
          /\ r.done # NotDone => OverIn(suspended', recorded'[r.leg], r.leg)
          /\ \A k \in DOMAIN r.frames :
                r.frames[k] = [gen |-> r.gen, lap |-> r.epoch,
                               step |-> recorded[r.leg] + k - 1]
      BY <3>1 DEF TellsFrames
    <3>3. epoch' = epoch /\ epoch[r.leg] \in Nat /\ epoch'[r.leg] = r.epoch
      <4>1. epoch[r.leg] \in 0..MaxEpoch
        BY <3>2 DEF SessionInv, CallInv, CallsFit, CallTypes
      <4> QED BY <3>2, <4>1 DEF LegsGoOn
    <3>4. r.epoch <= ShownEpoch(r.leg)
      <4>1. CASE awaitingRun
        BY <3>1, <3>2, <4>1 DEF Unheard, ShownEpoch
      <4>2. CASE ~awaitingRun
        <5>1. Synced(r.leg)
          BY <3>1, <3>2, <4>2 DEF Sync
        <5>2. legEpoch[r.leg] = epoch[r.leg] \/ legEpoch[r.leg] = epoch[r.leg] + 1
          BY <5>1 DEF Synced
        <5> QED BY <3>2, <3>3, <4>2, <5>2 DEF ShownEpoch
      <4> QED BY <4>1, <4>2
    <3>5. r.done # NotDone => FillOver(r.leg)'
      BY <3>2, FillStays
    <3>6. r.epoch <= ShownEpoch(r.leg)'
      BY <3>4 DEF ShownEpoch
    <3>7. ASSUME NEW k \in DOMAIN r.frames
          PROVE  r.frames[k].gen = r.gen /\ r.frames[k].lap = r.epoch
      <4>1. r.frames[k] = [gen |-> r.gen, lap |-> r.epoch, step |-> recorded[r.leg] + k - 1]
        BY <3>2
      <4> HIDE <3>2
      <4> QED BY <4>1
    <3>8. r.epoch <= epoch'[r.leg]
      <4>1. epoch'[r.leg] \in Nat
        BY <3>3
      <4> HIDE <3>2, <3>4, <3>6
      <4> QED BY <3>3, <4>1
    <3> QED BY <3>5, <3>6, <3>7, <3>8 DEF FrameFits
  <2>3. ASSUME NEW i \in DOMAIN toPage', NEW x, x = toPage'[i], x.gen = gen,
               x.kind = "frames"
        PROVE  FrameFits(x)'
    <3>1. CASE i \in DOMAIN toPage /\ toPage'[i] = toPage[i]
      <4>1. FrameFits(x) /\ x.leg \in Legs
        BY <1>2, <2>3, <3>1 DEF FramesFit, OfGen, IsReply
      <4> QED BY <1>1, <4>1
    <3>2. CASE x = r
      BY <2>2, <2>3, <3>2
    <3> QED BY <2>1, <2>3, <3>1, <3>2
  <2> QED BY <2>3 DEF FramesFit, OfGen
<1> QED BY <1>3, <1>4

(* Frames told go on where those told before them ended.                    *)
LEMMA TellsOn ==
  ASSUME SessionInv, SessionInv', Unheard, Sync, LegsGoOn, NEW l \in Legs, NEW r, TellsOf(r),
         SameShown, IsReply(r), KeyedTo(r, l), NEW n \in Nat, Ends(n, l)
  PROVE  \E m \in Nat : Follows(r, n, m, l) /\ Room(m, l) /\ Ends(m, l)'
<1>1. r.kind = "frames" /\ r.gen = gen /\ r.leg = l /\ r.epoch = ShownEpoch(l)
  BY DEF KeyedTo
<1>2. TellsFrames(r) /\ Owns(gen) /\ epoch[l] = ShownEpoch(l)
  BY <1>1 DEF TellsOf, TellsReading, TellsError, TellsFrames
<1>3. n = recorded[l]
  BY <1>2 DEF Ends
<1>4. /\ recorded' = [recorded EXCEPT ![l] = @ + Len(r.frames)]
      /\ recorded'[l] <= allowance[l]
      /\ \A k \in DOMAIN r.frames :
            r.frames[k] = [gen |-> r.gen, lap |-> r.epoch, step |-> recorded[l] + k - 1]
  BY <1>1, <1>2 DEF TellsFrames
<1>5. /\ recorded \in [Legs -> Nat] /\ recorded'[l] \in Nat
      /\ Len(r.frames) \in Nat /\ allowance[l] \in Nat /\ History \in Nat
  <2>1. recorded \in [Legs -> Nat] /\ allowance \in [Legs -> Nat]
    BY DEF SessionInv, CallInv, CallsFit, CallTypes
  <2>2. (recorded \in [Legs -> Nat])'
    BY DEF SessionInv, CallInv, CallsFit, CallTypes
  <2>3. r.frames \in Seq(FrameType)
    BY <1>1 DEF IsReply
  <2> QED BY <2>1, <2>2, <2>3, ProtocolAssumption
<1>6. recorded'[l] = n + Len(r.frames)
  BY <1>3, <1>4, <1>5
<1>7. allowance[l] = History \/ (~awaitingRun /\ continues[l] > 0)
  <2>1. CASE awaitingRun
    BY <1>2, <2>1 DEF Unheard
  <2>2. CASE ~awaitingRun
    BY <1>2, <2>2 DEF Sync, Synced, ShownEpoch
  <2> QED BY <2>1, <2>2
<1>8. Room(recorded'[l], l)
  <2>1. continues[l] > 0 => continues[l] # 0
    OBVIOUS
  <2> QED BY <1>4, <1>5, <1>7, <2>1 DEF Room
<1>9. ASSUME NEW k \in DOMAIN r.frames PROVE r.frames[k].step = n + k - 1
  <2>1. r.frames[k] = [gen |-> r.gen, lap |-> r.epoch, step |-> recorded[l] + k - 1]
    BY <1>4
  <2> HIDE <1>4
  <2> QED BY <1>3, <2>1
<1>10. Follows(r, n, recorded'[l], l)
  BY <1>6, <1>9 DEF Follows
<1>11. PICK m \in Nat : m = recorded'[l]
  BY <1>5
<1>12. Ends(m, l)'
  BY <1>11 DEF Ends
<1>13. Follows(r, n, m, l) /\ Room(m, l)
  BY <1>8, <1>10, <1>11
<1> QED BY <1>11, <1>12, <1>13

(* The counts of a leg's frames on their way.                               *)
LEMMA TellsChain ==
  ASSUME SessionInv, SessionInv', Unheard, Sync, LegsGoOn, Tells, SameShown,
         NEW l \in Legs, Chain(l)
  PROVE  Chain(l)'
<1>0. IsSeq(toPage) /\ ShownEpoch(l)' = ShownEpoch(l) /\ Shown(l)' = Shown(l)
  BY DEF SessionInv, RepliesTyped, SameShown, ShownEpoch, Shown
<1>1. ASSUME NEW n \in Nat, Ends(n, l), recorded'[l] = recorded[l] PROVE Ends(n, l)'
  <2>1. Owns(gen)' => Owns(gen) /\ epoch' = epoch
    BY DEF LegsGoOn, Owns, SameShown
  <2> QED BY <1>0, <1>1, <2>1 DEF Ends
<1>2. CASE toPage' = toPage /\ recorded' = recorded
  <2>1. \A n \in Nat : Room(n, l) => Room(n, l)'
    BY DEF Room, SameShown
  <2>2. UNCHANGED <<gen, awaitingRun>>
    BY DEF SameShown
  <2> QED BY <1>0, <1>1, <1>2, <2>1, <2>2, ChainStays
<1>3. CASE ~(toPage' = toPage /\ recorded' = recorded)
  <2>1. PICK r : TellsOf(r) /\ toPage' = Append(toPage, r)
    BY <1>0, <1>3, TellsOne
  <2>2. IsReply(r)
    <3>1. IsSeq(toPage') /\ \A i \in DOMAIN toPage' : IsReply(toPage'[i])
      BY DEF SessionInv, RepliesTyped, IsReply
    <3>2. Len(toPage) + 1 \in DOMAIN toPage' /\ toPage'[Len(toPage) + 1] = r
      BY <1>0, <2>1, Appended
    <3> QED BY <3>1, <3>2
  <2>3. ASSUME NEW n \in Nat, Ends(n, l)
        PROVE  \E m \in Nat : /\ Follows(r, n, m, l)
                              /\ Room(n, l) => Room(m, l)
                              /\ Ends(m, l)'
    <3>1. CASE KeyedTo(r, l)
      BY <2>1, <2>2, <2>3, <3>1, TellsOn
    <3>2. CASE ~KeyedTo(r, l)
      <4>1. Follows(r, n, n, l)
        BY <3>2 DEF Follows
      <4>2. CASE live' = NoLive
        BY <4>1, <4>2 DEF Ends, Owns
      <4>3. CASE live' # NoLive /\ recorded'[l] = recorded[l]
        BY <1>1, <2>3, <4>1, <4>3
      <4>4. CASE live' # NoLive /\ recorded'[l] # recorded[l]
        <5>1. TellsFrames(r)
          BY <2>1, <4>4 DEF TellsOf, TellsReading, TellsError
        <5>2. r.leg = l
          <6>1. recorded \in [Legs -> Nat]
            BY DEF SessionInv, CallInv, CallsFit, CallTypes
          <6> QED BY <4>4, <5>1, <6>1 DEF TellsFrames
        <5>3. ~(Owns(gen) /\ epoch[l] = ShownEpoch(l))
          BY <2>1, <3>2, <5>1, <5>2 DEF KeyedTo, TellsOf, TellsFrames, Owns
        <5>4. ~(Owns(gen) /\ epoch[l] = ShownEpoch(l))'
          BY <1>0, <4>4, <5>3 DEF LegsGoOn, Owns, SameShown
        <5> QED BY <4>1, <5>4 DEF Ends
      <4> QED BY <4>2, <4>3, <4>4
    <3> QED BY <3>1, <3>2
  <2> QED BY <1>0, <2>1, <2>3, ChainGrows
<1> QED BY <1>2, <1>3

(* What the page shows keeps in step with what is recorded: of leg l, and   *)
(* of all.                                                                  *)
LEMMA SyncedOn ==
  ASSUME NEW l \in Legs, Synced(l), NEW d, RequestsOf(d, l),
         UNCHANGED <<legEpoch[l], ring[l], done[l], continues[l]>>,
         live'.gen = live.gen, epoch'[l] = epoch[l], FillOver(l) => FillOver(l)',
         allowance'[l] = allowance[l] \/ (legEpoch[l] = epoch[l] => continues[l] > 0)
  PROVE  Synced(l)'
<1>1. UNCHANGED <<legEpoch[l], ring[l], done[l], continues[l]>>
  OBVIOUS
<1>2. ASSUME NEW i \in DOMAIN toWorker', OfLive(i)', toWorker'[i].leg = l
      PROVE  i + d \in DOMAIN toWorker /\ toWorker'[i] = toWorker[i + d] /\ OfLive(i + d)
  BY <1>2 DEF RequestsOf, OfLive
<1>3. \A i \in DOMAIN toWorker' : Rewinds(i, l)' => \E j \in DOMAIN toWorker : Rewinds(j, l)
  BY <1>2 DEF Rewinds
<1>4. \A i \in DOMAIN toWorker' : Extends(i, l)' => \E j \in DOMAIN toWorker : Extends(j, l)
  BY <1>2 DEF Extends
<1>5. \/ legEpoch[l] = epoch[l] /\ \A i \in DOMAIN toWorker' : ~Rewinds(i, l)'
      \/ /\ legEpoch[l] = epoch[l] + 1
         /\ ring[l] = EmptyRing /\ done[l] = NotDone /\ continues[l] = 0
  BY <1>3 DEF Synced
<1>6. done[l] # NotDone \/ continues[l] > 0 => FillOver(l)'
  BY DEF Synced
<1>7. /\ legEpoch[l] = epoch[l]
      /\ allowance'[l] # History \/ \E i \in DOMAIN toWorker' : Extends(i, l)'
      => continues[l] > 0
  BY <1>4 DEF Synced
<1> QED BY <1>1, <1>5, <1>6, <1>7 DEF Synced, EmptyRing

LEMMA TellsSync ==
  ASSUME Sync, LegsGoOn, AllowancesKept, SameShown, done' = done, NEW d, RequestsFrom(d)
  PROVE  Sync'
<1> SUFFICES ASSUME Owns(gen)', ~awaitingRun, NEW l \in Legs PROVE Synced(l)'
  BY DEF Sync, SameShown
<1>1. /\ live' # NoLive /\ Owns(gen) /\ epoch' = epoch /\ live'.gen = live.gen
      /\ FillOver(l) => FillOver(l)'
  BY DEF LegsGoOn, Owns, SameShown
<1>2. RequestsOf(d, l) /\ UNCHANGED <<legEpoch[l], ring[l], done[l], continues[l]>>
  BY DEF RequestsOf, RequestsFrom, SameShown
<1> QED BY <1>1, <1>2, SyncedOn DEF Sync, AllowancesKept

(* What the page shows of its legs, and of which build.                     *)
shownVars == <<gen, awaitingRun, legVars>>

(* A build that is not live tells nothing.                                  *)
LEMMA TellsForeign ==
  ASSUME SessionInv, ForeignOver, LegsGoOn, Tells, UNCHANGED shownVars PROVE ForeignOver'
<1> SUFFICES ASSUME ~awaitingRun, NEW l \in Legs, Foreign(l)
             PROVE  Kind # "session" /\ ~Owns(gen)' /\ \A i \in DOMAIN toPage' : ~OfGen(i)'
  BY DEF ForeignOver, Foreign, shownVars, legVars
<1>1. Kind # "session" /\ ~Owns(gen) /\ \A i \in DOMAIN toPage : ~OfGen(i)
  BY DEF ForeignOver
<1>2. ~Owns(gen)'
  BY <1>1 DEF LegsGoOn, Owns, shownVars
<1>3. ASSUME NEW i \in DOMAIN toPage' PROVE ~OfGen(i)'
  <2>1. CASE toPage' = toPage
    BY <1>1, <2>1 DEF OfGen, shownVars
  <2>2. CASE toPage' # toPage
    <3>1. IsSeq(toPage)
      BY DEF SessionInv, RepliesTyped
    <3>2. PICK r : /\ TellsOf(r)
                   /\ \A k \in DOMAIN toPage' :
                         \/ k \in DOMAIN toPage /\ toPage'[k] = toPage[k]
                         \/ toPage'[k] = r
      BY <2>2, <3>1, TellsOne
    <3>3. r.gen # gen
      BY <1>1, <3>2 DEF TellsOf
    <3> QED BY <1>1, <1>3, <3>2, <3>3 DEF OfGen, shownVars
  <2> QED BY <2>1, <2>2
<1> QED BY <1>1, <1>2, <1>3

(* What the page keeps to itself.                                           *)
LEMMA PageUntouched ==
  ASSUME UNCHANGED shownVars
  PROVE  /\ SameShown /\ UNCHANGED <<gen, awaitingRun, legEpoch, done>>
         /\ Rings => Rings'
         /\ LegsOld => LegsOld'
         /\ TakenUp /\ StillOld => TakenUp'
<1>1. UNCHANGED <<gen, awaitingRun, ring, done, legEpoch, legGen, continues>>
  BY DEF shownVars, legVars
<1>2. Rings => Rings'
  BY <1>1 DEF Rings, RingFits
<1>3. LegsOld => LegsOld'
  BY <1>1 DEF LegsOld
<1>4. ASSUME TakenUp, StillOld, ~awaitingRun PROVE Old(gen)'
  <2>1. PICK g : g = gen /\ Old(g)
    BY <1>4 DEF TakenUp
  <2>2. Old(g)'
    BY <1>4, <2>1 DEF StillOld
  <2> QED BY <1>1, <2>1, <2>2
<1> QED BY <1>1, <1>2, <1>3, <1>4 DEF SameShown, TakenUp

(* The worker goes on with what is live.                                    *)
LEMMA WorkerGoesOn ==
  ASSUME SessionInv, SessionInv', StillOld, PageInv, LegsGoOn, SameFlight, Tells,
         AllowancesKept, UNCHANGED shownVars, NEW d \in Int, RequestsFrom(d)
  PROVE  PageInv'
<1>1. /\ SameShown /\ UNCHANGED <<gen, awaitingRun, legEpoch, done>>
      /\ Rings' /\ LegsOld' /\ TakenUp'
  BY PageUntouched DEF PageInv
<1>2. IsSeq(toPage)
  BY DEF SessionInv, RepliesTyped
<1>3. RequestsOld'
  BY <1>1, RequestsStayOld DEF PageInv
<1>4. ReplyOrder' /\ Unheard' /\ FramesFit'
  BY <1>1, <1>2, TellsInOrder, TellsUnheard, TellsFit DEF PageInv
<1>5. \A l \in Legs : Chain(l)'
  BY <1>1, TellsChain DEF PageInv, Chains
<1>6. Sync' /\ ForeignOver'
  BY <1>1, TellsSync, TellsForeign DEF PageInv
<1> QED BY <1>1, <1>3, <1>4, <1>5, <1>6 DEF PageInv, Chains

(* A call that goes on keeps all of it.                                     *)
LEMMA ProceedsRing ==
  ASSUME SessionInv, SessionInv', StillOld, RingInv, Proceeds, UNCHANGED shownVars
  PROVE  RingInv'
<1>1. CallInv /\ OneLoop /\ IsSeq(toWorker) /\ IsSeq(toWorker')
  BY DEF SessionInv, RequestsTyped
<1>2. GoesOn /\ BookInv' /\ PartsFit'
  BY <1>1, ProceedsBooks, ProceedsParts DEF RingInv
<1>3. LegsGoOn /\ SameFlight /\ Tells /\ AllowancesKept
  BY <1>2, GoesOnLegs DEF GoesOn, AllowancesKept
<1>4. toWorker' = toWorker
  BY ProceedsAside
<1>5. RequestsFrom(0)
  BY <1>1, <1>4, RequestsUntouched
<1>6. RequestsFit'
  BY <1>1, <1>3, <1>5, RequestsStayFit DEF RingInv
<1>7. PageInv'
  BY <1>3, <1>5, WorkerGoesOn DEF RingInv
<1> QED BY <1>2, <1>6, <1>7 DEF RingInv

(* A request for what is live, at the head of the queue.                    *)
LEMMA HeadFits ==
  ASSUME SessionInv, RingInv, toWorker # <<>>, NEW m, m = Head(toWorker), m.kind # "build",
         Owns(m.gen)
  PROVE  /\ m.leg \in Legs /\ FillOver(m.leg) /\ live # NoLive
         /\ 1 \in DOMAIN toWorker /\ toWorker[1] = m
         /\ m.kind = "extend" => m.epoch = epoch[m.leg] /\ Extends(1, m.leg)
         /\ m.kind = "rewind" => m.epoch = epoch[m.leg] + 1 /\ Rewinds(1, m.leg)
         /\ gen = live.gen => ~awaitingRun
<1>1. IsRequest(m) /\ m = toWorker[1] /\ 1 \in DOMAIN toWorker
  BY HeadRequest DEF SessionInv
<1>2. m.leg \in Legs /\ live # NoLive /\ m.gen = live.gen
  BY <1>1 DEF IsRequest, Owns
<1>3. RequestFits(m.leg)
  BY <1>2 DEF RingInv, RequestsFit
<1>4. /\ m.kind = "extend" => Extends(1, m.leg)
      /\ m.kind = "rewind" => Rewinds(1, m.leg)
  BY <1>1, <1>2 DEF Extends, Rewinds, OfLive
<1>5. /\ m.kind = "extend" => m.epoch = epoch[m.leg] /\ FillOver(m.leg)
      /\ m.kind = "rewind" => m.epoch = epoch[m.leg] + 1 /\ FillOver(m.leg)
  BY <1>1, <1>3, <1>4 DEF RequestFits
<1>6. ASSUME gen = live.gen PROVE ~awaitingRun
  <2>1. awaitingRun => toWorker[1].gen < gen
    BY <1>1 DEF RingInv, PageInv, RequestsOld
  <2>2. gen \in Nat
    BY DEF SessionInv, PageTypes
  <2> QED BY <1>1, <1>2, <1>6, <2>1, <2>2
<1>7. FillOver(m.leg)
  BY <1>1, <1>5 DEF IsRequest
<1> QED BY <1>1, <1>2, <1>4, <1>5, <1>6, <1>7

(* A continue is taken up.                                                  *)
LEMMA ExtendRing ==
  ASSUME SessionInv, SessionInv', StillOld, RingInv, ReceiveExtend, UNCHANGED shownVars
  PROVE  RingInv'
<1>1. CallInv /\ OneLoop /\ IsSeq(toWorker) /\ IsSeq(toWorker') /\ RequestsTyped /\ Old(live.gen)
  BY DEF SessionInv, RequestsTyped, GenInv
<1>2. PICK m : m = Head(toWorker)
  OBVIOUS
<1>3. /\ toWorker # <<>> /\ toWorker' = Tail(toWorker) /\ m.kind = "extend"
      /\ UNCHANGED parts
  BY <1>2 DEF ReceiveExtend, Received
<1>4. IsRequest(Head(toWorker))
  BY <1>1, <1>3, HeadRequest
<1>5. SameFlight
  BY <1>1, <1>4, ExtendLoops
<1>6. Owns(m.gen) => /\ FillOver(m.leg) /\ m.leg \in Legs /\ Extends(1, m.leg)
                     /\ 1 \in DOMAIN toWorker
                     /\ gen = live.gen => ~awaitingRun
  BY <1>2, <1>3, HeadFits
<1>7. /\ BooksNext
      /\ UNCHANGED <<toPage, recorded, suspended>>
      /\ ~(UNCHANGED <<live, allowance>>) => Owns(m.gen)
      /\ live' # NoLive => \A k \in Legs : k # m.leg => allowance'[k] = allowance[k]
  BY <1>1, <1>2, <1>4, <1>5, <1>6, ExtendBooks DEF RingInv
<1>8. BookInv' /\ Tells
  BY <1>5, <1>7, BooksStay DEF Tells
<1>9. PartsFit'
  BY <1>3, <1>5 DEF RingInv, PartsFit, SameFlight, parts
<1>10. LegsGoOn
  BY <1>5, <1>7 DEF LegsGoOn, SameFlight, FillOver, OverIn, Flies, Owns
<1>11. AllowancesKept
  <2> SUFFICES ASSUME live' # NoLive, Owns(gen), NEW l \in Legs, allowance'[l] # allowance[l]
               PROVE  ~awaitingRun /\ (legEpoch[l] = epoch[l] => continues[l] > 0)
    BY DEF AllowancesKept
  <2>1. l = m.leg /\ Owns(m.gen)
    BY <1>7
  <2>2. ~awaitingRun /\ Extends(1, l) /\ 1 \in DOMAIN toWorker
    BY <1>6, <2>1 DEF Owns
  <2> QED BY <2>2 DEF RingInv, PageInv, Sync, Synced
<1>12. RequestsFrom(1)
  BY <1>1, <1>3, RequestsShifted
<1>13. RequestsFit'
  BY <1>1, <1>10, <1>12, RequestsStayFit DEF RingInv
<1>14. PageInv'
  BY <1>5, <1>8, <1>10, <1>11, <1>12, WorkerGoesOn DEF RingInv
<1> QED BY <1>8, <1>9, <1>13, <1>14 DEF RingInv

-----------------------------------------------------------------------------
(* A rewind is taken up.                                                    *)
Rewound(m, l) ==
    /\ Holds(m.gen, l)
    /\ epoch' = [epoch EXCEPT ![l] = m.epoch]
    /\ live' = [live EXCEPT !.cursor[l] = OpenCursor(@.lap + 1)]
    /\ recorded' = [recorded EXCEPT ![l] = 0]
    /\ allowance' = [allowance EXCEPT ![l] = History]
    /\ UNCHANGED <<toPage, suspended>>

(* Leg l is sent back, the others go on.                                    *)
LEMMA RewoundBooks ==
  ASSUME SessionInv, NEW m, NEW l \in Legs, Rewound(m, l), m.epoch = epoch[l] + 1
  PROVE  /\ live # NoLive /\ live' # NoLive /\ live'.gen = live.gen /\ m.gen = live.gen
         /\ recorded'[l] = 0 /\ allowance'[l] = History
         /\ epoch[l] \in Nat /\ epoch'[l] = epoch[l] + 1
         /\ \A k \in Legs : k # l =>
               /\ epoch'[k] = epoch[k] /\ recorded'[k] = recorded[k]
               /\ allowance'[k] = allowance[k]
               /\ FillOver(k) => FillOver(k)'
         /\ Owns(gen)' <=> Owns(gen')
<1>1. live # NoLive /\ m.gen = live.gen
  BY DEF Rewound, Holds, Owns
<1>2. /\ live \in LiveType /\ recorded \in [Legs -> Nat] /\ allowance \in [Legs -> Nat]
      /\ epoch \in [Legs -> 0..MaxEpoch] /\ LiveShape
  BY <1>1 DEF SessionInv, CallInv, CallsFit, CallTypes, HandleInv
<1>3. live'.gen = live.gen /\ DOMAIN live' = DOMAIN live
  BY <1>2 DEF Rewound, LiveType
<1>4. live' # NoLive
  BY <1>1, <1>2, <1>3, LiveIsSomething DEF LiveShape
<1>5. /\ recorded'[l] = 0 /\ allowance'[l] = History
      /\ epoch[l] \in Nat /\ epoch'[l] = epoch[l] + 1
  BY <1>2 DEF Rewound
<1>6. ASSUME NEW k \in Legs, k # l
      PROVE  /\ epoch'[k] = epoch[k] /\ recorded'[k] = recorded[k]
             /\ allowance'[k] = allowance[k]
  BY <1>2, <1>6 DEF Rewound
<1>7. ASSUME NEW k \in Legs, k # l, FillOver(k) PROVE FillOver(k)'
  <2>1. suspended' = suspended
    BY DEF Rewound
  <2> QED BY <1>1, <1>3, <1>6, <1>7, <2>1 DEF FillOver, OverIn, Flies, Owns
<1>8. Owns(gen)' <=> Owns(gen')
  BY <1>1, <1>3, <1>4 DEF Owns
<1> QED BY <1>1, <1>3, <1>4, <1>5, <1>6, <1>7, <1>8

(* The leg's ring was emptied when the page asked for it, and nothing of    *)
(* the new epoch was told.                                                  *)
LEMMA RewoundShown ==
  ASSUME SessionInv, RingInv, NEW m, NEW l \in Legs, Rewound(m, l), m.epoch = epoch[l] + 1,
         1 \in DOMAIN toWorker, Rewinds(1, l), Owns(gen), ~awaitingRun
  PROVE  /\ legEpoch[l] = epoch[l] + 1 /\ ring[l] = EmptyRing
         /\ done[l] = NotDone /\ continues[l] = 0
         /\ \A i \in DOMAIN toPage : ~KeyedTo(toPage[i], l)
<1>1. Synced(l)
  BY DEF RingInv, PageInv, Sync
<1>2. /\ legEpoch[l] = epoch[l] + 1 /\ ring[l] = EmptyRing
      /\ done[l] = NotDone /\ continues[l] = 0
  BY <1>1 DEF Synced
<1>3. ASSUME NEW i \in DOMAIN toPage, KeyedTo(toPage[i], l) PROVE FALSE
  <2>1. FrameFits(toPage[i]) /\ toPage[i].leg = l /\ toPage[i].epoch = epoch[l] + 1
    BY <1>2, <1>3 DEF RingInv, PageInv, FramesFit, OfGen, KeyedTo, ShownEpoch
  <2>2. epoch[l] + 1 <= epoch[l]
    BY <2>1 DEF FrameFits
  <2>3. epoch[l] \in Nat
    BY RewoundBooks
  <2> HIDE <1>3
  <2> QED BY <2>2, <2>3
<1> QED BY <1>2, <1>3

(* The other requests fit; of the leg there is none.                        *)
LEMMA RewoundRequests ==
  ASSUME SessionInv, SessionInv', RingInv, NEW m, NEW l \in Legs, Rewound(m, l),
         m.epoch = epoch[l] + 1, 1 \in DOMAIN toWorker, Rewinds(1, l), RequestsFrom(1)
  PROVE  /\ RequestsFit'
         /\ \A i \in DOMAIN toWorker' : ~Rewinds(i, l)' /\ ~Extends(i, l)'
<1>1. /\ live # NoLive /\ live'.gen = live.gen
      /\ \A k \in Legs : k # l => epoch'[k] = epoch[k] /\ (FillOver(k) => FillOver(k)')
  BY RewoundBooks
<1>2. IsSeq(toWorker) /\ IsSeq(toWorker')
  BY DEF SessionInv, RequestsTyped
<1>3. RequestFits(l)
  BY <1>1 DEF RingInv, RequestsFit
<1>4. ASSUME NEW i \in DOMAIN toWorker', OfLive(i)', NEW j \in Int, j = i + 1
      PROVE  j \in DOMAIN toWorker /\ toWorker'[i] = toWorker[j] /\ OfLive(j) /\ j # 1 /\ ~(j < 1)
  <2>1. j \in DOMAIN toWorker /\ toWorker'[i] = toWorker[j] /\ OfLive(j)
    BY <1>1, <1>4 DEF RequestsFrom, OfLive
  <2>2. i \in Nat \ {0}
    BY <1>2 DEF IsSeq
  <2>3. j # 1 /\ ~(j < 1)
    BY <1>4, <2>2
  <2> QED BY <2>1, <2>3
<1>5. ASSUME NEW i \in DOMAIN toWorker' PROVE ~Rewinds(i, l)' /\ ~Extends(i, l)'
  <2>1. i \in Int
    BY <1>2 DEF IsSeq
  <2>2. PICK j \in Int : j = i + 1
    BY <2>1
  <2>3. ASSUME Rewinds(i, l)' PROVE FALSE
    <3>1. Rewinds(j, l) /\ j \in DOMAIN toWorker /\ j # 1
      BY <1>4, <2>2, <2>3 DEF Rewinds
    <3> QED BY <1>3, <3>1 DEF RequestFits
  <2>4. ASSUME Extends(i, l)' PROVE FALSE
    <3>1. Extends(j, l) /\ j \in DOMAIN toWorker /\ ~(j < 1)
      BY <1>4, <2>2, <2>4 DEF Extends
    <3> QED BY <1>3, <3>1 DEF RequestFits
  <2> QED BY <2>3, <2>4
<1>6. ASSUME NEW k \in Legs PROVE RequestFits(k)'
  <2>1. CASE k = l
    BY <1>5, <2>1 DEF RequestFits
  <2>2. CASE k # l
    <3>1. RequestFits(k)
      BY <1>1 DEF RingInv, RequestsFit
    <3>2. 1 \in Int /\ RequestsOf(1, k)
      BY DEF RequestsOf, RequestsFrom
    <3> QED BY <1>1, <1>2, <2>2, <3>1, <3>2, RequestsStayFitOf
  <2> QED BY <2>1, <2>2
<1> QED BY <1>5, <1>6 DEF RequestsFit

(* What the page shows of the leg begins again.                             *)
LEMMA RewoundChain ==
  ASSUME SessionInv, RingInv, NEW m, NEW l \in Legs, Rewound(m, l), m.epoch = epoch[l] + 1,
         1 \in DOMAIN toWorker, Rewinds(1, l), gen = live.gen => ~awaitingRun,
         SameShown, NEW k \in Legs
  PROVE  Chain(k)'
<1>0. /\ IsSeq(toPage) /\ Chain(k) /\ toPage' = toPage /\ UNCHANGED <<gen, awaitingRun>>
      /\ ShownEpoch(k)' = ShownEpoch(k) /\ Shown(k)' = Shown(k)
      /\ \A n \in Nat : Room(n, k) => Room(n, k)'
  BY DEF SessionInv, RepliesTyped, RingInv, PageInv, Chains, SameShown, ShownEpoch, Shown,
         Room, Rewound
<1>1. /\ live # NoLive /\ live' # NoLive /\ live'.gen = live.gen
      /\ recorded'[l] = 0
      /\ \A j \in Legs : j # l => epoch'[j] = epoch[j] /\ recorded'[j] = recorded[j]
  BY RewoundBooks
<1>2. CASE k # l \/ ~Owns(gen)
  <2>1. \A n \in Nat : Ends(n, k) => Ends(n, k)'
    BY <1>0, <1>1, <1>2 DEF Ends, Owns
  <2> QED BY <1>0, <2>1, ChainStays
<1>3. CASE k = l /\ Owns(gen)
  <2>1. ~awaitingRun /\ ring[l] = EmptyRing /\ \A i \in DOMAIN toPage : ~KeyedTo(toPage[i], l)
    BY <1>3, RewoundShown DEF Owns
  <2>2. (\A i \in DOMAIN toPage : ~KeyedTo(toPage[i], l))'
    BY <1>0, <1>3, <2>1 DEF KeyedTo
  <2>3. (Shown(l) = 0)'
    <3>1. Shown(l) = ring[l].first + Len(ring[l].frames)
      BY <2>1 DEF Shown
    <3>2. ring[l].first = 0 /\ Len(ring[l].frames) = 0
      BY <2>1 DEF EmptyRing
    <3> QED BY <1>0, <1>3, <3>1, <3>2
  <2>4. (Room(0, l) /\ Ends(0, l))'
    BY <1>1, ProtocolAssumption DEF Room, Ends
  <2>5. IsSeq(toPage') /\ 0 \in Nat
    BY <1>0
  <2> QED BY <1>3, <2>2, <2>3, <2>4, <2>5, ChainRestarts
<1> QED BY <1>2, <1>3

(* The page's legs and the worker's are in step again.                      *)
LEMMA RewoundSync ==
  ASSUME SessionInv, SessionInv', RingInv, NEW m, NEW l \in Legs, Rewound(m, l),
         m.epoch = epoch[l] + 1, 1 \in DOMAIN toWorker, Rewinds(1, l),
         RequestsFrom(1), SameShown, done' = done
  PROVE  Sync'
<1> SUFFICES ASSUME Owns(gen)', ~awaitingRun, NEW k \in Legs PROVE Synced(k)'
  BY DEF Sync, SameShown
<1>1. /\ live # NoLive /\ live'.gen = live.gen
      /\ allowance'[l] = History /\ epoch'[l] = epoch[l] + 1
      /\ \A j \in Legs : j # l => /\ epoch'[j] = epoch[j] /\ allowance'[j] = allowance[j]
                                  /\ FillOver(j) => FillOver(j)'
  BY RewoundBooks
<1>2. Owns(gen)
  BY <1>1 DEF Owns, SameShown
<1>3. CASE k = l
  <2>1. /\ legEpoch[l] = epoch[l] + 1 /\ done[l] = NotDone /\ continues[l] = 0
    BY <1>2, RewoundShown
  <2>2. \A i \in DOMAIN toWorker' : ~Rewinds(i, l)' /\ ~Extends(i, l)'
    BY RewoundRequests
  <2>3. UNCHANGED <<legEpoch, done, continues>>
    BY DEF SameShown
  <2> QED BY <1>1, <1>3, <2>1, <2>2, <2>3 DEF Synced
<1>4. CASE k # l
  <2>1. Synced(k)
    BY <1>2 DEF RingInv, PageInv, Sync
  <2>2. RequestsOf(1, k) /\ UNCHANGED <<legEpoch[k], ring[k], done[k], continues[k]>>
    BY DEF RequestsOf, RequestsFrom, SameShown
  <2> QED BY <1>1, <1>4, <2>1, <2>2, SyncedOn
<1> QED BY <1>3, <1>4

(* Replies already told fit the leg's next epoch.                           *)
LEMMA RewoundFrames ==
  ASSUME SessionInv, RingInv, NEW m, NEW l \in Legs, Rewound(m, l), m.epoch = epoch[l] + 1,
         SameShown
  PROVE  FramesFit'
<1>1. /\ live # NoLive /\ live'.gen = live.gen
      /\ epoch[l] \in Nat /\ epoch'[l] = epoch[l] + 1
      /\ \A k \in Legs : k # l => epoch'[k] = epoch[k] /\ (FillOver(k) => FillOver(k)')
  BY RewoundBooks
<1>2. toPage' = toPage /\ gen' = gen
  BY DEF Rewound, SameShown
<1> SUFFICES ASSUME NEW i \in DOMAIN toPage, NEW r, r = toPage[i], r.gen = gen,
                    r.kind = "frames"
             PROVE  FrameFits(r)'
  BY <1>2 DEF FramesFit, OfGen
<1>3. FrameFits(r) /\ r.leg \in Legs /\ r.epoch \in Nat
  BY DEF RingInv, PageInv, FramesFit, OfGen, SessionInv, RepliesTyped, IsReply
<1>4. /\ \A k \in DOMAIN r.frames : r.frames[k].gen = r.gen /\ r.frames[k].lap = r.epoch
      /\ r.epoch <= ShownEpoch(r.leg)
  BY <1>3 DEF FrameFits
<1>5. ShownEpoch(r.leg)' = ShownEpoch(r.leg)
  BY DEF ShownEpoch, SameShown
<1>6. ASSUME Owns(gen)'
      PROVE  /\ r.epoch <= epoch'[r.leg]
             /\ r.epoch = epoch'[r.leg] /\ r.done # NotDone => FillOver(r.leg)'
  <2>1. Owns(gen)
    BY <1>1, <1>2, <1>6 DEF Owns
  <2>2. /\ r.epoch <= epoch[r.leg]
        /\ r.epoch = epoch[r.leg] /\ r.done # NotDone => FillOver(r.leg)
    BY <1>3, <2>1 DEF FrameFits
  <2>3. CASE r.leg = l
    <3>1. r.epoch <= epoch'[l] /\ r.epoch # epoch'[l]
      BY <1>1, <1>3, <2>2, <2>3
    <3> QED BY <2>3, <3>1
  <2>4. CASE r.leg # l
    BY <1>1, <1>3, <2>2, <2>4
  <2> QED BY <2>3, <2>4
<1> QED BY <1>4, <1>5, <1>6 DEF FrameFits

(* A step that leaves the worker's calls, books and replies alone.          *)
LEMMA WorkerStays ==
  ASSUME SessionInv, SessionInv', StillOld, RingInv, UNCHANGED shownVars,
         UNCHANGED <<toPage, live, books, parts, suspended, running>>,
         NEW d \in Int, RequestsFrom(d)
  PROVE  RingInv'
<1>1. UNCHANGED <<toPage, live, recorded, allowance, recording, epoch, posted, rewoundFrom,
                  suspended, running>>
  BY DEF books, parts
<1>2. LegsGoOn
  BY <1>1, LegsUntouched
<1>3. SameFlight /\ Tells /\ AllowancesKept /\ BooksNext /\ PartsFit'
  BY <1>1 DEF SameFlight, Tells, AllowancesKept, BooksNext, RingInv, BookInv, BooksOf, PartsFit
<1>4. BookInv'
  BY <1>3, BooksStay
<1>5. RequestsFit'
  BY <1>2, RequestsStayFit DEF RingInv, SessionInv, RequestsTyped
<1>6. PageInv'
  BY <1>2, <1>3, WorkerGoesOn DEF RingInv
<1> QED BY <1>3, <1>4, <1>5, <1>6 DEF RingInv

(* A rewind is received.                                                    *)
LEMMA RewindRing ==
  ASSUME SessionInv, SessionInv', StillOld, RingInv, ReceiveRewind, UNCHANGED shownVars
  PROVE  RingInv'
<1>1. CallInv /\ OneLoop /\ IsSeq(toWorker) /\ RequestsTyped
  BY DEF SessionInv, RequestsTyped
<1>2. PICK m : m = Head(toWorker)
  OBVIOUS
<1>3. /\ toWorker # <<>> /\ toWorker' = Tail(toWorker) /\ m.kind = "rewind"
      /\ UNCHANGED <<toPage, suspended>>
  BY <1>2 DEF ReceiveRewind, Received
<1>4. IsRequest(m)
  BY <1>1, <1>2, <1>3, HeadRequest
<1>5. RequestsFrom(1) /\ 1 \in Int
  BY <1>1, <1>3, RequestsShifted
<1>6. Owns(m.gen) => /\ m.leg \in Legs /\ FillOver(m.leg) /\ m.epoch = epoch[m.leg] + 1
                     /\ 1 \in DOMAIN toWorker /\ Rewinds(1, m.leg)
                     /\ gen = live.gen => ~awaitingRun
  BY <1>2, <1>3, HeadFits
<1>7. CASE UNCHANGED <<live, books, parts, running>>
  BY <1>3, <1>5, <1>7, WorkerStays
<1>8. CASE Rewound(m, m.leg)
  <2>1. PICK l \in Legs : l = m.leg
    BY <1>3, <1>4 DEF IsRequest
  <2>2. Rewound(m, l) /\ Owns(m.gen)
    BY <1>8, <2>1 DEF Rewound, Holds
  <2>3. /\ FillOver(l) /\ m.epoch = epoch[l] + 1
        /\ 1 \in DOMAIN toWorker /\ Rewinds(1, l)
    BY <1>6, <2>1, <2>2
  <2>4. BookInv'
    BY <1>1, <1>2, <1>4, <1>6, RewindBooks DEF RingInv
  <2>5. PartsFit'
    BY <1>1, <1>2, <1>4, <1>6, RewindParts DEF RingInv
  <2>6. RequestsFit'
    BY <1>5, <2>2, <2>3, RewoundRequests
  <2>7. /\ SameShown /\ UNCHANGED <<gen, awaitingRun, legEpoch, done>>
        /\ Rings' /\ LegsOld' /\ TakenUp'
    BY PageUntouched DEF RingInv, PageInv
  <2>8. RequestsOld'
    BY <1>5, <2>7, RequestsStayOld DEF RingInv, PageInv
  <2>9. /\ live # NoLive /\ live' # NoLive /\ live'.gen = live.gen
    BY <2>2, <2>3, RewoundBooks
  <2>10. gen = live.gen => ~awaitingRun
    BY <1>6, <2>2
  <2>11. ReplyOrder' /\ Unheard' /\ ForeignOver'
    <3>1. UNCHANGED <<toPage, gen, awaitingRun, ring, legGen>> /\ (Owns(gen)' <=> Owns(gen))
      BY <1>3, <2>9 DEF shownVars, legVars, Owns
    <3>2. ReplyOrder'
      BY <3>1 DEF RingInv, PageInv, ReplyOrder, OfGen, Opens, Closes
    <3>3. Unheard'
      BY <2>10, <3>1 DEF Unheard, Owns
    <3>4. ForeignOver'
      BY <3>1 DEF RingInv, PageInv, ForeignOver, Foreign, OfGen
    <3> QED BY <3>2, <3>3, <3>4
  <2>12. FramesFit'
    BY <2>2, <2>3, <2>7, RewoundFrames
  <2>13. \A k \in Legs : Chain(k)'
    BY <2>2, <2>3, <2>7, <2>10, RewoundChain
  <2>14. Sync'
    BY <1>5, <2>2, <2>3, <2>7, RewoundSync
  <2> QED BY <2>4, <2>5, <2>6, <2>7, <2>8, <2>11, <2>12, <2>13, <2>14
          DEF RingInv, PageInv, Chains
<1> QED BY <1>2, <1>3, <1>7, <1>8 DEF ReceiveRewind, Rewound

-----------------------------------------------------------------------------
(* A build, g, is newer than all that was taken up before: the page has     *)
(* heard nothing of it, and asked for nothing of it.                        *)
NewBuild(g) == Build(g) /\ Issued(g) /\ \A h : Old(h) => h < g

(* How a build ends, and what it tells: its own reply, or nothing.          *)
BuildTold(g, r) ==
    /\ r.gen = g /\ toPage' = Append(toPage, r)
    /\ \/ r.kind \in {"no-session", "worker-error"} /\ live' = NoLive
       \/ r.kind = "compiled" /\ live' # NoLive /\ live'.gen = g

LEMMA BuildEnds ==
  ASSUME NEW g, Build(g)
  PROVE  /\ (toPage' = toPage /\ live' = NoLive) \/ \E r : BuildTold(g, r)
         /\ recorded' = [l \in Legs |-> 0] /\ allowance' = [l \in Legs |-> History]
         /\ epoch' = [l \in Legs |-> 0]
<1>1. /\ recorded' = [l \in Legs |-> 0] /\ allowance' = [l \in Legs |-> History]
      /\ epoch' = [l \in Legs |-> 0]
  BY DEF Build, NewBooks
<1>2. ASSUME NEW k \in {"no-session", "worker-error"}, live' = NoLive,
             Post([kind |-> k, gen |-> g])
      PROVE  BuildTold(g, [kind |-> k, gen |-> g])
  BY <1>2 DEF BuildTold, Post
<1>3. ASSUME NEW p \in Programs, Post(CompiledReply(g, p)), live' # NoLive, live'.gen = g
      PROVE  BuildTold(g, CompiledReply(g, p))
  <2>1. CompiledReply(g, p).kind = "compiled" /\ CompiledReply(g, p).gen = g
    BY DEF CompiledReply
  <2> QED BY <1>3, <2>1 DEF BuildTold, Post
<1>4. ASSUME NEW p \in Programs,
             live' = [gen |-> g, prog |-> p, chunks |-> p.chunks,
                      cursor |-> [l \in Legs |-> OpenCursor(0)]]
      PROVE  live' # NoLive /\ live'.gen = g
  <2>1. DOMAIN live' = LiveFields /\ live'.gen = g
    BY <1>4 DEF LiveFields
  <2> QED BY <2>1, LiveIsSomething
<1>5. \/ toPage' = toPage /\ live' = NoLive
      \/ \E k \in {"no-session", "worker-error"} :
            live' = NoLive /\ Post([kind |-> k, gen |-> g])
      \/ \E p \in Programs :
            /\ Post(CompiledReply(g, p))
            /\ live' = [gen |-> g, prog |-> p, chunks |-> p.chunks,
                        cursor |-> [l \in Legs |-> OpenCursor(0)]]
  BY DEF Build
<1> QED BY <1>1, <1>2, <1>3, <1>4, <1>5

(* The page still awaits the answer to its newest edit, and has no reply of *)
(* the build.                                                               *)
LEMMA BuildUnheard ==
  ASSUME SessionInv, RingInv, NEW g, NewBuild(g)
  PROVE  /\ awaitingRun
         /\ \A i \in DOMAIN toPage : toPage[i].gen # g
         /\ \A i \in DOMAIN toWorker : toWorker[i].kind # "build" => toWorker[i].gen # g
         /\ \A i \in DOMAIN suspended : suspended[i].gen < g
<1>0. g \in Nat /\ g <= gen /\ gen \in Nat /\ \A h : Old(h) => h < g
  BY DEF NewBuild, Issued, SessionInv, PageTypes
<1>1. awaitingRun
  <2>1. ASSUME ~awaitingRun PROVE FALSE
    <3>1. gen < g
      BY <1>0, <2>1 DEF RingInv, PageInv, TakenUp
    <3> QED BY <1>0, <3>1
  <2> QED BY <2>1
<1>2. ASSUME NEW h, Old(h) PROVE h # g
  BY <1>0, <1>2
<1>3. \A i \in DOMAIN toPage : toPage[i].gen # g
  BY <1>2 DEF SessionInv, RepliesOld
<1>4. \A i \in DOMAIN toWorker : toWorker[i].kind # "build" => toWorker[i].gen # g
  BY <1>2 DEF RingInv, PageInv, RequestsOld
<1>5. \A i \in DOMAIN suspended : suspended[i].gen < g
  BY <1>0 DEF SessionInv, CallInv, CallsOld
<1> QED BY <1>1, <1>3, <1>4, <1>5

(* The replies after it.                                                    *)
LEMMA BuildReplies ==
  ASSUME SessionInv, RingInv, NEW g, NewBuild(g), SameShown
  PROVE  /\ DOMAIN toPage \subseteq DOMAIN toPage' /\ DOMAIN toPage' \subseteq Int
         /\ IsSeq(toPage')
         /\ \A i \in DOMAIN toPage : toPage'[i] = toPage[i]
         /\ gen = g =>
               /\ \A i, j \in DOMAIN toPage' : OfGen(i)' /\ OfGen(j)' => i = j
               /\ \A i \in DOMAIN toPage' : OfGen(i)' => Opens(i)' \/ Closes(i)'
               /\ \A i \in DOMAIN toPage' : Closes(i)' => ~Owns(gen)'
               /\ Owns(gen)' => \E i \in DOMAIN toPage' : Opens(i)'
         /\ gen # g =>
               /\ \A i \in DOMAIN toPage' : OfGen(i)' => i \in DOMAIN toPage
               /\ ~Owns(gen)'
<1>1. IsSeq(toPage) /\ gen' = gen
  BY DEF SessionInv, RepliesTyped, SameShown
<1>2. DOMAIN toPage \subseteq Int /\ \A i \in DOMAIN toPage : toPage[i].gen # g
  BY <1>1, BuildUnheard DEF IsSeq
<1>3. CASE toPage' = toPage /\ live' = NoLive
  BY <1>1, <1>2, <1>3 DEF OfGen, Opens, Closes, Owns
<1>4. ASSUME NEW r, BuildTold(g, r)
      PROVE  /\ DOMAIN toPage \subseteq DOMAIN toPage' /\ DOMAIN toPage' \subseteq Int
             /\ IsSeq(toPage')
             /\ \A i \in DOMAIN toPage : toPage'[i] = toPage[i]
             /\ gen = g =>
                   /\ \A i, j \in DOMAIN toPage' : OfGen(i)' /\ OfGen(j)' => i = j
                   /\ \A i \in DOMAIN toPage' : OfGen(i)' => Opens(i)' \/ Closes(i)'
                   /\ \A i \in DOMAIN toPage' : Closes(i)' => ~Owns(gen)'
                   /\ Owns(gen)' => \E i \in DOMAIN toPage' : Opens(i)'
             /\ gen # g =>
                   /\ \A i \in DOMAIN toPage' : OfGen(i)' => i \in DOMAIN toPage
                   /\ ~Owns(gen)'
  <2>1. /\ r.gen = g /\ r.kind \in {"compiled", "no-session", "worker-error"}
        /\ r.kind = "compiled" <=> live' # NoLive
        /\ live' # NoLive => live'.gen = g
    BY <1>4 DEF BuildTold
  <2>2. /\ IsSeq(toPage') /\ DOMAIN toPage = 1..Len(toPage) /\ Len(toPage) \in Nat
        /\ DOMAIN toPage' = 1..(Len(toPage) + 1)
        /\ \A i \in DOMAIN toPage : toPage'[i] = toPage[i]
        /\ toPage'[Len(toPage) + 1] = r
    BY <1>1, <1>4, Appended DEF BuildTold
  <2>3. PICK k \in Int : k = Len(toPage) + 1
    BY <2>2
  <2>4. /\ DOMAIN toPage' = DOMAIN toPage \cup {k} /\ toPage'[k] = r
    BY <2>2, <2>3
  <2>5. CASE gen = g
    <3>1. \A i \in DOMAIN toPage' : OfGen(i)' => i = k
      BY <1>1, <1>2, <2>2, <2>4, <2>5 DEF OfGen
    <3>2. OfGen(k)' /\ (Opens(k)' <=> live' # NoLive) /\ (Closes(k)' <=> live' = NoLive)
      BY <1>1, <2>1, <2>4, <2>5 DEF OfGen, Opens, Closes
    <3>3. \A i \in DOMAIN toPage' : Closes(i)' => ~Owns(gen)'
      BY <3>1, <3>2 DEF Closes, Owns
    <3>4. Owns(gen)' => \E i \in DOMAIN toPage' : Opens(i)'
      BY <2>4, <3>2 DEF Owns
    <3> QED BY <1>2, <2>2, <2>4, <2>5, <3>1, <3>2, <3>3, <3>4
  <2>6. CASE gen # g
    <3>1. \A i \in DOMAIN toPage' : OfGen(i)' => i \in DOMAIN toPage
      BY <1>1, <2>1, <2>4, <2>6 DEF OfGen
    <3>2. ~Owns(gen)'
      BY <1>1, <2>1, <2>6 DEF Owns
    <3> QED BY <1>2, <2>2, <2>4, <2>6, <3>1, <3>2
  <2> QED BY <2>5, <2>6
<1> QED BY <1>3, <1>4, BuildEnds DEF NewBuild

(* Its replies are in order.                                                *)
LEMMA BuildInOrder ==
  ASSUME SessionInv, RingInv, NEW g, NewBuild(g), SameShown
  PROVE  ReplyOrder' /\ Unheard'
<1>1. awaitingRun /\ awaitingRun' = awaitingRun /\ gen' = gen
  BY BuildUnheard DEF SameShown
<1>2. /\ DOMAIN toPage \subseteq DOMAIN toPage' /\ DOMAIN toPage' \subseteq Int
      /\ \A i \in DOMAIN toPage : toPage'[i] = toPage[i]
  BY BuildReplies
<1>3. \A l \in Legs : epoch'[l] = 0 /\ allowance'[l] = History
  BY BuildEnds DEF NewBuild
<1>4. CASE gen = g
  <2>1. /\ \A i, j \in DOMAIN toPage' : OfGen(i)' /\ OfGen(j)' => i = j
        /\ \A i \in DOMAIN toPage' : OfGen(i)' => Opens(i)' \/ Closes(i)'
        /\ \A i \in DOMAIN toPage' : Closes(i)' => ~Owns(gen)'
        /\ Owns(gen)' => \E i \in DOMAIN toPage' : Opens(i)'
    BY <1>4, BuildReplies
  <2>2. \A i, j \in DOMAIN toPage' : OfGen(i)' /\ OfGen(j)' => i <= j
    BY <1>2, <2>1
  <2>3. \A i \in DOMAIN toPage' : (Opens(i)' => OfGen(i)') /\ (Closes(i)' => OfGen(i)')
    BY DEF Opens, Closes
  <2>4. ReplyOrder'
    BY <1>1, <2>1, <2>2, <2>3 DEF ReplyOrder
  <2>5. Unheard'
    BY <1>3, <2>1 DEF Unheard
  <2> QED BY <2>4, <2>5
<1>5. CASE gen # g
  <2>1. /\ \A i \in DOMAIN toPage' : OfGen(i)' => i \in DOMAIN toPage
        /\ ~Owns(gen)'
    BY <1>5, BuildReplies
  <2>2. \A i \in DOMAIN toPage : /\ OfGen(i)' <=> OfGen(i)
                                 /\ Opens(i)' <=> Opens(i)
                                 /\ Closes(i)' <=> Closes(i)
    BY <1>1, <1>2 DEF OfGen, Opens, Closes
  <2>3. \A i \in DOMAIN toPage' : (Opens(i)' => OfGen(i)') /\ (Closes(i)' => OfGen(i)')
    BY DEF Opens, Closes
  <2>4. ReplyOrder
    BY DEF RingInv, PageInv
  <2>5. ASSUME NEW i \in DOMAIN toPage', OfGen(i)'
        PROVE  Closes(i)' \/ \E j \in DOMAIN toPage' : Opens(j)'
    <3>1. i \in DOMAIN toPage /\ OfGen(i)
      BY <2>1, <2>2, <2>5
    <3>2. Closes(i) \/ \E j \in DOMAIN toPage : Opens(j)
      BY <1>1, <2>4, <3>1 DEF ReplyOrder
    <3> QED BY <1>2, <2>2, <3>1, <3>2
  <2>6. ASSUME NEW i \in DOMAIN toPage', NEW j \in DOMAIN toPage', Opens(i)', OfGen(j)'
        PROVE  i <= j
    <3>1. i \in DOMAIN toPage /\ j \in DOMAIN toPage /\ Opens(i) /\ OfGen(j)
      BY <2>1, <2>2, <2>3, <2>6
    <3> QED BY <2>4, <3>1 DEF ReplyOrder
  <2>7. ASSUME NEW i \in DOMAIN toPage', NEW j \in DOMAIN toPage', OfGen(i)', Closes(j)'
        PROVE  i <= j
    <3>1. i \in DOMAIN toPage /\ j \in DOMAIN toPage /\ OfGen(i) /\ Closes(j)
      BY <2>1, <2>2, <2>3, <2>7
    <3> QED BY <2>4, <3>1 DEF ReplyOrder
  <2>8. ReplyOrder'
    BY <1>1, <2>1, <2>5, <2>6, <2>7 DEF ReplyOrder
  <2> QED BY <2>1, <2>8 DEF Unheard
<1> QED BY <1>4, <1>5

(* None of them is of frames.                                               *)
LEMMA BuildFrames ==
  ASSUME SessionInv, RingInv, NEW g, NewBuild(g), SameShown
  PROVE  FramesFit' /\ \A l \in Legs : Chain(l)'
<1>1. awaitingRun /\ awaitingRun' = awaitingRun /\ gen' = gen
  BY BuildUnheard DEF SameShown
<1>2. /\ IsSeq(toPage) /\ IsSeq(toPage')
      /\ \A i \in DOMAIN toPage : i \in DOMAIN toPage' /\ toPage'[i] = toPage[i]
  BY BuildReplies DEF SessionInv, RepliesTyped
<1>3. \A l \in Legs : recorded'[l] = 0
  BY BuildEnds DEF NewBuild
<1>4. CASE gen = g
  <2>1. \A i \in DOMAIN toPage' : ~(OfGen(i)' /\ toPage'[i].kind = "frames")
    BY <1>4, BuildReplies DEF Opens, Closes
  <2>2. FramesFit'
    BY <2>1 DEF FramesFit
  <2>3. ASSUME NEW l \in Legs PROVE Chain(l)'
    <3>1. (\A i \in DOMAIN toPage : ~KeyedTo(toPage[i], l))'
      BY <2>1 DEF KeyedTo, OfGen
    <3>2. (Shown(l) = 0 /\ Room(0, l) /\ Ends(0, l))'
      BY <1>1, <1>3, ProtocolAssumption DEF Shown, Room, Ends
    <3>3. 0 \in Nat
      OBVIOUS
    <3> QED BY <1>2, <3>1, <3>2, <3>3, ChainRestarts
  <2> QED BY <2>2, <2>3
<1>5. CASE gen # g
  <2>1. /\ \A i \in DOMAIN toPage' : OfGen(i)' => i \in DOMAIN toPage
        /\ ~Owns(gen)'
    BY <1>5, BuildReplies
  <2>2. ASSUME NEW i \in DOMAIN toPage', NEW r, r = toPage'[i], r.gen = gen,
               r.kind = "frames"
        PROVE  FrameFits(r)'
    <3>1. i \in DOMAIN toPage /\ toPage[i] = r
      BY <1>1, <1>2, <2>1, <2>2 DEF OfGen
    <3>2. FrameFits(r)
      BY <2>2, <3>1 DEF RingInv, PageInv, FramesFit, OfGen
    <3> QED BY <2>1, <3>2 DEF FrameFits, ShownEpoch, SameShown
  <2>3. FramesFit'
    BY <1>1, <2>2 DEF FramesFit, OfGen
  <2>4. ASSUME NEW l \in Legs PROVE Chain(l)'
    <3>1. /\ Chain(l) /\ UNCHANGED <<gen, awaitingRun>>
          /\ Shown(l)' = Shown(l) /\ ShownEpoch(l)' = ShownEpoch(l)
          /\ \A n \in Nat : Room(n, l) => Room(n, l)'
          /\ \A n \in Nat : Ends(n, l)'
      BY <2>1 DEF RingInv, PageInv, Chains, SameShown, Shown, ShownEpoch, Room, Ends
    <3>2. CASE toPage' = toPage
      BY <1>2, <3>1, <3>2, ChainStays
    <3>3. ASSUME NEW r, BuildTold(g, r) PROVE Chain(l)'
      <4>1. toPage' = Append(toPage, r) /\ r.gen # gen
        BY <1>5, <3>3 DEF BuildTold
      <4>2. \A n \in Nat : Follows(r, n, n, l)
        BY <4>1 DEF Follows, KeyedTo
      <4>3. \A n \in Nat : Ends(n, l) =>
               \E m \in Nat : /\ Follows(r, n, m, l)
                              /\ Room(n, l) => Room(m, l)
                              /\ Ends(m, l)'
        BY <3>1, <4>2
      <4> QED BY <1>2, <3>1, <4>1, <4>3, ChainGrows
    <3> QED BY <3>2, <3>3, BuildEnds DEF NewBuild
  <2> QED BY <2>3, <2>4
<1> QED BY <1>4, <1>5

(* A build taken up.                                                        *)
LEMMA BuildRing ==
  ASSUME SessionInv, SessionInv', StillOld, RingInv, UNCHANGED shownVars, NEW g \in 1..MaxGen,
         NewBuild(g), NEW d \in Int, RequestsFrom(d)
  PROVE  RingInv'
<1>1. /\ awaitingRun
      /\ \A i \in DOMAIN toWorker : toWorker[i].kind # "build" => toWorker[i].gen # g
      /\ \A i \in DOMAIN suspended : suspended[i].gen < g
  BY BuildUnheard
<1>2. CallInv /\ Build(g)
  BY DEF SessionInv, NewBuild
<1>3. BookInv' /\ PartsFit'
  BY <1>1, <1>2, BuildBooks, BuildParts
<1>4. /\ SameShown /\ UNCHANGED <<gen, awaitingRun, legEpoch, done>>
      /\ Rings' /\ LegsOld' /\ TakenUp'
  BY PageUntouched DEF RingInv, PageInv
<1>5. RequestsOld'
  BY <1>4, RequestsStayOld DEF RingInv, PageInv
<1>6. RequestsFit'
  <2>1. live' # NoLive => live'.gen = g
    BY <1>2, BuildEnds DEF BuildTold
  <2>2. live' # NoLive => \A i \in DOMAIN toWorker' : ~OfLive(i)'
    BY <1>1, <2>1 DEF OfLive, RequestsFrom
  <2> QED BY <2>2 DEF RequestsFit, RequestFits, Rewinds, Extends
<1>7. ReplyOrder' /\ Unheard' /\ FramesFit' /\ \A l \in Legs : Chain(l)'
  BY <1>4, BuildInOrder, BuildFrames
<1>8. Sync' /\ ForeignOver'
  BY <1>1, <1>4 DEF Sync, ForeignOver
<1> QED BY <1>3, <1>4, <1>5, <1>6, <1>7, <1>8 DEF RingInv, PageInv, Chains

(* A build request is received, or a build that waited begins.              *)
LEMMA BuildsRing ==
  ASSUME SessionInv, SessionInv', StillOld, RingInv, UNCHANGED shownVars,
         ReceiveBuild \/ BuildWaiting
  PROVE  RingInv'
<1>1. /\ QueueInv /\ RequestsTyped /\ IsSeq(toWorker) /\ AsideTypes
      /\ GensAreIssued /\ 0 \in Int /\ 1 \in Int
  BY DEF SessionInv, GenInv, RequestsTyped, QueueInv
<1>2. CASE ReceiveBuild
  <2>1. PICK g : g = Head(toWorker).gen
    OBVIOUS
  <2>2. toWorker # <<>> /\ toWorker' = Tail(toWorker) /\ Head(toWorker).kind = "build"
    BY <1>2 DEF ReceiveBuild, Received
  <2>3. g \in 1..MaxGen /\ 1 \in Builds /\ g = toWorker[1].gen
    BY <1>1, <2>1, <2>2, HeadRequest DEF IsRequest, Builds, IsBuild
  <2>4. Issued(g) /\ \A h : Old(h) => h < g
    BY <1>1, <2>3 DEF GensAreIssued, Old, Issued
  <2>5. RequestsFrom(1)
    BY <1>1, <2>2, RequestsShifted
  <2>6. CASE ready
    <3>1. NewBuild(g)
      BY <1>2, <2>1, <2>4, <2>6 DEF ReceiveBuild, NewBuild
    <3> QED BY <1>1, <2>3, <2>5, <3>1, BuildRing
  <2>7. CASE ~ready
    <3>1. UNCHANGED <<toPage, live, books, parts, suspended, running>>
      BY <1>2, <2>7 DEF ReceiveBuild
    <3> QED BY <1>1, <2>5, <3>1, WorkerStays
  <2> QED BY <2>6, <2>7
<1>3. CASE BuildWaiting
  <2>1. PICK g : g = Head(waiting)
    OBVIOUS
  <2>2. waiting # <<>> /\ toWorker' = toWorker /\ Build(g)
    BY <1>3, <2>1 DEF BuildWaiting
  <2>3. 1 \in DOMAIN waiting /\ g = waiting[1] /\ g \in 1..MaxGen
    <3>1. waiting \in Seq(1..MaxGen)
      BY <1>1 DEF AsideTypes
    <3>2. IsSeq(waiting)
      BY <3>1, SeqIsSeq
    <3>3. 1 \in DOMAIN waiting /\ Head(waiting) = waiting[1]
      BY <2>2, <3>2, Taken
    <3>4. waiting[1] \in 1..MaxGen
      BY <2>2, <3>1, HeadTailProperties, <3>3
    <3> QED BY <2>1, <3>3, <3>4
  <2>4. Issued(g) /\ \A h : Old(h) => h < g
    BY <1>1, <2>3 DEF GensAreIssued, Old, Issued
  <2>5. RequestsFrom(0)
    BY <1>1, <2>2, RequestsUntouched
  <2>6. NewBuild(g)
    BY <2>2, <2>4 DEF NewBuild
  <2> QED BY <1>1, <2>3, <2>5, <2>6, BuildRing
<1> QED BY <1>2, <1>3

-----------------------------------------------------------------------------
(* The page's steps.  They leave the worker alone, and post a request or    *)
(* none.                                                                    *)
LEMMA PageAlone ==
  ASSUME RingInv, UNCHANGED workerVars
  PROVE  /\ BookInv' /\ PartsFit' /\ LegsGoOn
         /\ UNCHANGED <<live, epoch, recorded, allowance>>
         /\ \A l \in Legs : FillOver(l)' <=> FillOver(l)
<1>1. UNCHANGED <<live, recorded, allowance, recording, epoch, posted, rewoundFrom,
                  suspended, running>>
  BY DEF workerVars, books, parts
<1>2. SameFlight /\ BooksNext /\ PartsFit'
  BY <1>1 DEF SameFlight, BooksNext, RingInv, BookInv, BooksOf, PartsFit
<1>3. BookInv'
  BY <1>2, BooksStay
<1>4. \A l \in Legs : FillOver(l)' <=> FillOver(l)
  BY <1>1 DEF FillOver, OverIn, Flies, Owns
<1> QED BY <1>1, <1>2, <1>3, <1>4, LegsUntouched

(* No request posted but a build, if any.                                   *)
LEMMA BuildPosted ==
  ASSUME IsSeq(toWorker),
         toWorker' = toWorker \/ \E m : m.kind = "build" /\ toWorker' = Append(toWorker, m)
  PROVE  RequestsFrom(0) /\ IsSeq(toWorker')
<1>1. CASE toWorker' = toWorker
  BY <1>1, RequestsUntouched
<1>2. ASSUME NEW m, m.kind = "build", toWorker' = Append(toWorker, m)
      PROVE  RequestsFrom(0) /\ IsSeq(toWorker')
  <2>1. /\ IsSeq(toWorker') /\ DOMAIN toWorker = 1..Len(toWorker) /\ Len(toWorker) \in Nat
        /\ DOMAIN toWorker' = 1..(Len(toWorker) + 1)
        /\ \A i \in DOMAIN toWorker : toWorker'[i] = toWorker[i]
        /\ toWorker'[Len(toWorker) + 1] = m
    BY <1>2, Appended
  <2>2. ASSUME NEW i \in DOMAIN toWorker'
        PROVE  \/ toWorker'[i].kind = "build"
               \/ i + 0 \in DOMAIN toWorker /\ toWorker'[i] = toWorker[i + 0]
    <3>1. CASE i = Len(toWorker) + 1
      BY <1>2, <2>1, <3>1
    <3>2. CASE i # Len(toWorker) + 1
      <4>1. i \in DOMAIN toWorker /\ i + 0 = i
        BY <2>1, <3>2
      <4> QED BY <2>1, <4>1
    <3> QED BY <3>1, <3>2
  <2> QED BY <2>1, <2>2 DEF RequestsFrom
<1> QED BY <1>1, <1>2

(* An edit: of its build there are no requests, no replies and no frames.   *)
LEMMA EditRing ==
  ASSUME SessionInv, SessionInv', StillOld, RingInv, Edit, UNCHANGED workerVars
  PROVE  RingInv'
<1>0. IsSeq(toWorker) /\ gen \in Nat /\ Old(live.gen) /\ QueueInv /\ IsSeq(toPage) /\ IsSeq(toWorker')
  BY DEF SessionInv, RequestsTyped, GenInv, PageTypes
<1>1. /\ gen' = gen + 1 /\ awaitingRun' = TRUE
      /\ UNCHANGED <<toPage, ring, done, legEpoch, legGen, continues>>
  BY DEF Edit, legVars
<1>2. RequestsFrom(0)
  <2>1. toWorker' = toWorker \/ toWorker' = Append(toWorker, BuildRequest(gen'))
    BY DEF Edit, Send
  <2>2. BuildRequest(gen').kind = "build"
    BY DEF BuildRequest
  <2> QED BY <1>0, <2>1, <2>2, BuildPosted
<1>3. /\ BookInv' /\ PartsFit' /\ LegsGoOn
      /\ UNCHANGED <<live, epoch, recorded, allowance>>
  BY PageAlone
<1>4. RequestsFit'
  BY <1>0, <1>2, <1>3, RequestsStayFit DEF RingInv
<1>5. \A h : Old(h) => h \in Nat /\ h < gen' /\ h # gen' /\ Old(h)'
  BY <1>0, <1>1 DEF Old, Issued, StillOld
<1>6. ~Owns(gen)' /\ \A i \in DOMAIN toPage' : ~OfGen(i)'
  <2>1. live.gen # gen'
    BY <1>0, <1>5
  <2>2. \A i \in DOMAIN toPage : toPage[i].gen # gen'
    BY <1>5 DEF SessionInv, RepliesOld
  <2> QED BY <1>1, <1>3, <2>1, <2>2 DEF Owns, OfGen
<1>7. RequestsOld'
  <2>1. ASSUME NEW i \in DOMAIN toWorker', toWorker'[i].kind # "build"
        PROVE  i + 0 \in DOMAIN toWorker /\ toWorker'[i] = toWorker[i + 0]
    BY <1>2, <2>1 DEF RequestsFrom
  <2>2. ASSUME NEW i \in DOMAIN toWorker', toWorker'[i].kind # "build", NEW g,
               g = toWorker'[i].gen
        PROVE  Old(g)' /\ g < gen'
    <3>1. Old(g)
      BY <2>1, <2>2 DEF RingInv, PageInv, RequestsOld
    <3> QED BY <1>5, <3>1
  <2> QED BY <2>2 DEF RequestsOld
<1>8. LegsOld'
  <2>1. \A l \in Legs : legGen[l] \in Nat /\ legGen[l] <= gen
    BY DEF SessionInv, PageTypes, RingInv, PageInv, LegsOld
  <2> QED BY <1>0, <1>1, <2>1 DEF LegsOld
<1>9. ReplyOrder' /\ Unheard' /\ FramesFit' /\ TakenUp' /\ Sync' /\ ForeignOver'
  BY <1>1, <1>6 DEF ReplyOrder, Opens, Closes, Unheard, FramesFit, TakenUp, Sync, ForeignOver
<1>10. ASSUME NEW l \in Legs PROVE Chain(l)'
  <2>1. (\A i \in DOMAIN toPage : ~KeyedTo(toPage[i], l))'
    BY <1>6 DEF KeyedTo, OfGen
  <2>2. (Shown(l) = 0 /\ Room(0, l) /\ Ends(0, l))'
    BY <1>1, <1>6, ProtocolAssumption DEF Shown, Room, Ends
  <2>3. 0 \in Nat /\ IsSeq(toPage')
    BY <1>0, <1>1
  <2> QED BY <2>1, <2>2, <2>3, ChainRestarts
<1>11. Rings'
  <2>1. ASSUME NEW l \in Legs PROVE RingFits(l)'
    <3>1. RingFits(l)
      BY DEF RingInv, PageInv, Rings
    <3>2. legGen'[l] # gen'
      <4>1. legGen[l] \in Nat /\ legGen[l] <= gen
        BY DEF SessionInv, PageTypes, RingInv, PageInv, LegsOld
      <4>2. legGen[l] # gen + 1
        BY <1>0, <4>1
      <4> QED BY <1>1, <4>2
    <3> QED BY <1>1, <3>1, <3>2 DEF RingFits
  <2> QED BY <2>1 DEF Rings
<1> QED BY <1>3, <1>4, <1>7, <1>8, <1>9, <1>10, <1>11 DEF RingInv, PageInv, Chains

(* The debounce runs out: a build is posted, or none.                       *)
LEMMA TimerRing ==
  ASSUME SessionInv, SessionInv', StillOld, RingInv, TimerFires, UNCHANGED workerVars
  PROVE  RingInv'
<1>0. IsSeq(toWorker)
  BY DEF SessionInv, RequestsTyped
<1>1. UNCHANGED shownVars /\ UNCHANGED toPage
  BY DEF TimerFires, shownVars
<1>2. RequestsFrom(0) /\ 0 \in Int
  <2>1. toWorker' = toWorker \/ toWorker' = Append(toWorker, BuildRequest(timer))
    BY DEF TimerFires, Send
  <2>2. BuildRequest(timer).kind = "build"
    BY DEF BuildRequest
  <2> QED BY <1>0, <2>1, <2>2, BuildPosted
<1>3. UNCHANGED <<live, books, parts, suspended, running>>
  BY DEF workerVars
<1> QED BY <1>1, <1>2, <1>3, WorkerStays

(* One more request, m, at the end.                                         *)
LEMMA RequestPosted ==
  ASSUME IsSeq(toWorker), NEW m, toWorker' = Append(toWorker, m)
  PROVE  \E n \in Nat : /\ DOMAIN toWorker = 1..n /\ DOMAIN toWorker' = 1..(n + 1)
                        /\ \A i \in 1..n : toWorker'[i] = toWorker[i]
                        /\ toWorker'[n + 1] = m
                        /\ \A i \in 1..(n + 1) : i \in 1..n \/ i = n + 1
<1>1. /\ DOMAIN toWorker = 1..Len(toWorker) /\ Len(toWorker) \in Nat
      /\ DOMAIN toWorker' = 1..(Len(toWorker) + 1)
      /\ \A i \in DOMAIN toWorker : toWorker'[i] = toWorker[i]
      /\ toWorker'[Len(toWorker) + 1] = m
  BY Appended
<1>2. PICK n \in Nat : n = Len(toWorker)
  BY <1>1
<1>3. \A i \in 1..(n + 1) : i \in 1..n \/ i = n + 1
  BY <1>2
<1> QED BY <1>1, <1>2, <1>3

(* A continue is for a leg whose first fill is over, and which the page     *)
(* shows as the worker keeps it.                                            *)
LEMMA ContinueIsCurrent ==
  ASSUME RingInv, NEW l \in Legs, PressContinue(l)
  PROVE  /\ ~awaitingRun /\ Old(gen)
         /\ Owns(gen) =>
               /\ Synced(l) /\ FillOver(l) /\ legEpoch[l] = epoch[l]
               /\ \A i \in DOMAIN toWorker : ~Rewinds(i, l)
<1>1. ~awaitingRun /\ done[l] # NotDone
  BY DEF PressContinue, CanRecordFurther, NotDone
<1>2. Old(gen)
  BY <1>1 DEF RingInv, PageInv, TakenUp
<1>3. Owns(gen) => Synced(l)
  BY <1>1 DEF RingInv, PageInv, Sync
<1> QED BY <1>1, <1>2, <1>3 DEF Synced

(* What a posted request leaves of those for the legs.                      *)
LEMMA OtherLegs ==
  ASSUME IsSeq(toWorker), NEW m, toWorker' = Append(toWorker, m), NEW k,
         m.leg # k \/ m.gen # live.gen
  PROVE  RequestsOf(0, k) /\ IsSeq(toWorker')
<1>1. PICK n \in Nat : /\ DOMAIN toWorker = 1..n /\ DOMAIN toWorker' = 1..(n + 1)
                       /\ \A i \in 1..n : toWorker'[i] = toWorker[i]
                       /\ toWorker'[n + 1] = m
                       /\ \A i \in 1..(n + 1) : i \in 1..n \/ i = n + 1
  BY RequestPosted
<1>2. \A i \in 1..n : i + 0 \in 1..n /\ i + 0 = i
  OBVIOUS
<1>3. RequestsOf(0, k)
  BY <1>1, <1>2 DEF RequestsOf
<1>4. IsSeq(toWorker')
  BY Appended
<1> QED BY <1>3, <1>4

(* The requests are of builds taken up, with one more.                      *)
LEMMA OldPosted ==
  ASSUME IsSeq(toWorker), RequestsOld, StillOld, NEW m, toWorker' = Append(toWorker, m),
         m.gen = gen, Old(gen), ~awaitingRun'
  PROVE  RequestsOld'
<1>1. PICK n \in Nat : /\ DOMAIN toWorker = 1..n /\ DOMAIN toWorker' = 1..(n + 1)
                       /\ \A i \in 1..n : toWorker'[i] = toWorker[i]
                       /\ toWorker'[n + 1] = m
                       /\ \A i \in 1..(n + 1) : i \in 1..n \/ i = n + 1
  BY RequestPosted
<1>2. ASSUME NEW i \in DOMAIN toWorker', toWorker'[i].kind # "build", NEW g,
             g = toWorker'[i].gen
      PROVE  Old(g)'
  <2>1. Old(g)
    <3>1. CASE i \in 1..n
      BY <1>1, <1>2, <3>1 DEF RequestsOld
    <3>2. CASE i = n + 1
      BY <1>1, <1>2, <3>2
    <3> QED BY <1>1, <3>1, <3>2
  <2> QED BY <2>1 DEF StillOld
<1> QED BY <1>2 DEF RequestsOld

(* The requests fit, with a continue more.                                  *)
LEMMA ContinueFits ==
  ASSUME SessionInv, SessionInv', RingInv, NEW l \in Legs, PressContinue(l),
         UNCHANGED workerVars
  PROVE  RequestsFit'
<1> DEFINE m == ExtendRequest(gen, l, legEpoch[l])
<1>0. m.kind = "extend" /\ m.gen = gen /\ m.leg = l /\ m.epoch = legEpoch[l]
  BY DEF ExtendRequest
<1>1. toWorker' = Append(toWorker, m) /\ gen' = gen
  BY DEF PressContinue, Send, clientVars
<1> HIDE DEF m
<1>2. IsSeq(toWorker) /\ IsSeq(toWorker')
  BY DEF SessionInv, RequestsTyped
<1>3. /\ UNCHANGED <<live, epoch>>
      /\ \A k \in Legs : FillOver(k)' <=> FillOver(k)
  BY PageAlone
<1> SUFFICES ASSUME live # NoLive, NEW k \in Legs PROVE RequestFits(k)'
  BY <1>3 DEF RequestsFit
<1>4. RequestFits(k)
  BY DEF RingInv, RequestsFit
<1>5. CASE k # l \/ ~Owns(gen)
  <2>1. m.leg # k \/ m.gen # live.gen
    BY <1>0, <1>5 DEF Owns
  <2>2. RequestsOf(0, k)
    BY <1>1, <1>2, <2>1, OtherLegs
  <2> QED BY <1>2, <1>3, <1>4, <2>2, RequestsStayFitOf
<1>6. CASE k = l /\ Owns(gen)
  <2>1. /\ FillOver(l) /\ legEpoch[l] = epoch[l]
        /\ \A i \in DOMAIN toWorker : ~Rewinds(i, l)
    BY <1>6, ContinueIsCurrent
  <2>2. PICK n \in Nat : /\ DOMAIN toWorker = 1..n /\ DOMAIN toWorker' = 1..(n + 1)
                         /\ \A i \in 1..n : toWorker'[i] = toWorker[i]
                         /\ toWorker'[n + 1] = m
                         /\ \A i \in 1..(n + 1) : i \in 1..n \/ i = n + 1
    BY <1>1, <1>2, RequestPosted
  <2>3. \A i \in DOMAIN toWorker' : ~Rewinds(i, l)'
    BY <1>0, <1>3, <2>1, <2>2 DEF Rewinds, OfLive
  <2>4. \A i \in DOMAIN toWorker' : Extends(i, l)' => toWorker'[i].epoch = epoch[l]
    BY <1>0, <1>3, <1>4, <1>6, <2>1, <2>2 DEF Extends, OfLive, RequestFits
  <2> QED BY <1>3, <1>6, <2>1, <2>3, <2>4 DEF RequestFits
<1> QED BY <1>5, <1>6

(* A continue: the leg is counted as continued, and keeps in step.          *)
LEMMA ContinueRing ==
  ASSUME SessionInv, SessionInv', StillOld, RingInv, NEW l \in Legs, PressContinue(l),
         UNCHANGED workerVars
  PROVE  RingInv'
<1> DEFINE m == ExtendRequest(gen, l, legEpoch[l])
<1>0. m.kind = "extend" /\ m.gen = gen /\ m.leg = l /\ m.epoch = legEpoch[l]
  BY DEF ExtendRequest
<1>1. /\ toWorker' = Append(toWorker, m)
      /\ UNCHANGED <<toPage, gen, awaitingRun, ring, done, legEpoch, legGen>>
      /\ continues' = [continues EXCEPT ![l] = @ + 1]
  BY DEF PressContinue, Send, clientVars
<1> HIDE DEF m
<1>2. IsSeq(toWorker) /\ IsSeq(toPage) /\ continues \in [Legs -> Nat]
  BY DEF SessionInv, RequestsTyped, RepliesTyped, PageTypes
<1>3. /\ BookInv' /\ PartsFit' /\ LegsGoOn
      /\ UNCHANGED <<live, epoch, recorded, allowance>>
      /\ \A k \in Legs : FillOver(k)' <=> FillOver(k)
  BY PageAlone
<1>4. RequestsFit'
  BY ContinueFits
<1>5. /\ ~awaitingRun /\ Old(gen)
      /\ Owns(gen) => /\ Synced(l) /\ FillOver(l) /\ legEpoch[l] = epoch[l]
                      /\ \A i \in DOMAIN toWorker : ~Rewinds(i, l)
  BY ContinueIsCurrent
<1>6. continues'[l] > 0 /\ \A k \in Legs : k # l => continues'[k] = continues[k]
  BY <1>1, <1>2
<1>7. RequestsOld'
  BY <1>0, <1>1, <1>2, <1>5, OldPosted DEF RingInv, PageInv
<1>8. TakenUp'
  <2>1. PICK g : g = gen /\ Old(g)
    BY <1>5
  <2>2. Old(g)'
    BY <2>1 DEF StillOld
  <2> QED BY <1>1, <2>1, <2>2 DEF TakenUp
<1>9. LegsOld'
  BY <1>1 DEF RingInv, PageInv, LegsOld
<1>10. ReplyOrder' /\ Unheard' /\ ForeignOver'
  BY <1>1, <1>3, <1>5 DEF RingInv, PageInv, ReplyOrder, Opens, Closes, OfGen, Owns, Unheard,
                        ForeignOver, Foreign
<1>11. FramesFit'
  <2> SUFFICES ASSUME NEW i \in DOMAIN toPage, NEW r, r = toPage[i], r.gen = gen,
                      r.kind = "frames"
               PROVE  FrameFits(r)'
    BY <1>1 DEF FramesFit, OfGen
  <2>1. FrameFits(r) /\ r.leg \in Legs
    BY DEF RingInv, PageInv, FramesFit, OfGen, SessionInv, RepliesTyped, IsReply
  <2> QED BY <1>1, <1>3, <2>1 DEF FrameFits, ShownEpoch, Owns
<1>12. ASSUME NEW k \in Legs PROVE Chain(k)'
  <2>1. /\ Chain(k) /\ Shown(k)' = Shown(k) /\ ShownEpoch(k)' = ShownEpoch(k)
        /\ \A n \in Nat : Ends(n, k) => Ends(n, k)'
    BY <1>1, <1>3 DEF RingInv, PageInv, Chains, Shown, ShownEpoch, Ends, Owns
  <2>2. \A n \in Nat : Room(n, k) => Room(n, k)'
    <3>1. continues'[l] # 0
      BY <1>6
    <3>2. continues'[k] = continues[k] \/ continues'[k] # 0
      BY <1>6, <3>1
    <3> QED BY <1>1, <3>2 DEF Room
  <2> QED BY <1>1, <1>2, <2>1, <2>2, ChainStays
<1>13. Sync'
  <2> SUFFICES ASSUME Owns(gen), NEW k \in Legs PROVE Synced(k)'
    BY <1>1, <1>3 DEF Sync, Owns
  <2>1. CASE k = l
    <3>1. PICK n \in Nat : /\ DOMAIN toWorker = 1..n /\ DOMAIN toWorker' = 1..(n + 1)
                           /\ \A i \in 1..n : toWorker'[i] = toWorker[i]
                           /\ toWorker'[n + 1] = m
                           /\ \A i \in 1..(n + 1) : i \in 1..n \/ i = n + 1
      BY <1>1, <1>2, RequestPosted
    <3>2. \A i \in DOMAIN toWorker' : ~Rewinds(i, l)'
      BY <1>0, <1>3, <1>5, <3>1 DEF Rewinds, OfLive
    <3> QED BY <1>1, <1>3, <1>5, <1>6, <2>1, <3>2 DEF Synced
  <2>2. CASE k # l
    <3>1. Synced(k)
      BY <1>5 DEF RingInv, PageInv, Sync
    <3>2. RequestsOf(0, k)
      BY <1>0, <1>1, <1>2, <2>2, OtherLegs
    <3>3. UNCHANGED <<legEpoch[k], ring[k], done[k], continues[k]>>
      BY <1>1, <1>6, <2>2
    <3> QED BY <1>3, <3>1, <3>2, <3>3, SyncedOn
  <2> QED BY <2>1, <2>2
<1>14. ASSUME NEW k \in Legs PROVE RingFits(k)'
  <2>1. continues'[l] # 0
    BY <1>6
  <2>2. continues'[k] = continues[k] \/ continues'[k] # 0
    BY <1>6, <2>1
  <2>3. RingFits(k)
    BY DEF RingInv, PageInv, Rings
  <2> QED BY <1>1, <2>2, <2>3 DEF RingFits
<1> QED BY <1>3, <1>4, <1>7, <1>8, <1>9, <1>10, <1>11, <1>12, <1>13, <1>14
        DEF RingInv, PageInv, Chains, Rings

(* A restart is of a leg the page shows as the worker keeps it, and that    *)
(* somebody continued: its first fill is over.                              *)
LEMMA RestartIsCurrent ==
  ASSUME SessionInv, RingInv, NEW l \in Legs, PressRestart(l)
  PROVE  /\ ~awaitingRun /\ Old(gen)
         /\ Owns(gen) =>
               /\ FillOver(l) /\ legEpoch[l] = epoch[l]
               /\ \A i \in DOMAIN toWorker : ~Rewinds(i, l)
<1>1. ring[l].frames # <<>> /\ ring[l].first > 0 /\ legGen[l] = gen
  BY DEF PressRestart, Evicted
<1>2. gen \in Nat /\ continues[l] \in Nat /\ ring[l].first \in Nat
  BY DEF SessionInv, PageTypes
<1>3. ~awaitingRun
  <2>1. awaitingRun => legGen[l] < gen
    BY DEF RingInv, PageInv, LegsOld
  <2> QED BY <1>1, <1>2, <2>1
<1>4. Old(gen)
  BY <1>3 DEF RingInv, PageInv, TakenUp
<1>5. continues[l] > 0
  <2>1. continues[l] = 0 => ring[l].first = 0
    BY DEF RingInv, PageInv, Rings, RingFits
  <2> QED BY <1>1, <1>2, <2>1
<1>6. ASSUME Owns(gen)
      PROVE  /\ FillOver(l) /\ legEpoch[l] = epoch[l]
             /\ \A i \in DOMAIN toWorker : ~Rewinds(i, l)
  <2>1. Synced(l)
    BY <1>3, <1>6 DEF RingInv, PageInv, Sync
  <2>2. ring[l] # EmptyRing
    BY <1>1 DEF EmptyRing
  <2> QED BY <1>5, <2>1, <2>2 DEF Synced
<1> QED BY <1>3, <1>4, <1>6

(* The requests fit, with a rewind more.                                    *)
LEMMA RestartFits ==
  ASSUME SessionInv, SessionInv', RingInv, NEW l \in Legs, PressRestart(l),
         UNCHANGED workerVars
  PROVE  RequestsFit'
<1>0. PICK e : e = legEpoch'[l]
  OBVIOUS
<1> DEFINE m == RewindRequest(gen, l, e)
<1>1. m.kind = "rewind" /\ m.gen = gen /\ m.leg = l /\ m.epoch = e
  BY DEF RewindRequest
<1>2. toWorker' = Append(toWorker, m) /\ legEpoch[l] \in Nat /\ e = legEpoch[l] + 1
  BY <1>0 DEF PressRestart, Send, SessionInv, PageTypes
<1> HIDE DEF m
<1>3. IsSeq(toWorker) /\ IsSeq(toWorker')
  BY DEF SessionInv, RequestsTyped
<1>4. /\ UNCHANGED <<live, epoch>>
      /\ \A k \in Legs : FillOver(k)' <=> FillOver(k)
  BY PageAlone
<1> SUFFICES ASSUME live # NoLive, NEW k \in Legs PROVE RequestFits(k)'
  BY <1>4 DEF RequestsFit
<1>5. RequestFits(k)
  BY DEF RingInv, RequestsFit
<1>6. CASE k # l \/ ~Owns(gen)
  <2>1. m.leg # k \/ m.gen # live.gen
    BY <1>1, <1>6 DEF Owns
  <2>2. RequestsOf(0, k)
    BY <1>2, <1>3, <2>1, OtherLegs
  <2> QED BY <1>3, <1>4, <1>5, <2>2, RequestsStayFitOf
<1>7. CASE k = l /\ Owns(gen)
  <2>1. /\ FillOver(l) /\ legEpoch[l] = epoch[l]
        /\ \A i \in DOMAIN toWorker : ~Rewinds(i, l)
    BY <1>7, RestartIsCurrent
  <2>2. PICK n \in Nat : /\ DOMAIN toWorker = 1..n /\ DOMAIN toWorker' = 1..(n + 1)
                         /\ \A i \in 1..n : toWorker'[i] = toWorker[i]
                         /\ toWorker'[n + 1] = m
                         /\ \A i \in 1..(n + 1) : i \in 1..n \/ i = n + 1
    BY <1>2, <1>3, RequestPosted
  <2>3. \A i \in DOMAIN toWorker' : Rewinds(i, l)' => i = n + 1 /\ toWorker'[i] = m
    BY <1>4, <2>1, <2>2 DEF Rewinds, OfLive
  <2>4. ASSUME NEW i \in DOMAIN toWorker', Extends(i, l)'
        PROVE  toWorker'[i].epoch = epoch[l] /\ i < n + 1
    <3>1. i \in 1..n
      BY <1>1, <2>2, <2>4 DEF Extends
    <3>2. i \in DOMAIN toWorker /\ toWorker'[i] = toWorker[i] /\ Extends(i, l)
      BY <1>4, <2>2, <2>4, <3>1 DEF Extends, OfLive
    <3> QED BY <1>5, <1>7, <3>1, <3>2 DEF RequestFits
  <2>5. ASSUME NEW i \in DOMAIN toWorker', Extends(i, l)'
        PROVE  /\ FillOver(l)' /\ toWorker'[i].epoch = epoch'[l]
               /\ \A j \in DOMAIN toWorker' : Rewinds(j, l)' => i < j
    BY <1>4, <2>1, <2>3, <2>4, <2>5
  <2>6. ASSUME NEW i \in DOMAIN toWorker', Rewinds(i, l)'
        PROVE  /\ FillOver(l)' /\ toWorker'[i].epoch = epoch'[l] + 1
               /\ \A j \in DOMAIN toWorker' : Rewinds(j, l)' => i = j
    BY <1>1, <1>2, <1>4, <2>1, <2>3, <2>6
  <2>7. RequestFits(l)'
    BY <2>5, <2>6 DEF RequestFits
  <2> QED BY <1>7, <2>7
<1> QED BY <1>6, <1>7

(* A restart: the leg is cleared and begins its next epoch.                 *)
LEMMA RestartRing ==
  ASSUME SessionInv, SessionInv', StillOld, RingInv, NEW l \in Legs, PressRestart(l),
         UNCHANGED workerVars
  PROVE  RingInv'
<1>0. PICK e : e = legEpoch'[l]
  OBVIOUS
<1> DEFINE m == RewindRequest(gen, l, e)
<1>1. m.kind = "rewind" /\ m.gen = gen /\ m.leg = l /\ m.epoch = e
  BY DEF RewindRequest
<1>2. /\ IsSeq(toWorker) /\ IsSeq(toPage) /\ legEpoch \in [Legs -> Nat]
      /\ ring \in [Legs -> RingType] /\ done \in [Legs -> DoneType]
      /\ continues \in [Legs -> Nat]
  BY DEF SessionInv, RequestsTyped, RepliesTyped, PageTypes, RingType
<1>3. /\ toWorker' = Append(toWorker, m)
      /\ UNCHANGED <<toPage, gen, awaitingRun, legGen>>
      /\ ring'[l] = EmptyRing /\ done'[l] = NotDone /\ continues'[l] = 0
      /\ e = legEpoch[l] + 1
  BY <1>0, <1>2 DEF PressRestart, Send, clientVars
<1>4. \A k \in Legs : k # l => UNCHANGED <<legEpoch[k], ring[k], done[k], continues[k]>>
  BY <1>2 DEF PressRestart
<1> HIDE DEF m
<1>5. /\ BookInv' /\ PartsFit' /\ LegsGoOn
      /\ UNCHANGED <<live, epoch, recorded, allowance>>
      /\ \A k \in Legs : FillOver(k)' <=> FillOver(k)
  BY PageAlone
<1>6. RequestsFit'
  BY RestartFits
<1>7. /\ ~awaitingRun /\ Old(gen)
      /\ Owns(gen) => /\ FillOver(l) /\ legEpoch[l] = epoch[l]
                      /\ \A i \in DOMAIN toWorker : ~Rewinds(i, l)
  BY RestartIsCurrent
<1>8. RequestsOld'
  BY <1>1, <1>2, <1>3, <1>7, OldPosted DEF RingInv, PageInv
<1>9. TakenUp'
  <2>1. PICK g : g = gen /\ Old(g)
    BY <1>7
  <2>2. Old(g)'
    BY <2>1 DEF StillOld
  <2> QED BY <1>3, <2>1, <2>2 DEF TakenUp
<1>10. LegsOld'
  BY <1>3 DEF RingInv, PageInv, LegsOld
<1>11. ReplyOrder' /\ Unheard'
  BY <1>3, <1>5, <1>7 DEF RingInv, PageInv, ReplyOrder, Opens, Closes, OfGen, Owns, Unheard
<1>12. ForeignOver'
  <2>1. ASSUME NEW k \in Legs, Foreign(k)' PROVE Foreign(k)
    BY <1>3, <1>4, <2>1 DEF Foreign, EmptyRing
  <2> QED BY <1>3, <1>5, <1>7, <2>1 DEF RingInv, PageInv, ForeignOver, OfGen, Owns
<1>13. ASSUME NEW k \in Legs
       PROVE  /\ ShownEpoch(k) \in Nat /\ ShownEpoch(k)' \in Nat
              /\ ShownEpoch(k) <= ShownEpoch(k)' /\ ShownEpoch(l) + 1 = ShownEpoch(l)'
              /\ k # l => ShownEpoch(k)' = ShownEpoch(k)
  <2>1. ShownEpoch(k) = legEpoch[k] /\ ShownEpoch(k)' = legEpoch'[k]
        /\ ShownEpoch(l) = legEpoch[l] /\ ShownEpoch(l)' = legEpoch'[l]
    BY <1>3, <1>7 DEF ShownEpoch
  <2>2. legEpoch'[l] = legEpoch[l] + 1 /\ legEpoch[l] \in Nat /\ legEpoch[k] \in Nat
    BY <1>0, <1>2, <1>3
  <2>3. CASE k = l
    BY <2>1, <2>2, <2>3
  <2>4. CASE k # l
    BY <1>4, <2>1, <2>2, <2>4
  <2> QED BY <2>3, <2>4
<1>14. FramesFit'
  <2> SUFFICES ASSUME NEW i \in DOMAIN toPage, NEW r, r = toPage[i], r.gen = gen,
                      r.kind = "frames"
               PROVE  FrameFits(r)'
    BY <1>3 DEF FramesFit, OfGen
  <2>1. FrameFits(r) /\ r.leg \in Legs /\ r.epoch \in Nat
    BY DEF RingInv, PageInv, FramesFit, OfGen, SessionInv, RepliesTyped, IsReply
  <2>2. r.epoch <= ShownEpoch(r.leg)'
    <3>1. r.epoch <= ShownEpoch(r.leg)
      BY <2>1 DEF FrameFits
    <3> QED BY <1>13, <2>1, <3>1
  <2> QED BY <1>3, <1>5, <2>1, <2>2 DEF FrameFits, Owns
<1>15. ASSUME NEW k \in Legs PROVE Chain(k)'
  <2>1. CASE k = l
    <3>1. ASSUME NEW i \in DOMAIN toPage, KeyedTo(toPage[i], l)' PROVE FALSE
      <4>1. PICK r : r = toPage[i] /\ r.kind = "frames" /\ r.gen = gen /\ r.leg = l
                     /\ r.epoch = ShownEpoch(l)'
        BY <1>3, <3>1 DEF KeyedTo
      <4>2. FrameFits(r)
        BY <4>1 DEF RingInv, PageInv, FramesFit, OfGen
      <4>3. r.epoch <= ShownEpoch(l)
        BY <4>1, <4>2 DEF FrameFits
      <4>4. PICK x \in Nat : x = ShownEpoch(l) /\ ShownEpoch(l)' = x + 1
        BY <1>13
      <4>5. x + 1 <= x
        BY <4>1, <4>3, <4>4
      <4> HIDE <3>1
      <4> QED BY <4>5
    <3>2. (\A i \in DOMAIN toPage : ~KeyedTo(toPage[i], l))'
      BY <1>3, <3>1
    <3>3. Shown(l)' = 0
      BY <1>3, <1>7 DEF Shown, EmptyRing
    <3>4. Room(0, l)'
      BY ProtocolAssumption DEF Room
    <3>5. Ends(0, l)'
      <4>1. ~(Owns(gen)' /\ epoch'[l] = ShownEpoch(l)')
        <5>1. Owns(gen)' => legEpoch[l] = epoch[l] /\ epoch'[l] = epoch[l]
          BY <1>3, <1>5, <1>7 DEF Owns
        <5>2. ShownEpoch(l)' = legEpoch[l] + 1
          BY <1>0, <1>3, <1>7 DEF ShownEpoch
        <5>3. legEpoch[l] \in Nat
          BY <1>2
        <5> QED BY <5>1, <5>2, <5>3
      <4> QED BY <4>1 DEF Ends
    <3>6. 0 \in Nat /\ IsSeq(toPage')
      BY <1>2, <1>3
    <3> QED BY <2>1, <3>2, <3>3, <3>4, <3>5, <3>6, ChainRestarts
  <2>2. CASE k # l
    <3>1. UNCHANGED <<legEpoch[k], ring[k], continues[k]>>
      BY <1>4, <2>2
    <3>2. /\ Chain(k) /\ Shown(k)' = Shown(k) /\ ShownEpoch(k)' = ShownEpoch(k)
          /\ \A n \in Nat : Ends(n, k) => Ends(n, k)'
          /\ \A n \in Nat : Room(n, k) => Room(n, k)'
      BY <1>3, <1>5, <3>1 DEF RingInv, PageInv, Chains, Shown, ShownEpoch, Ends, Owns, Room
    <3> QED BY <1>2, <1>3, <3>2, ChainStays
  <2> QED BY <2>1, <2>2
<1>16. Sync'
  <2> SUFFICES ASSUME Owns(gen), NEW k \in Legs PROVE Synced(k)'
    BY <1>3, <1>5 DEF Sync, Owns
  <2>1. CASE k = l
    <3>1. legEpoch'[l] = epoch'[l] + 1 /\ epoch'[l] \in Nat
      BY <1>0, <1>2, <1>3, <1>5, <1>7
    <3>2. /\ legEpoch'[l] # epoch'[l]
          /\ ~(continues'[l] > 0)
      BY <1>3, <3>1
    <3> QED BY <1>3, <2>1, <3>1, <3>2 DEF Synced, EmptyRing
  <2>2. CASE k # l
    <3>1. Synced(k)
      BY <1>7 DEF RingInv, PageInv, Sync
    <3>2. RequestsOf(0, k)
      BY <1>1, <1>2, <1>3, <2>2, OtherLegs
    <3>3. UNCHANGED <<legEpoch[k], ring[k], done[k], continues[k]>>
      BY <1>4, <2>2
    <3> QED BY <1>5, <3>1, <3>2, <3>3, SyncedOn
  <2> QED BY <2>1, <2>2
<1>17. ASSUME NEW k \in Legs PROVE RingFits(k)'
  <2>1. CASE k = l
    <3>1. ring'[l].frames = <<>> /\ ring'[l].first = 0
      BY <1>3 DEF EmptyRing
    <3>2. DOMAIN ring'[l].frames = {} /\ Len(ring'[l].frames) <= History
      BY <3>1, ProtocolAssumption
    <3> QED BY <2>1, <3>1, <3>2 DEF RingFits
  <2>2. CASE k # l
    <3>1. UNCHANGED <<legEpoch[k], ring[k], continues[k], legGen[k]>>
      BY <1>3, <1>4, <2>2
    <3>2. RingFits(k)
      BY DEF RingInv, PageInv, Rings
    <3> QED BY <1>3, <3>1, <3>2 DEF RingFits
  <2> QED BY <2>1, <2>2
<1> QED BY <1>5, <1>6, <1>8, <1>9, <1>10, <1>11, <1>12, <1>14, <1>15, <1>16, <1>17
        DEF RingInv, PageInv, Chains, Rings

-----------------------------------------------------------------------------
(* The page takes a reply, r: the others move up.                           *)
TakesReply(r) ==
    /\ toPage # <<>> /\ r = Head(toPage) /\ toPage' = Tail(toPage)
    /\ UNCHANGED <<toWorker, gen>> /\ UNCHANGED workerVars

LEMMA TakenReply ==
  ASSUME SessionInv, NEW r, TakesReply(r)
  PROVE  /\ IsSeq(toPage) /\ IsSeq(toPage') /\ 1 \in DOMAIN toPage /\ r = toPage[1]
         /\ IsReply(r) /\ Old(r.gen)
         /\ DOMAIN toPage \subseteq Nat \ {0} /\ DOMAIN toPage' \subseteq Nat \ {0}
         /\ \A i \in DOMAIN toPage' : i + 1 \in DOMAIN toPage /\ toPage'[i] = toPage[i + 1]
         /\ \A i \in DOMAIN toPage : i # 1 => i - 1 \in DOMAIN toPage'
<1>1. IsSeq(toPage) /\ toPage # <<>> /\ r = Head(toPage) /\ toPage' = Tail(toPage)
  BY DEF SessionInv, RepliesTyped, TakesReply
<1>2. /\ IsSeq(toPage')
      /\ DOMAIN toPage = 1..Len(toPage) /\ Len(toPage) \in Nat \ {0}
      /\ 1 \in DOMAIN toPage /\ r = toPage[1]
      /\ DOMAIN toPage' = 1..(Len(toPage) - 1)
      /\ \A i \in DOMAIN toPage' : i + 1 \in DOMAIN toPage /\ toPage'[i] = toPage[i + 1]
  BY <1>1, Taken
<1>3. IsReply(r)
  BY <1>2 DEF SessionInv, RepliesTyped
<1>4. Old(r.gen)
  BY <1>2 DEF SessionInv, RepliesOld
<1>5. /\ DOMAIN toPage \subseteq Nat \ {0} /\ DOMAIN toPage' \subseteq Nat \ {0}
      /\ \A i \in DOMAIN toPage : i # 1 => i - 1 \in DOMAIN toPage'
  BY <1>2
<1> QED BY <1>1, <1>2, <1>3, <1>4, <1>5

(* What the others are stays what they were.                                *)
LEMMA OthersMoveUp ==
  ASSUME SessionInv, NEW r, TakesReply(r), NEW i \in DOMAIN toPage'
  PROVE  /\ i + 1 \in DOMAIN toPage /\ i \in Nat \ {0}
         /\ OfGen(i)' <=> OfGen(i + 1)
         /\ Opens(i)' <=> Opens(i + 1)
         /\ Closes(i)' <=> Closes(i + 1)
<1>1. i + 1 \in DOMAIN toPage /\ i \in Nat \ {0} /\ toPage'[i] = toPage[i + 1] /\ gen' = gen
  BY TakenReply DEF TakesReply
<1> QED BY <1>1 DEF OfGen, Opens, Closes

(* The worker's side of a reply taken: nothing.                             *)
LEMMA WorkerUnmoved ==
  ASSUME SessionInv, SessionInv', RingInv, NEW r, TakesReply(r)
  PROVE  /\ BookInv' /\ PartsFit' /\ RequestsFit' /\ RequestsFrom(0)
         /\ UNCHANGED <<live, epoch, recorded, allowance>> /\ gen' = gen
         /\ \A l \in Legs : FillOver(l)' <=> FillOver(l)
<1>1. toWorker' = toWorker /\ IsSeq(toWorker) /\ IsSeq(toWorker') /\ gen' = gen /\ UNCHANGED workerVars
  BY DEF TakesReply, SessionInv, RequestsTyped
<1>2. /\ BookInv' /\ PartsFit' /\ LegsGoOn
      /\ UNCHANGED <<live, epoch, recorded, allowance>>
      /\ \A l \in Legs : FillOver(l)' <=> FillOver(l)
  BY <1>1, PageAlone
<1>3. RequestsFrom(0)
  BY <1>1, RequestsUntouched
<1>4. RequestsFit'
  BY <1>1, <1>2, <1>3, RequestsStayFit DEF RingInv
<1> QED BY <1>1, <1>2, <1>3, <1>4

(* The frames still to come fit.                                            *)
LEMMA FramesMoveUp ==
  ASSUME SessionInv, SessionInv', RingInv, NEW r, TakesReply(r),
         \A l \in Legs : ShownEpoch(l)' = ShownEpoch(l)
  PROVE  FramesFit'
<1>1. /\ UNCHANGED <<live, epoch>> /\ gen' = gen
      /\ \A l \in Legs : FillOver(l)' <=> FillOver(l)
  BY WorkerUnmoved
<1> SUFFICES ASSUME NEW i \in DOMAIN toPage', NEW x, x = toPage'[i], x.gen = gen,
                    x.kind = "frames"
             PROVE  FrameFits(x)'
  BY <1>1 DEF FramesFit, OfGen
<1>2. i + 1 \in DOMAIN toPage /\ x = toPage[i + 1]
  BY TakenReply
<1>3. FrameFits(x) /\ x.leg \in Legs
  BY <1>2 DEF RingInv, PageInv, FramesFit, OfGen, SessionInv, RepliesTyped, IsReply
<1> QED BY <1>1, <1>3 DEF FrameFits, Owns

(* Legs that a reply leaves alone.                                          *)
LegsKept == /\ FramesFit' /\ Chains' /\ Sync' /\ Rings' /\ ForeignOver' /\ LegsOld'

LEMMA LegsAside ==
  ASSUME SessionInv, SessionInv', RingInv, NEW r, TakesReply(r),
         UNCHANGED <<awaitingRun, legVars>>, \A l \in Legs : ~KeyedTo(r, l)
  PROVE  LegsKept
<1>1. UNCHANGED <<gen, awaitingRun, ring, done, legEpoch, legGen, continues>>
  BY DEF TakesReply, legVars
<1>2. /\ UNCHANGED <<live, epoch, recorded, allowance>> /\ RequestsFrom(0)
      /\ \A l \in Legs : FillOver(l)' <=> FillOver(l)
  BY WorkerUnmoved
<1>3. FramesFit'
  BY <1>1, FramesMoveUp DEF ShownEpoch
<1>4. ASSUME NEW l \in Legs PROVE Chain(l)'
  <2>1. /\ Chain(l) /\ Shown(l)' = Shown(l) /\ ShownEpoch(l)' = ShownEpoch(l)
        /\ \A n \in Nat : Ends(n, l) => Ends(n, l)'
        /\ \A n \in Nat : Room(n, l) => Room(n, l)'
    BY <1>1, <1>2 DEF RingInv, PageInv, Chains, Shown, ShownEpoch, Ends, Owns, Room
  <2>2. \A m \in Nat : Follows(Head(toPage), Shown(l), m, l) => m = Shown(l)'
    BY <2>1 DEF Follows, TakesReply
  <2>3. IsSeq(toPage) /\ toPage # <<>> /\ toPage' = Tail(toPage)
    BY DEF TakesReply, SessionInv, RepliesTyped
  <2> QED BY <1>1, <2>1, <2>2, <2>3, ChainShifts
<1>5. Sync'
  <2> SUFFICES ASSUME Owns(gen), ~awaitingRun, NEW l \in Legs PROVE Synced(l)'
    BY <1>1, <1>2 DEF Sync, Owns
  <2>1. Synced(l) /\ RequestsOf(0, l)
    BY <1>2 DEF RingInv, PageInv, Sync, RequestsOf, RequestsFrom
  <2>2. UNCHANGED <<legEpoch[l], ring[l], done[l], continues[l]>>
    BY <1>1
  <2> QED BY <1>2, <2>1, <2>2, SyncedOn
<1>6. Rings' /\ LegsOld'
  BY <1>1 DEF RingInv, PageInv, Rings, RingFits, LegsOld
<1>7. ForeignOver'
  <2> SUFFICES ASSUME ~awaitingRun, NEW l \in Legs, Foreign(l)
               PROVE  /\ Kind # "session" /\ ~Owns(gen)'
                      /\ \A i \in DOMAIN toPage' : ~OfGen(i)'
    BY <1>1 DEF ForeignOver, Foreign
  <2>1. Kind # "session" /\ ~Owns(gen) /\ \A i \in DOMAIN toPage : ~OfGen(i)
    BY DEF RingInv, PageInv, ForeignOver
  <2> QED BY <1>1, <1>2, <2>1, OthersMoveUp DEF Owns
<1> QED BY <1>3, <1>4, <1>5, <1>6, <1>7 DEF LegsKept, Chains

(* A reply of an earlier generation is dropped.                             *)
LEMMA DropRing ==
  ASSUME SessionInv, SessionInv', StillOld, RingInv, NEW r, TakesReply(r),
         UNCHANGED <<awaitingRun, legVars>>, r.gen # gen
  PROVE  RingInv'
<1>1. LegsKept
  BY LegsAside DEF KeyedTo
<1>2. /\ BookInv' /\ PartsFit' /\ RequestsFit' /\ RequestsFrom(0)
      /\ UNCHANGED <<live, epoch, allowance>> /\ gen' = gen
  BY WorkerUnmoved
<1>3. /\ 1 \in DOMAIN toPage /\ r = toPage[1] /\ ~OfGen(1)
      /\ DOMAIN toPage \subseteq Nat \ {0}
      /\ \A i \in DOMAIN toPage : i # 1 => i - 1 \in DOMAIN toPage'
  BY TakenReply DEF OfGen
<1>4. \A i \in DOMAIN toPage' : /\ i + 1 \in DOMAIN toPage /\ i \in Nat \ {0}
                                /\ OfGen(i)' <=> OfGen(i + 1)
                                /\ Opens(i)' <=> Opens(i + 1)
                                /\ Closes(i)' <=> Closes(i + 1)
  BY OthersMoveUp
<1>5. TakenUp' /\ RequestsOld'
  <2>1. ASSUME ~awaitingRun PROVE Old(gen)'
    <3>1. PICK g : g = gen /\ Old(g)
      BY <2>1 DEF RingInv, PageInv, TakenUp
    <3>2. Old(g)'
      BY <3>1 DEF StillOld
    <3> QED BY <1>2, <3>1, <3>2
  <2>2. RequestsOld'
    BY <1>2, RequestsStayOld DEF RingInv, PageInv
  <2> QED BY <2>1, <2>2 DEF TakenUp
<1>6. ASSUME NEW j \in DOMAIN toPage, Opens(j) PROVE \E i \in DOMAIN toPage' : Opens(i)'
  <2>1. j # 1 /\ j \in Nat
    BY <1>3, <1>6 DEF Opens
  <2>2. PICK i \in DOMAIN toPage' : i = j - 1
    BY <1>3, <2>1
  <2>3. i + 1 = j
    BY <2>1, <2>2
  <2> QED BY <1>4, <1>6, <2>3
<1>7. ReplyOrder'
  <2>1. ASSUME NEW i \in DOMAIN toPage', NEW j \in DOMAIN toPage', Opens(i)', OfGen(j)'
        PROVE  i <= j
    <3>1. i + 1 <= j + 1
      BY <1>4, <2>1 DEF RingInv, PageInv, ReplyOrder
    <3>2. i \in Nat /\ j \in Nat
      BY <1>4
    <3> HIDE <2>1
    <3> QED BY <3>1, <3>2
  <2>2. ASSUME NEW i \in DOMAIN toPage', NEW j \in DOMAIN toPage', OfGen(i)', Closes(j)'
        PROVE  i <= j
    <3>1. i + 1 <= j + 1
      BY <1>4, <2>2 DEF RingInv, PageInv, ReplyOrder
    <3>2. i \in Nat /\ j \in Nat
      BY <1>4
    <3> HIDE <2>2
    <3> QED BY <3>1, <3>2
  <2>3. \A i \in DOMAIN toPage' : Closes(i)' => ~Owns(gen)'
    BY <1>2, <1>4 DEF RingInv, PageInv, ReplyOrder, Owns
  <2>4. \A i \in DOMAIN toPage' : Opens(i)' => awaitingRun'
    BY <1>4 DEF RingInv, PageInv, ReplyOrder
  <2>5. ASSUME awaitingRun', NEW i \in DOMAIN toPage', OfGen(i)'
        PROVE  Closes(i)' \/ \E j \in DOMAIN toPage' : Opens(j)'
    BY <1>4, <1>6, <2>5 DEF RingInv, PageInv, ReplyOrder
  <2> QED BY <2>1, <2>2, <2>3, <2>4, <2>5 DEF ReplyOrder
<1>8. Unheard'
  BY <1>2, <1>6 DEF RingInv, PageInv, Unheard, Owns
<1> QED BY <1>1, <1>2, <1>5, <1>7, <1>8 DEF RingInv, PageInv, LegsKept

-----------------------------------------------------------------------------
(* The reply is of the newest build: nothing of it opens it after that, and *)
(* what closes it is alone.                                                 *)
LEMMA AcceptedReply ==
  ASSUME SessionInv, RingInv, NEW r, TakesReply(r), r.gen = gen
  PROVE  /\ OfGen(1) /\ 1 \in DOMAIN toPage /\ r = toPage[1]
         /\ r.kind = "compiled" => awaitingRun
         /\ r.kind \in {"no-session", "worker-error"} =>
               ~Owns(gen) /\ \A i \in DOMAIN toPage' : ~OfGen(i)'
         /\ r.kind \notin {"compiled", "no-session", "worker-error"} => ~awaitingRun
         /\ \A i \in DOMAIN toPage' : ~Opens(i)'
<1>1. /\ OfGen(1) /\ 1 \in DOMAIN toPage /\ r = toPage[1]
      /\ DOMAIN toPage \subseteq Nat \ {0}
  BY TakenReply DEF OfGen
<1>2. r.kind = "compiled" => awaitingRun
  BY <1>1 DEF RingInv, PageInv, ReplyOrder, Opens
<1>3. ASSUME r.kind \in {"no-session", "worker-error"}
      PROVE  ~Owns(gen) /\ \A i \in DOMAIN toPage' : ~OfGen(i)'
  <2>1. Closes(1)
    BY <1>1, <1>3 DEF Closes
  <2>2. ~Owns(gen)
    BY <1>1, <2>1 DEF RingInv, PageInv, ReplyOrder
  <2>3. ASSUME NEW i \in DOMAIN toPage', OfGen(i)' PROVE FALSE
    <3>1. i + 1 \in DOMAIN toPage /\ i \in Nat \ {0} /\ OfGen(i + 1)
      BY <2>3, OthersMoveUp
    <3>2. i + 1 <= 1
      BY <1>1, <2>1, <3>1 DEF RingInv, PageInv, ReplyOrder
    <3> HIDE <2>3
    <3> QED BY <3>1, <3>2
  <2> QED BY <2>2, <2>3
<1>4. ASSUME r.kind \notin {"compiled", "no-session", "worker-error"}, awaitingRun PROVE FALSE
  <2>1. ~Closes(1) /\ ~Opens(1)
    BY <1>1, <1>4 DEF Closes, Opens
  <2>2. PICK j \in DOMAIN toPage : Opens(j)
    BY <1>1, <1>4, <2>1 DEF RingInv, PageInv, ReplyOrder
  <2>3. j <= 1
    BY <1>1, <2>2 DEF RingInv, PageInv, ReplyOrder
  <2>4. j = 1
    BY <1>1, <2>3
  <2> QED BY <2>1, <2>2, <2>4
<1>5. ASSUME NEW i \in DOMAIN toPage', Opens(i)' PROVE FALSE
  <2>1. i + 1 \in DOMAIN toPage /\ i \in Nat \ {0} /\ Opens(i + 1)
    BY <1>5, OthersMoveUp
  <2>2. i + 1 <= 1
    BY <1>1, <2>1 DEF RingInv, PageInv, ReplyOrder
  <2> HIDE <1>5
  <2> QED BY <2>1, <2>2
<1> QED BY <1>1, <1>2, <1>3, <1>4, <1>5

(* The build was taken up, and the other replies keep their order.          *)
LEMMA HeardOf ==
  ASSUME SessionInv, SessionInv', StillOld, RingInv, NEW r, TakesReply(r), r.gen = gen,
         awaitingRun' = FALSE, LegsKept
  PROVE  RingInv'
<1>1. /\ BookInv' /\ PartsFit' /\ RequestsFit' /\ RequestsFrom(0)
      /\ UNCHANGED <<live, epoch, allowance>> /\ gen' = gen
  BY WorkerUnmoved
<1>2. TakenUp'
  <2>1. PICK g : g = gen /\ Old(g)
    BY TakenReply
  <2>2. Old(g)'
    BY <2>1 DEF StillOld
  <2> QED BY <1>1, <2>1, <2>2 DEF TakenUp
<1>3. RequestsOld'
  <2>1. ASSUME NEW i \in DOMAIN toWorker', toWorker'[i].kind # "build"
        PROVE  i + 0 \in DOMAIN toWorker /\ toWorker'[i] = toWorker[i + 0]
    BY <1>1, <2>1 DEF RequestsFrom
  <2>2. ASSUME NEW i \in DOMAIN toWorker', toWorker'[i].kind # "build", NEW g,
               g = toWorker'[i].gen
        PROVE  Old(g)'
    <3>1. Old(g)
      BY <2>1, <2>2 DEF RingInv, PageInv, RequestsOld
    <3> QED BY <3>1 DEF StillOld
  <2> QED BY <2>2 DEF RequestsOld
<1>4. \A i \in DOMAIN toPage' : ~Opens(i)'
  BY AcceptedReply
<1>5. \A i \in DOMAIN toPage' : /\ i + 1 \in DOMAIN toPage /\ i \in Nat \ {0}
                                /\ OfGen(i)' <=> OfGen(i + 1)
                                /\ Closes(i)' <=> Closes(i + 1)
  BY OthersMoveUp
<1>6. ReplyOrder'
  <2>1. ASSUME NEW i \in DOMAIN toPage', NEW j \in DOMAIN toPage', OfGen(i)', Closes(j)'
        PROVE  i <= j
    <3>1. i + 1 <= j + 1
      BY <1>5, <2>1 DEF RingInv, PageInv, ReplyOrder
    <3>2. i \in Nat /\ j \in Nat
      BY <1>5
    <3> HIDE <2>1
    <3> QED BY <3>1, <3>2
  <2>2. \A i \in DOMAIN toPage' : Closes(i)' => ~Owns(gen)'
    BY <1>1, <1>5 DEF RingInv, PageInv, ReplyOrder, Owns
  <2> QED BY <1>4, <2>1, <2>2 DEF ReplyOrder
<1>7. Unheard'
  BY DEF Unheard
<1> QED BY <1>1, <1>2, <1>3, <1>6, <1>7 DEF RingInv, PageInv, LegsKept

(* Legs cleared: nothing is left to hold together.                          *)
LEMMA LegsCleared ==
  ASSUME NEW present, ResetLegs(present)
  PROVE  /\ Rings'
         /\ \A l \in Legs : ~Foreign(l)'
         /\ \A l \in Legs : /\ ring'[l] = EmptyRing /\ done'[l] = NotDone
                            /\ legEpoch'[l] = 0 /\ continues'[l] = 0
<1>1. \A l \in Legs : /\ ring'[l] = EmptyRing /\ done'[l] = NotDone
                      /\ legEpoch'[l] = 0 /\ continues'[l] = 0
  BY DEF ResetLegs
<1>2. \A l \in Legs : ring'[l].frames = <<>> /\ ring'[l].first = 0
  BY <1>1 DEF EmptyRing
<1>3. DOMAIN <<>> = {} /\ Len(<<>>) = 0 /\ 0 <= History
  BY ProtocolAssumption
<1>4. ASSUME NEW l \in Legs PROVE RingFits(l)'
  <2>1. DOMAIN ring'[l].frames = {} /\ Len(ring'[l].frames) <= History /\ ring'[l].first = 0
    BY <1>2, <1>3
  <2> QED BY <2>1 DEF RingFits
<1>5. \A l \in Legs : ~Foreign(l)'
  BY <1>2 DEF Foreign
<1> QED BY <1>1, <1>4, <1>5 DEF Rings

(* The build's compiled reply: the page shows what was begun.               *)
LEMMA CompiledRing ==
  ASSUME SessionInv, SessionInv', StillOld, RingInv, NEW r, TakesReply(r), r.gen = gen,
         r.kind = "compiled", awaitingRun' = FALSE, NEW present, ResetLegs(present)
  PROVE  RingInv'
<1>1. awaitingRun
  BY AcceptedReply
<1>2. /\ Rings' /\ \A l \in Legs : ~Foreign(l)'
      /\ \A l \in Legs : /\ ring'[l] = EmptyRing /\ done'[l] = NotDone
                         /\ legEpoch'[l] = 0 /\ continues'[l] = 0
  BY LegsCleared
<1>3. /\ UNCHANGED <<live, epoch, recorded, allowance>> /\ gen' = gen
      /\ legGen' = legGen /\ toWorker' = toWorker
  BY WorkerUnmoved DEF ResetLegs, TakesReply
<1>4. \A l \in Legs : /\ ShownEpoch(l) = 0 /\ ShownEpoch(l)' = 0
                      /\ Shown(l) = 0 /\ Shown(l)' = 0
  BY <1>1, <1>2 DEF ShownEpoch, Shown, EmptyRing
<1>5. FramesFit'
  BY <1>4, FramesMoveUp
<1>6. ASSUME NEW l \in Legs PROVE Chain(l)'
  <2>1. /\ Chain(l) /\ ShownEpoch(l)' = ShownEpoch(l)
        /\ \A n \in Nat : Ends(n, l) => Ends(n, l)'
    BY <1>3, <1>4 DEF RingInv, PageInv, Chains, Ends, Owns
  <2>2. \A n \in Nat : Room(n, l) => Room(n, l)'
    BY <1>1 DEF Room
  <2>3. \A m \in Nat : Follows(Head(toPage), Shown(l), m, l) => m = Shown(l)'
    BY <1>4 DEF Follows, KeyedTo, TakesReply
  <2>4. IsSeq(toPage) /\ toPage # <<>> /\ toPage' = Tail(toPage)
    BY DEF TakesReply, SessionInv, RepliesTyped
  <2> QED BY <1>3, <2>1, <2>2, <2>3, <2>4, ChainShifts
<1>7. Sync'
  <2> SUFFICES ASSUME Owns(gen), NEW l \in Legs PROVE Synced(l)'
    BY <1>3 DEF Sync, Owns
  <2>1. epoch[l] = 0 /\ allowance[l] = History
    BY <1>1 DEF RingInv, PageInv, Unheard
  <2>2. ASSUME NEW i \in DOMAIN toWorker', OfLive(i)' PROVE FALSE
    <3>1. toWorker[i].kind # "build" /\ toWorker[i].gen = gen
      BY <1>3, <2>2 DEF OfLive, Owns
    <3>2. gen < gen /\ gen \in Nat
      BY <1>1, <1>3, <2>2, <3>1 DEF RingInv, PageInv, RequestsOld, SessionInv, PageTypes
    <3> HIDE <2>2
    <3> QED BY <3>2
  <2>3. \A i \in DOMAIN toWorker' : ~Rewinds(i, l)' /\ ~Extends(i, l)'
    BY <2>2 DEF Rewinds, Extends
  <2>4. legEpoch'[l] = epoch'[l] /\ allowance'[l] = History /\ done'[l] = NotDone
        /\ ~(continues'[l] > 0)
    BY <1>2, <1>3, <2>1
  <2> QED BY <2>3, <2>4 DEF Synced
<1>8. LegsOld'
  BY <1>3 DEF RingInv, PageInv, LegsOld
<1>9. LegsKept
  BY <1>2, <1>5, <1>6, <1>7, <1>8 DEF LegsKept, Chains, ForeignOver
<1> QED BY <1>9, HeardOf

(* There is nothing to show: the legs are cleared, or a copy keeps the last *)
(* text's that built.                                                       *)
LEMMA ClosedRing ==
  ASSUME SessionInv, SessionInv', StillOld, RingInv, NEW r, TakesReply(r), r.gen = gen,
         r.kind \in {"no-session", "worker-error"}, awaitingRun' = FALSE,
         \/ \E present : ResetLegs(present)
         \/ Kind # "session" /\ UNCHANGED legVars
  PROVE  RingInv'
<1>1. ~Owns(gen) /\ \A i \in DOMAIN toPage' : ~OfGen(i)'
  BY AcceptedReply
<1>2. live' = live /\ gen' = gen /\ ~Owns(gen)'
  BY <1>1, WorkerUnmoved DEF Owns
<1>3. legGen' = legGen
  BY DEF ResetLegs, legVars
<1>4. Rings' /\ ForeignOver'
  <2>1. CASE \E present : ResetLegs(present)
    BY <2>1, LegsCleared DEF ForeignOver
  <2>2. CASE Kind # "session" /\ UNCHANGED legVars
    <3>1. UNCHANGED <<gen, ring, legEpoch, legGen, continues>>
      BY <1>2, <2>2 DEF legVars
    <3>2. Rings'
      BY <3>1 DEF RingInv, PageInv, Rings, RingFits
    <3> QED BY <1>1, <1>2, <2>2, <3>2 DEF ForeignOver
  <2> QED BY <2>1, <2>2
<1>5. FramesFit' /\ Sync'
  BY <1>1, <1>2 DEF FramesFit, Sync
<1>6. ASSUME NEW l \in Legs PROVE Chain(l)'
  <2>1. PICK n \in Nat : n = ring'[l].first + Len(ring'[l].frames)
    <3>1. ring'[l].first \in Nat /\ Len(ring'[l].frames) \in Nat
      BY DEF SessionInv, PageTypes
    <3> QED BY <3>1
  <2>2. Shown(l)' = n
    BY <2>1 DEF Shown
  <2>3. Room(n, l)'
    <3>1. continues'[l] = 0 => ring'[l].first = 0 /\ Len(ring'[l].frames) <= History
      BY <1>4 DEF Rings, RingFits
    <3>2. Len(ring'[l].frames) \in Nat
      BY DEF SessionInv, PageTypes
    <3>3. continues'[l] = 0 => n <= History
      BY <2>1, <3>1, <3>2, ProtocolAssumption
    <3> QED BY <3>3 DEF Room
  <2>4. Ends(n, l)'
    BY <1>2 DEF Ends
  <2>5. (\A i \in DOMAIN toPage : ~KeyedTo(toPage[i], l))'
    BY <1>1 DEF KeyedTo, OfGen
  <2>6. IsSeq(toPage')
    BY TakenReply
  <2> QED BY <2>2, <2>3, <2>4, <2>5, <2>6, ChainRestarts
<1>7. LegsOld'
  BY <1>2, <1>3 DEF RingInv, PageInv, LegsOld
<1>8. LegsKept
  BY <1>4, <1>5, <1>6, <1>7 DEF LegsKept, Chains
<1> QED BY <1>8, HeardOf

(* A reading, or frames that come late, leave the legs alone.               *)
LEMMA AsideRing ==
  ASSUME SessionInv, SessionInv', StillOld, RingInv, NEW r, TakesReply(r), r.gen = gen,
         r.kind \notin {"compiled", "no-session", "worker-error"},
         awaitingRun' = FALSE, UNCHANGED legVars,
         r.kind = "frames" => r.epoch # legEpoch[r.leg]
  PROVE  RingInv'
<1>1. ~awaitingRun
  BY AcceptedReply
<1>2. \A l \in Legs : ~KeyedTo(r, l)
  BY <1>1 DEF KeyedTo, ShownEpoch
<1>3. UNCHANGED awaitingRun
  <2>1. awaitingRun \in BOOLEAN
    BY DEF SessionInv, PageTypes
  <2> QED BY <1>1, <2>1
<1>4. LegsKept
  BY <1>2, <1>3, LegsAside
<1> QED BY <1>4, HeardOf

(* Frames that are not late go on where their leg's ring ends.              *)
LEMMA FramesFollow ==
  ASSUME SessionInv, RingInv, NEW r, TakesReply(r), r.gen = gen, r.kind = "frames",
         ~Late(r), NEW l, l = r.leg
  PROVE  /\ ~awaitingRun /\ l \in Legs /\ r.epoch = legEpoch[l] /\ r.epoch = ShownEpoch(l)
         /\ KeyedTo(r, l) /\ FrameFits(r)
         /\ r.frames \in Seq(FrameType)
         /\ \A k \in Legs : ~Foreign(k)
         /\ LET n == ring[l].first + Len(ring[l].frames)
            IN  /\ \A k \in DOMAIN r.frames :
                      /\ r.frames[k].gen = gen /\ r.frames[k].lap = legEpoch[l]
                      /\ r.frames[k].step = n + k - 1
                /\ continues[l] = 0 => n + Len(r.frames) <= History
<1>1. /\ 1 \in DOMAIN toPage /\ r = toPage[1] /\ IsReply(r) /\ OfGen(1) /\ ~awaitingRun
      /\ IsSeq(toPage)
  BY TakenReply, AcceptedReply
<1>2. l \in Legs /\ r.frames \in Seq(FrameType) /\ r.epoch = legEpoch[l]
  BY <1>1 DEF IsReply, Late
<1>3. r.epoch = ShownEpoch(l) /\ KeyedTo(r, l)
  BY <1>1, <1>2 DEF ShownEpoch, KeyedTo
<1>4. FrameFits(r)
  BY <1>1 DEF RingInv, PageInv, FramesFit
<1>5. \A k \in Legs : ~Foreign(k)
  BY <1>1 DEF RingInv, PageInv, ForeignOver
<1>6. Chain(l)
  BY <1>2 DEF RingInv, PageInv, Chains
<1>7. PICK N, f :
         /\ N \in Nat /\ f \in [1..(N + 1) -> Nat]
         /\ N = Len(toPage) /\ DOMAIN toPage = 1..N
         /\ f[1] = Shown(l)
         /\ \A i \in 1..(N + 1) : Room(f[i], l)
         /\ \A i \in 1..N : Follows(toPage[i], f[i], f[i + 1], l)
         /\ Ends(f[N + 1], l)
  BY <1>1, <1>2, <1>6, ChainOpened
<1>8. PICK n : n = ring[l].first + Len(ring[l].frames)
  OBVIOUS
<1>9. f[1] = n /\ Follows(r, f[1], f[2], l) /\ Room(f[2], l)
  <2>1. 1 \in 1..N /\ 2 \in 1..(N + 1)
    BY <1>1, <1>7
  <2>2. Shown(l) = n
    BY <1>1, <1>8 DEF Shown
  <2> QED BY <1>1, <1>7, <2>1, <2>2
<1>10. /\ f[2] = n + Len(r.frames)
       /\ \A k \in DOMAIN r.frames : r.frames[k].step = n + k - 1
  BY <1>3, <1>9 DEF Follows
<1>11. \A k \in DOMAIN r.frames : r.frames[k].gen = gen /\ r.frames[k].lap = legEpoch[l]
  BY <1>2, <1>4 DEF FrameFits
<1>12. continues[l] = 0 => n + Len(r.frames) <= History
  BY <1>9, <1>10 DEF Room
<1> QED BY <1>1, <1>2, <1>3, <1>4, <1>5, <1>8, <1>10, <1>11, <1>12

(* The frames s are the steps from n on of generation g's recording e.      *)
StepsFrom(s, g, e, n) ==
    \A i \in DOMAIN s : s[i].gen = g /\ s[i].lap = e /\ s[i].step = n + i - 1

(* A ring, and the frames that follow it: they are one recording.           *)
LEMMA PushedFits ==
  ASSUME NEW q \in RingType, NEW fs \in Seq(FrameType), NEW g, NEW e, NEW n,
         n = q.first + Len(q.frames),
         StepsFrom(q.frames, g, e, q.first), StepsFrom(fs, g, e, n),
         NEW p, p = Pushed(q, fs)
  PROVE  /\ p.first + Len(p.frames) = n + Len(fs)
         /\ StepsFrom(p.frames, g, e, p.first)
         /\ q.first = 0 /\ n + Len(fs) <= History =>
               p.first = 0 /\ Len(p.frames) <= History
<1> USE DEF StepsFrom
<1> DEFINE all == q.frames \o fs
           gone == IF Len(all) - History - 1 > 0 THEN Len(all) - History - 1 ELSE 0
           sub == SubSeq(all, gone + 1, Len(all))
<1>1. q \in [frames : Seq(FrameType), first : Nat] /\ q.frames \in Seq(FrameType)
      /\ q.first \in Nat /\ History \in Nat
  BY ProtocolAssumption DEF RingType
<1>2. /\ Len(all) = Len(q.frames) + Len(fs) /\ all \in Seq(FrameType)
      /\ gone \in 0..Len(all)
      /\ p = [frames |-> sub, first |-> q.first + gone]
      /\ p \in [frames : Seq(FrameType), first : Nat]
      /\ Len(sub) = Len(all) - gone
      /\ \A i \in 1..(Len(all) - gone) : sub[i] = all[gone + i]
  BY <1>1, PushedTypes
<1>3. PICK a \in Nat : a = Len(q.frames)
  BY <1>1
<1>4. PICK b \in Nat : b = Len(fs)
  OBVIOUS
<1>a. PICK x \in Nat : x = q.first
  BY <1>1
<1>b. n = x + a
  BY <1>3, <1>a
<1>5. /\ \A i \in 1..a : all[i] = q.frames[i]
      /\ \A i \in 1..b : all[a + i] = fs[i]
      /\ DOMAIN q.frames = 1..a /\ DOMAIN fs = 1..b
  BY <1>1, <1>3, <1>4, ConcatProperties
<1>6. ASSUME NEW i \in 1..(a + b)
      PROVE  all[i].gen = g /\ all[i].lap = e /\ all[i].step = q.first + i - 1
  <2>1. CASE i \in 1..a
    BY <1>5, <2>1
  <2>2. CASE i \notin 1..a
    <3>1. PICK k \in 1..b : i = a + k
      <4>1. i - a \in 1..b /\ i = a + (i - a)
        BY <2>2
      <4> QED BY <4>1
    <3>2. all[i] = fs[k] /\ k \in DOMAIN fs
      BY <1>5, <3>1
    <3>3. all[i].gen = g /\ all[i].lap = e /\ all[i].step = n + k - 1
      BY <3>2
    <3>4. n + k - 1 = x + i - 1
      BY <1>b, <3>1
    <3> QED BY <1>a, <3>3, <3>4
  <2> QED BY <2>1, <2>2
<1>7. PICK d \in 0..(a + b) : d = gone
  BY <1>2, <1>3, <1>4
<1>9. x = 0 /\ n + Len(fs) <= History => d = 0
  <2> SUFFICES ASSUME x = 0, n + Len(fs) <= History PROVE d = 0
    OBVIOUS
  <2>1. Len(all) = a + b /\ n + Len(fs) = x + a + b /\ History \in Nat
    BY <1>1, <1>2, <1>3, <1>4, <1>b
  <2>2. PICK z \in Nat : z = a + b
    OBVIOUS
  <2>3. ~(z - History - 1 > 0)
    BY <2>1, <2>2
  <2> HIDE DEF all
  <2>4. ~(Len(all) - History - 1 > 0)
    BY <2>1, <2>2, <2>3
  <2> QED BY <1>7, <2>4
<1> HIDE DEF all, gone, sub
<1>c. PICK c \in Nat : c = a + b - d
  BY <1>7
<1>8. /\ p.first = x + d /\ p.frames = sub /\ Len(p.frames) = c
      /\ DOMAIN p.frames = 1..c
      /\ \A i \in 1..c : p.frames[i] = all[d + i]
  <2>1. p.first = x + d /\ p.frames = sub /\ sub \in Seq(FrameType)
    BY <1>2, <1>7, <1>a
  <2>2. Len(sub) = c /\ \A i \in 1..c : sub[i] = all[d + i]
    BY <1>2, <1>3, <1>4, <1>7, <1>c
  <2> QED BY <2>1, <2>2
<1>10. ASSUME NEW i \in DOMAIN p.frames
       PROVE  /\ p.frames[i].gen = g /\ p.frames[i].lap = e
              /\ p.frames[i].step = p.first + i - 1
  <2>1. PICK j \in 1..(a + b) : j = d + i
    <3>1. i \in 1..c
      BY <1>8, <1>10
    <3> QED BY <1>c, <3>1
  <2>2. p.frames[i] = all[j] /\ i \in Int
    BY <1>8, <1>10, <2>1
  <2>3. all[j].gen = g /\ all[j].lap = e /\ all[j].step = q.first + j - 1
    BY <1>6
  <2>4. q.first + j - 1 = p.first + i - 1
    <3>1. x + j - 1 = x + d + i - 1
      BY <2>1, <2>2
    <3> QED BY <1>8, <1>a, <3>1
  <2> QED BY <2>2, <2>3, <2>4
<1>11. p.first + Len(p.frames) = n + Len(fs)
  <2>1. x + d + c = x + a + b
    BY <1>c
  <2> QED BY <1>4, <1>8, <1>b, <2>1
<1>12. q.first = 0 /\ n + Len(fs) <= History => p.first = 0 /\ Len(p.frames) <= History
  <2> SUFFICES ASSUME q.first = 0, n + Len(fs) <= History
               PROVE  p.first = 0 /\ Len(p.frames) <= History
    OBVIOUS
  <2>1. x = 0 /\ d = 0
    BY <1>9, <1>a
  <2>2. x + a + b <= History
    <3>1. n + Len(fs) = x + a + b
      BY <1>4, <1>b
    <3> QED BY <3>1
  <2>3. c <= History /\ x + d = 0
    BY <1>1, <1>c, <2>1, <2>2
  <2> QED BY <1>8, <2>3
<1> QED BY <1>10, <1>11, <1>12

(* Frames that are not late: their leg's ring holds them too.               *)
LEMMA FramesRing ==
  ASSUME SessionInv, SessionInv', StillOld, RingInv, NEW r, TakesReply(r), r.gen = gen,
         r.kind = "frames", ~Late(r), OnFrames(r), awaitingRun' = FALSE
  PROVE  RingInv'
<1>1. PICK l : l = r.leg
  OBVIOUS
<1>2. PICK n : n = ring[l].first + Len(ring[l].frames)
  OBVIOUS
<1>3. /\ ~awaitingRun /\ l \in Legs /\ r.epoch = legEpoch[l] /\ r.epoch = ShownEpoch(l)
      /\ KeyedTo(r, l) /\ FrameFits(r)
      /\ r.frames \in Seq(FrameType)
      /\ \A k \in Legs : ~Foreign(k)
      /\ \A k \in DOMAIN r.frames :
            /\ r.frames[k].gen = gen /\ r.frames[k].lap = legEpoch[l]
            /\ r.frames[k].step = n + k - 1
      /\ continues[l] = 0 => n + Len(r.frames) <= History
  BY <1>1, <1>2, FramesFollow
<1>4. /\ ring \in [Legs -> RingType] /\ done \in [Legs -> DoneType]
      /\ legEpoch \in [Legs -> Nat] /\ legGen \in [Legs -> Nat]
      /\ continues \in [Legs -> Nat] /\ gen \in Nat /\ awaitingRun \in BOOLEAN
  BY DEF SessionInv, PageTypes, RingType
<1>5. /\ legGen' = [legGen EXCEPT ![l] = gen]
      /\ ring' = [ring EXCEPT ![l] = Pushed(@, r.frames)]
      /\ done' = [done EXCEPT ![l] = r.done]
      /\ UNCHANGED <<legEpoch, continues, awaitingRun>>
  BY <1>1, <1>3, <1>4 DEF OnFrames
<1>6. /\ legGen'[l] = gen /\ ring'[l] = Pushed(ring[l], r.frames) /\ done'[l] = r.done
      /\ \A k \in Legs : k # l =>
            UNCHANGED <<legGen[k], ring[k], done[k], legEpoch[k], continues[k]>>
  BY <1>3, <1>4, <1>5
<1>7. PICK p : p = Pushed(ring[l], r.frames)
  OBVIOUS
<1>8. RingFits(l) /\ ring[l] \in RingType
  BY <1>3, <1>4 DEF RingInv, PageInv, Rings
<1>9. /\ p.first + Len(p.frames) = n + Len(r.frames)
      /\ \A i \in DOMAIN p.frames : /\ p.frames[i].gen = gen /\ p.frames[i].lap = legEpoch[l]
                                    /\ p.frames[i].step = p.first + i - 1
      /\ ring[l].first = 0 /\ n + Len(r.frames) <= History =>
            p.first = 0 /\ Len(p.frames) <= History
  <2>1. ASSUME NEW i \in DOMAIN ring[l].frames
        PROVE  /\ ring[l].frames[i].gen = gen /\ ring[l].frames[i].lap = legEpoch[l]
               /\ ring[l].frames[i].step = ring[l].first + i - 1
    <3>1. ring[l].frames # <<>>
      BY <2>1
    <3>2. legGen[l] = gen
      BY <1>3, <3>1 DEF Foreign
    <3> QED BY <1>8, <2>1, <3>2 DEF RingFits
  <2>2. PICK q \in RingType : q = ring[l]
    BY <1>8
  <2>3. PICK fs \in Seq(FrameType) : fs = r.frames
    BY <1>3
  <2>4. PICK e : e = legEpoch[l]
    OBVIOUS
  <2>5. StepsFrom(q.frames, gen, e, q.first) /\ StepsFrom(fs, gen, e, n)
    BY <1>3, <2>1, <2>2, <2>3, <2>4 DEF StepsFrom
  <2>6. n = q.first + Len(q.frames) /\ p = Pushed(q, fs)
    BY <1>2, <1>7, <2>2, <2>3
  <2>7. /\ p.first + Len(p.frames) = n + Len(fs)
        /\ StepsFrom(p.frames, gen, e, p.first)
        /\ q.first = 0 /\ n + Len(fs) <= History =>
              p.first = 0 /\ Len(p.frames) <= History
    BY <2>5, <2>6, PushedFits
  <2> QED BY <2>2, <2>3, <2>4, <2>7 DEF StepsFrom
<1>10. ring'[l] = p
  BY <1>6, <1>7
<1>11. /\ UNCHANGED <<live, epoch, recorded, allowance>> /\ RequestsFrom(0) /\ gen' = gen
       /\ \A k \in Legs : FillOver(k)' <=> FillOver(k)
  BY WorkerUnmoved
<1>12. \A k \in Legs : ShownEpoch(k)' = ShownEpoch(k)
  BY <1>5 DEF ShownEpoch
<1>13. FramesFit'
  BY <1>12, FramesMoveUp
<1>14. ASSUME NEW k \in Legs PROVE Chain(k)'
  <2>1. /\ Chain(k)
        /\ \A x \in Nat : Ends(x, k) => Ends(x, k)'
        /\ \A x \in Nat : Room(x, k) => Room(x, k)'
    BY <1>5, <1>11, <1>12 DEF RingInv, PageInv, Chains, Ends, Owns, Room
  <2>2. IsSeq(toPage) /\ toPage # <<>> /\ toPage' = Tail(toPage) /\ r = Head(toPage)
    BY DEF TakesReply, SessionInv, RepliesTyped
  <2>3. ASSUME NEW m \in Nat, Follows(r, Shown(k), m, k) PROVE m = Shown(k)'
    <3>1. CASE k = l
      <4>1. Shown(l) = n /\ Shown(l)' = p.first + Len(p.frames)
        BY <1>2, <1>3, <1>5, <1>10 DEF Shown
      <4>2. m = n + Len(r.frames)
        BY <1>3, <2>3, <3>1, <4>1 DEF Follows
      <4> QED BY <1>9, <3>1, <4>1, <4>2
    <3>2. CASE k # l
      <4>1. Shown(k)' = Shown(k)
        BY <1>5, <1>6, <3>2 DEF Shown
      <4>2. ~KeyedTo(r, k)
        BY <1>1, <3>2 DEF KeyedTo
      <4> QED BY <2>3, <4>1, <4>2 DEF Follows
    <3> QED BY <3>1, <3>2
  <2> QED BY <1>11, <1>12, <2>1, <2>2, <2>3, ChainShifts
<1>15. Sync'
  <2> SUFFICES ASSUME Owns(gen), NEW k \in Legs PROVE Synced(k)'
    BY <1>11 DEF Sync, Owns
  <2>0. Synced(k) /\ RequestsOf(0, k)
    BY <1>3, <1>11 DEF RingInv, PageInv, Sync, RequestsOf, RequestsFrom
  <2>1. CASE k = l
    <3>1. r.epoch <= epoch[l] /\ (r.epoch = epoch[l] /\ r.done # NotDone => FillOver(l))
      BY <1>1, <1>3 DEF FrameFits
    <3>2. epoch[l] \in Nat
      <4>1. live # NoLive
        BY DEF Owns
      <4> QED BY <1>3 DEF SessionInv, CallInv, CallsFit, CallTypes
    <3>3. legEpoch[l] = epoch[l] /\ \A i \in DOMAIN toWorker : ~Rewinds(i, l)
      <4>1. legEpoch[l] # epoch[l] + 1
        <5>1. legEpoch[l] <= epoch[l]
          BY <1>3, <3>1
        <5> HIDE <3>1
        <5> QED BY <3>2, <5>1
      <4> QED BY <2>0, <2>1, <4>1 DEF Synced
    <3>4. toWorker' = toWorker
      BY DEF TakesReply
    <3>5. \A i \in DOMAIN toWorker' : /\ Rewinds(i, l)' <=> Rewinds(i, l)
                                      /\ Extends(i, l)' <=> Extends(i, l)
      BY <1>11, <3>4 DEF Rewinds, Extends, OfLive
    <3>6. done'[l] # NotDone \/ continues[l] > 0 => FillOver(l)'
      <4>1. done'[l] # NotDone => FillOver(l)
        BY <1>3, <1>6, <3>1, <3>3
      <4> QED BY <1>3, <1>11, <2>0, <2>1, <4>1 DEF Synced
    <3>7. /\ legEpoch'[l] = epoch'[l]
          /\ \A i \in DOMAIN toWorker' : ~Rewinds(i, l)'
      BY <1>5, <1>11, <3>3, <3>4, <3>5
    <3>8. allowance'[l] # History \/ (\E i \in DOMAIN toWorker' : Extends(i, l)') =>
             continues[l] > 0
      BY <1>11, <2>0, <2>1, <3>3, <3>4, <3>5 DEF Synced
    <3> QED BY <1>5, <2>1, <3>6, <3>7, <3>8 DEF Synced
  <2>2. CASE k # l
    <3>1. UNCHANGED <<legEpoch[k], ring[k], done[k], continues[k]>>
      BY <1>6, <2>2
    <3> QED BY <1>11, <2>0, <3>1, SyncedOn
  <2> QED BY <2>1, <2>2
<1>16. ASSUME NEW k \in Legs PROVE RingFits(k)'
  <2>1. CASE k = l
    <3>1. \A i \in DOMAIN p.frames : /\ p.frames[i].gen = gen
                                     /\ p.frames[i].lap = legEpoch[l]
                                     /\ p.frames[i].step = p.first + i - 1
      BY <1>9
    <3>2. \A i \in DOMAIN p.frames : p.frames[i].lap = p.frames[1].lap
      <4>1. ASSUME NEW i \in DOMAIN p.frames PROVE 1 \in DOMAIN p.frames
        <5>1. p.frames \in Seq(FrameType)
          BY <1>4, <1>10, <1>3 DEF SessionInv, PageTypes
        <5> QED BY <4>1, <5>1
      <4> QED BY <3>1, <4>1
    <3>3. continues[l] = 0 => p.first = 0 /\ Len(p.frames) <= History
      BY <1>3, <1>8, <1>9 DEF RingFits
    <3>4. /\ \A i \in DOMAIN p.frames :
                /\ p.frames[i].gen = legGen'[l] /\ p.frames[i].lap = p.frames[1].lap
                /\ p.frames[i].step = p.first + i - 1
          /\ \A i \in DOMAIN p.frames : p.frames[i].lap = legEpoch'[l]
          /\ continues'[l] = 0 => p.first = 0 /\ Len(p.frames) <= History
      BY <1>5, <1>6, <3>1, <3>2, <3>3
    <3> HIDE <1>6, <1>7, <1>9
    <3> QED BY <1>10, <2>1, <3>4 DEF RingFits
  <2>2. CASE k # l
    <3>1. UNCHANGED <<legEpoch[k], ring[k], continues[k], legGen[k]>>
      BY <1>6, <2>2
    <3>2. RingFits(k)
      BY DEF RingInv, PageInv, Rings
    <3> QED BY <1>11, <3>1, <3>2 DEF RingFits
  <2> QED BY <2>1, <2>2
<1>17. ForeignOver'
  <2>1. ASSUME NEW k \in Legs PROVE ~Foreign(k)'
    <3>1. CASE k = l
      BY <1>6, <1>11, <3>1 DEF Foreign
    <3>2. CASE k # l
      <4>1. ring'[k] = ring[k] /\ legGen'[k] = legGen[k] /\ ~Foreign(k)
        BY <1>3, <1>6, <3>2
      <4> QED BY <1>11, <4>1 DEF Foreign
    <3> QED BY <3>1, <3>2
  <2> QED BY <2>1 DEF ForeignOver
<1>18. LegsOld'
  <2>1. ASSUME NEW k \in Legs PROVE legGen'[k] <= gen
    <3>1. CASE k = l
      BY <1>4, <1>6, <3>1
    <3>2. CASE k # l
      BY <1>6, <3>2 DEF RingInv, PageInv, LegsOld
    <3> QED BY <3>1, <3>2
  <2> QED BY <1>11, <2>1 DEF LegsOld
<1>19. LegsKept
  BY <1>13, <1>14, <1>15, <1>16, <1>17, <1>18 DEF LegsKept, Chains, Rings
<1> QED BY <1>19, HeardOf

(* A reply is delivered.                                                    *)
LEMMA DeliverRing ==
  ASSUME SessionInv, SessionInv', StillOld, RingInv, Deliver, UNCHANGED workerVars
  PROVE  RingInv'
<1>1. PICK r : r = Head(toPage)
  OBVIOUS
<1>2. TakesReply(r)
  BY <1>1 DEF Deliver, TakesReply
<1>3. IsReply(r) /\ gen \in Nat /\ r.gen # 0
  <2>1. IsReply(r) /\ gen \in Nat
    BY <1>2, TakenReply DEF SessionInv, PageTypes
  <2>2. r.gen \in 1..MaxGen
    BY <2>1 DEF IsReply
  <2> QED BY <2>1, <2>2
<1>4. CASE r.gen # gen
  <2>1. UNCHANGED <<awaitingRun, legVars>>
    BY <1>1, <1>4 DEF Deliver, Accepts
  <2> QED BY <1>2, <1>4, <2>1, DropRing
<1>5. CASE r.gen = gen
  <2>1. awaitingRun' = FALSE /\ OnReply(r)
    BY <1>1, <1>3, <1>5 DEF Deliver, Accepts, AnswersRun
  <2>2. CASE r.kind = "compiled"
    <3>1. ResetLegs(r.present)
      BY <2>1, <2>2 DEF OnReply
    <3> QED BY <1>2, <1>5, <2>1, <2>2, <3>1, CompiledRing
  <2>3. CASE r.kind \in {"no-session", "worker-error"}
    <3>1. \/ \E present : ResetLegs(present)
          \/ Kind # "session" /\ UNCHANGED legVars
      BY <2>1, <2>3 DEF OnReply, OnNoSession
    <3> QED BY <1>2, <1>5, <2>1, <2>3, <3>1, ClosedRing
  <2>4. CASE r.kind = "frames" /\ ~Late(r)
    <3>1. OnFrames(r)
      BY <2>1, <2>4 DEF OnReply
    <3> QED BY <1>2, <1>5, <2>1, <2>4, <3>1, FramesRing
  <2>5. CASE r.kind = "frames" /\ Late(r)
    <3>1. UNCHANGED legVars
      BY <2>1, <2>5 DEF OnReply, OnFrames
    <3>2. r.epoch # legEpoch[r.leg]
      BY <2>5 DEF Late
    <3> QED BY <1>2, <1>5, <2>1, <2>5, <3>1, <3>2, AsideRing
  <2>6. CASE r.kind \in {"result", "tm-value", "rxm-value"}
    <3>1. UNCHANGED legVars
      BY <2>1, <2>6 DEF OnReply
    <3> QED BY <1>2, <1>5, <2>1, <2>6, <3>1, AsideRing
  <2> QED BY <1>3, <2>2, <2>3, <2>4, <2>5, <2>6 DEF IsReply
<1> QED BY <1>4, <1>5

-----------------------------------------------------------------------------
(* Every step keeps the invariant.                                          *)
LEMMA NextRing == SessionInv /\ SessionInv' /\ RingInv /\ [Next]_vars => RingInv'
<1> SUFFICES ASSUME SessionInv, SessionInv', RingInv, [Next]_vars PROVE RingInv'
  OBVIOUS
<1>1. StillOld
  BY NextGen DEF SessionInv
<1>2. ASSUME UNCHANGED pageVars PROVE UNCHANGED shownVars
  BY <1>2 DEF pageVars, clientVars, shownVars
<1>3. IsSeq(toWorker) /\ 0 \in Int
  BY DEF SessionInv, RequestsTyped
<1>4. CASE (ReceiveBuild \/ BuildWaiting) /\ UNCHANGED pageVars
  BY <1>1, <1>2, <1>4, BuildsRing
<1>5. CASE (ReceiveExtend \/ ReceiveRewind) /\ UNCHANGED pageVars
  BY <1>1, <1>2, <1>5, ExtendRing, RewindRing
<1>6. CASE Proceeds /\ UNCHANGED pageVars
  BY <1>1, <1>2, <1>6, ProceedsRing
<1>7. CASE Instantiated /\ UNCHANGED pageVars
  <2>1. UNCHANGED <<toPage, toWorker, live, books, parts, suspended, running>>
    BY <1>7 DEF Instantiated, channels
  <2>2. RequestsFrom(0)
    BY <1>3, <2>1, RequestsUntouched
  <2> QED BY <1>1, <1>2, <1>3, <1>7, <2>1, <2>2, WorkerStays
<1>8. CASE PageNext /\ UNCHANGED workerVars
  BY <1>1, <1>8, EditRing, TimerRing, DeliverRing, ContinueRing, RestartRing DEF PageNext
<1>9. CASE UNCHANGED vars
  <2>1. UNCHANGED <<toPage, toWorker, live, books, parts, suspended, running>> /\ UNCHANGED pageVars
    BY <1>9 DEF vars, channels, workerVars
  <2>2. RequestsFrom(0)
    BY <1>3, <2>1, RequestsUntouched
  <2> QED BY <1>1, <1>2, <1>3, <2>1, <2>2, WorkerStays
<1> QED BY <1>4, <1>5, <1>6, <1>7, <1>8, <1>9, NextByCases

(* It holds at first.                                                       *)
LEMMA InitRing == Init => RingInv
<1> SUFFICES ASSUME Init PROVE RingInv
  OBVIOUS
<1>1. /\ live = NoLive /\ suspended = <<>> /\ running = Idle
      /\ posted = [l \in Legs |-> NoPart] /\ rewoundFrom = [l \in Legs |-> NoPart]
      /\ toWorker = <<>> /\ toPage = <<>> /\ gen = 0 /\ awaitingRun = FALSE
      /\ ring = [l \in Legs |-> EmptyRing] /\ legGen = [l \in Legs |-> 0]
  BY DEF Init, WorkerInit, PageInit
<1>2. DOMAIN suspended = {} /\ DOMAIN toWorker = {} /\ DOMAIN toPage = {}
  BY <1>1
<1>3. BookInv
  BY <1>1, <1>2 DEF BookInv, RunIn, TurnIn
<1>4. PartsFit
  BY <1>1 DEF PartsFit, NoPart
<1>5. RequestsFit
  BY <1>1 DEF RequestsFit
<1>6. TakenUp
  <2>1. GenInv
    BY InitGen
  <2>2. waiting = <<>> /\ timer = 0 /\ Builds = {}
    BY <1>2 DEF Init, WorkerInit, PageInit, Builds
  <2>3. Old(0)
    BY <1>1, <2>2 DEF Old, Issued
  <2> QED BY <1>1, <2>3 DEF TakenUp
<1>7. RequestsOld /\ LegsOld /\ ReplyOrder /\ Unheard /\ FramesFit
  BY <1>1, <1>2 DEF RequestsOld, LegsOld, ReplyOrder, Unheard, FramesFit
<1>8. ~Owns(gen)
  BY <1>1 DEF Owns
<1>9. Sync
  BY <1>8 DEF Sync
<1>10. \A l \in Legs : ring[l].frames = <<>> /\ ring[l].first = 0
  BY <1>1 DEF EmptyRing
<1>11. Rings /\ ForeignOver
  <2>1. DOMAIN <<>> = {} /\ Len(<<>>) = 0 /\ 0 <= History
    BY ProtocolAssumption
  <2> QED BY <1>10, <2>1 DEF Rings, RingFits, ForeignOver, Foreign
<1>12. ASSUME NEW l \in Legs PROVE Chain(l)
  <2>1. Shown(l) = 0 /\ Len(toPage) = 0
    BY <1>1, <1>10 DEF Shown
  <2>2. Room(0, l) /\ Ends(0, l)
    BY <1>8, ProtocolAssumption DEF Room, Ends
  <2>3. PICK f \in [1..1 -> Nat] : f[1] = 0
    <3>1. [i \in 1..1 |-> 0] \in [1..1 -> Nat] /\ [i \in 1..1 |-> 0][1] = 0
      OBVIOUS
    <3> QED BY <3>1
  <2>4. 1..(Len(toPage) + 1) = 1..1 /\ f[Len(toPage) + 1] = 0
    BY <2>1, <2>3
  <2>5. Counts(f, l)
    <3>1. \A i \in 1..(Len(toPage) + 1) : Room(f[i], l)
      BY <2>2, <2>3, <2>4
    <3> QED BY <1>2, <2>1, <2>3, <3>1 DEF Counts
  <2> QED BY <2>2, <2>3, <2>4, <2>5 DEF Chain
<1> QED BY <1>3, <1>4, <1>5, <1>6, <1>7, <1>9, <1>11, <1>12 DEF RingInv, PageInv, Chains

(* The invariants hold throughout.                                          *)
LEMMA RingKept == Spec => [](SessionInv /\ RingInv)
<1>1. Init => SessionInv /\ RingInv
  BY InitSession, InitRing
<1>2. (SessionInv /\ RingInv) /\ [Next]_vars => (SessionInv /\ RingInv)'
  BY NextSession, NextRing
<1> QED BY <1>1, <1>2, PTL DEF Spec

-----------------------------------------------------------------------------
(* A ring's frames are consecutive steps of one recording of one build,     *)
(* whatever the edits, continues, rewinds and throws, and however requests  *)
(* and replies cross (history.ts push, behind replies.ts onFrames and  *)
(* the epochs it turns late frames away by).                                *)
THEOREM RingsAreRecordings == Spec => []RingIsOneRecording
<1>1. SessionInv /\ RingInv => RingIsOneRecording
  <2> SUFFICES ASSUME SessionInv, RingInv, NEW l \in Legs, NEW i \in DOMAIN ring[l].frames
               PROVE  ring[l].frames[i] = [gen |-> legGen[l], lap |-> ring[l].frames[1].lap,
                                           step |-> ring[l].first + i - 1]
    BY DEF RingIsOneRecording
  <2>1. ring[l].frames \in Seq(FrameType)
    BY DEF SessionInv, PageTypes
  <2>2. ring[l].frames[i] \in FrameType
    BY <2>1
  <2>3. RingFits(l)
    BY DEF RingInv, PageInv, Rings
  <2>4. PICK x \in FrameType : x = ring[l].frames[i]
    BY <2>2
  <2>5. /\ x.gen = legGen[l] /\ x.lap = ring[l].frames[1].lap
        /\ x.step = ring[l].first + i - 1
    BY <2>3, <2>4 DEF RingFits
  <2>6. x = [gen |-> x.gen, lap |-> x.lap, step |-> x.step]
    BY DEF FrameType
  <2> QED BY <2>4, <2>5, <2>6
<1> QED BY <1>1, RingKept, PTL

(* Once anything of the newest build is in, no pane of the source session   *)
(* shows frames of an earlier one (session-client.ts, the generation filter *)
(* and `awaitingRun').                                                      *)
THEOREM SourceIsCurrent == Spec => []NoForeignFrames
<1>1. RingInv => NoForeignFrames
  BY DEF RingInv, PageInv, ForeignOver, Foreign, NoForeignFrames
<1> QED BY <1>1, RingKept, PTL

(* A recording nobody continued still holds its first step: the worker      *)
(* stops at what a ring holds, and what it told is what the page counted.   *)
THEOREM FirstStepsAreKept == Spec => []FirstFillKeepsStepZero
<1>1. SessionInv /\ RingInv => FirstFillKeepsStepZero
  <2> SUFFICES ASSUME SessionInv, RingInv, NEW l \in Legs, ring[l].first > 0
               PROVE  continues[l] > 0
    BY DEF FirstFillKeepsStepZero, Evicted
  <2>1. continues[l] \in Nat /\ ring[l].first \in Nat
    BY DEF SessionInv, PageTypes
  <2>2. continues[l] = 0 => ring[l].first = 0
    BY DEF RingInv, PageInv, Rings, RingFits
  <2> QED BY <2>1, <2>2
<1> QED BY <1>1, RingKept, PTL

(* No part the worker keeps was read while a rewind refilled its leg        *)
(* (protocol.ts keepInFlight, with posted and rewoundFrom).                 *)
THEOREM PartsAreSettled == Spec => []NoMidFillReading
<1>1. RingInv => NoMidFillReading
  BY DEF RingInv, PartsFit, NoMidFillReading
<1> QED BY <1>1, RingKept, PTL

(* The two requests whose refusal session-worker.ts calls unreachable never *)
(* reach it: a continue of what is live is of its leg's epoch, and a rewind *)
(* is to the next one, of a leg that is there (onExtend, rewindAndRecord).  *)
THEOREM RequestsReachTheirLegs == Spec => []RequestsAreCurrent
<1>1. SessionInv /\ RingInv => RequestsAreCurrent
  <2> SUFFICES ASSUME SessionInv, RingInv, toWorker # <<>>, NEW m, m = Head(toWorker),
                      Owns(m.gen)
               PROVE  /\ m.kind = "extend" => m.epoch = epoch[m.leg]
                      /\ m.kind = "rewind" => m.epoch = epoch[m.leg] + 1 /\ Present(m.leg)
    BY DEF RequestsAreCurrent
  <2>1. ASSUME m.kind = "extend" PROVE m.epoch = epoch[m.leg]
    BY <2>1, HeadFits
  <2>2. ASSUME m.kind = "rewind" PROVE m.epoch = epoch[m.leg] + 1 /\ Present(m.leg)
    <3>1. /\ m.leg \in Legs /\ FillOver(m.leg) /\ live # NoLive
          /\ m.epoch = epoch[m.leg] + 1
      BY <2>2, HeadFits
    <3>2. recorded[m.leg] > 0
      BY <3>1 DEF FillOver, OverIn
    <3>3. \/ recorded[m.leg] = 0
          \/ Present(m.leg)
      BY <3>1 DEF RingInv, BookInv, BooksOf, BookOf
    <3> QED BY <3>1, <3>2, <3>3
  <2> QED BY <2>1, <2>2
<1> QED BY <1>1, RingKept, PTL

-----------------------------------------------------------------------------
(* Readings.  A result or a TM copy's report of the newest build, and what  *)
(* it knows.  An rxm copy's report is left out: the page itself keeps what  *)
(* it shows against an unfinished one.                                      *)
IsReading(i) == OfGen(i) /\ toPage[i].kind \in {"result", "tm-value"}
Knows(r, l) ==
    IF r.kind = "result" THEN r.part[l].value = Decided ELSE r.value = Decided

(* Is the value of leg l on screen, for the newest text?                    *)
Shows(l) == readout.gen = gen /\ readout.value[l] = Decided

(* What is live goes on saying that leg l's value is known.                 *)
Kept(l) ==
    /\ Kind = "session" => posted[l].value = Decided
    /\ Kind = "tm-scratch" => live.chunks = 0

(* Which session posts which readings, and that an rxm copy that has no     *)
(* machine posts none.                                                      *)
ReadingsFit ==
    \A i \in DOMAIN toPage :
        /\ toPage[i].kind = "result" => Kind = "session"
        /\ toPage[i].kind = "tm-value" => Kind = "tm-scratch"
        /\ toPage[i].kind = "rxm-value" => toPage[i].value # None

(* Only a TM copy has value runs, and what ran recorded a leg that is there. *)
ValueRunsFit ==
    /\ \A i \in DOMAIN suspended : suspended[i].by = "value" => Kind = "tm-scratch"
    /\ running # Idle /\ running.call.by = "value" => Kind = "tm-scratch"
    /\ running # Idle /\ running.ran /\ Owns(running.call.gen) => Present(running.call.leg)

(* A known part is of a leg that is there.                                  *)
KnownPresent ==
    live # NoLive => \A l \in Legs :
        posted[l].value = Decided \/ rewoundFrom[l].value = Decided => Present(l)

(* The values on screen are of a build that was taken up, and of an earlier *)
(* one while the newest has not answered.                                   *)
ReadoutFits ==
    /\ Old(readout.gen)
    /\ awaitingRun => readout.gen < gen
    /\ readout.gen = 0 => readout = NoReadout

(* What is on screen, the readings on their way and the worker: what one of *)
(* them knows, those after it know.                                         *)
KnownStays(l) ==
    /\ \A i, j \in DOMAIN toPage :
          IsReading(i) /\ IsReading(j) /\ i <= j /\ Knows(toPage[i], l) => Knows(toPage[j], l)
    /\ Shows(l) => \A i \in DOMAIN toPage : IsReading(i) => Knows(toPage[i], l)
    /\ Owns(gen) =>
          /\ Shows(l) => Kept(l)
          /\ \A i \in DOMAIN toPage : IsReading(i) /\ Knows(toPage[i], l) => Kept(l)

ValueInv ==
    /\ ReadingsFit /\ ValueRunsFit /\ KnownPresent /\ ReadoutFits
    /\ \A l \in Legs : KnownStays(l)

-----------------------------------------------------------------------------
(* Steps of the worker that start no build.  What is live stays the program *)
(* it was, or is dropped.                                                   *)
SameProgram ==
    live' # NoLive =>
        live # NoLive /\ live'.gen = live.gen /\ live'.prog = live.prog

(* What such a step posts, of the state it began in: a reading knows what   *)
(* is kept, and what it knows is kept from then on.                         *)
SaysKnown(r) ==
    \A l \in Legs : (Kept(l) => Knows(r, l)) /\ (Knows(r, l) => Kept(l)')

SaysOne(r) ==
    \/ r.kind \in {"frames", "worker-error"}
    \/ r.kind = "rxm-value" /\ r.value # None
    \/ r.kind = "result" /\ Kind = "session" /\ SaysKnown(r)
    \/ r.kind = "tm-value" /\ Kind = "tm-scratch" /\ SaysKnown(r)

Says ==
    \/ toPage' = toPage
    \/ \E r : Owns(r.gen) /\ toPage' = Append(toPage, r) /\ SaysOne(r)

KeepsKnown == live' # NoLive => \A l \in Legs : Kept(l) => Kept(l)'

(* A session has a leg.                                                     *)
LEMMA SomeLeg == \E l : l \in Legs
<1>1. 1 \in DOMAIN FillOrder
  BY ProtocolAssumption
<1>2. FillOrder[1] \in Legs
  BY <1>1 DEF Legs, ToSet
<1> QED BY <1>2

(* The queue grew by what the step says.                                    *)
LEMMA SaidStays ==
  ASSUME SessionInv, ValueInv, SameProgram, Says, KeepsKnown,
         UNCHANGED <<gen, readout>>, NEW l \in Legs
  PROVE  ReadingsFit' /\ KnownStays(l)'
<1>1. /\ IsSeq(toPage) /\ gen' = gen /\ readout' = readout
      /\ ReadingsFit /\ KnownStays(l)
  BY DEF SessionInv, RepliesTyped, ValueInv
<1>2. Owns(gen)' => Owns(gen) /\ live' # NoLive
  BY <1>1 DEF SameProgram, Owns
<1>3. Shows(l)' <=> Shows(l)
  BY <1>1 DEF Shows
<1>4. Owns(gen)' /\ Kept(l) => Kept(l)'
  BY <1>2 DEF KeepsKnown
<1>5. CASE toPage' = toPage
  <2>1. ReadingsFit' /\ \A i \in DOMAIN toPage : IsReading(i)' <=> IsReading(i)
    BY <1>1, <1>5 DEF ReadingsFit, IsReading, OfGen
  <2> QED BY <1>1, <1>2, <1>3, <1>4, <1>5, <2>1 DEF KnownStays
<1>6. CASE \E r : Owns(r.gen) /\ toPage' = Append(toPage, r) /\ SaysOne(r)
  <2>1. PICK r : Owns(r.gen) /\ toPage' = Append(toPage, r) /\ SaysOne(r)
    BY <1>6
  <2>0. PICK n : n = Len(toPage) + 1
    OBVIOUS
  <2>2. /\ DOMAIN toPage = 1..Len(toPage) /\ Len(toPage) \in Nat
        /\ DOMAIN toPage' = 1..n
        /\ \A i \in DOMAIN toPage : toPage'[i] = toPage[i]
        /\ toPage'[n] = r
    BY <1>1, <2>0, <2>1, Appended
  <2>3. /\ \A i \in DOMAIN toPage' : i \in DOMAIN toPage \/ i = n
        /\ \A i \in DOMAIN toPage : i < n
        /\ n \in DOMAIN toPage' /\ n \notin DOMAIN toPage
    BY <2>0, <2>2
  <2>4. /\ r.kind = "result" => Kind = "session"
        /\ r.kind = "tm-value" => Kind = "tm-scratch"
        /\ r.kind = "rxm-value" => r.value # None
    BY <2>1 DEF SaysOne
  <2>5. ReadingsFit'
    BY <1>1, <2>2, <2>3, <2>4 DEF ReadingsFit
  <2>6. \A i \in DOMAIN toPage : IsReading(i)' <=> IsReading(i)
    BY <1>1, <2>2 DEF IsReading, OfGen
  <2>7. IsReading(n)' => Owns(gen) /\ SaysKnown(r)
    BY <1>1, <2>1, <2>2 DEF IsReading, OfGen, SaysOne
  <2>8. Knows(toPage'[n], l) <=> Knows(r, l)
    BY <2>2
  <2>9. IsReading(n)' => (Kept(l) => Knows(r, l)) /\ (Knows(r, l) => Kept(l)')
    BY <2>7 DEF SaysKnown
  <2>10. ASSUME NEW i \in DOMAIN toPage', NEW j \in DOMAIN toPage',
                IsReading(i)', IsReading(j)', i <= j, Knows(toPage'[i], l)
         PROVE  Knows(toPage'[j], l)
    <3>1. CASE j \in DOMAIN toPage
      <4>1. i \in DOMAIN toPage
        <5>1. j < n /\ n \in Int /\ j \in Int
          BY <2>0, <2>2, <2>3, <3>1
        <5>2. i # n
          BY <2>10, <5>1
        <5> QED BY <2>3, <5>2
      <4>2. Knows(toPage[i], l)
        BY <2>2, <2>10, <4>1
      <4>3. Knows(toPage[j], l)
        BY <1>1, <2>6, <2>10, <3>1, <4>1, <4>2 DEF KnownStays
      <4> QED BY <2>2, <3>1, <4>3
    <3>2. CASE j = n /\ i \in DOMAIN toPage
      <4>1. IsReading(i) /\ Knows(toPage[i], l) /\ Owns(gen)
        BY <2>2, <2>6, <2>7, <2>10, <3>2
      <4>2. Kept(l)
        BY <1>1, <3>2, <4>1 DEF KnownStays
      <4> QED BY <2>8, <2>9, <2>10, <3>2, <4>2
    <3>3. CASE j = n /\ i = n
      BY <2>10, <3>3
    <3> QED BY <2>3, <3>1, <3>2, <3>3
  <2>11. ASSUME NEW i \in DOMAIN toPage', IsReading(i)', Shows(l) PROVE Knows(toPage'[i], l)
    <3>1. CASE i \in DOMAIN toPage
      BY <1>1, <2>2, <2>6, <2>11, <3>1 DEF KnownStays
    <3>2. CASE i = n
      BY <1>1, <2>7, <2>8, <2>9, <2>11, <3>2 DEF KnownStays
    <3> QED BY <2>3, <3>1, <3>2
  <2>12. ASSUME NEW i \in DOMAIN toPage', IsReading(i)', Knows(toPage'[i], l), Owns(gen)'
         PROVE  Kept(l)'
    <3>1. CASE i \in DOMAIN toPage
      <4>1. IsReading(i) /\ Knows(toPage[i], l)
        BY <2>2, <2>6, <2>12, <3>1
      <4> QED BY <1>1, <1>2, <1>4, <2>12, <3>1, <4>1 DEF KnownStays
    <3>2. CASE i = n
      BY <2>8, <2>9, <2>12, <3>2
    <3> QED BY <2>3, <3>1, <3>2
  <2>13. Shows(l) /\ Owns(gen)' => Kept(l)'
    BY <1>1, <1>2, <1>4 DEF KnownStays
  <2>14. KnownStays(l)'
    BY <1>3, <2>10, <2>11, <2>12, <2>13 DEF KnownStays
  <2> QED BY <2>5, <2>14
<1> QED BY <1>5, <1>6 DEF Says

(* A step of the worker that starts no build.                               *)
LEMMA WorkerValue ==
  ASSUME SessionInv, StillOld, ValueInv, SameProgram, Says, KeepsKnown, ValueRunsFit',
         KnownPresent', UNCHANGED <<gen, awaitingRun, readout>>
  PROVE  ValueInv'
<1>1. ReadoutFits
  BY DEF ValueInv
<1>2. ReadoutFits'
  <2>1. PICK g : g = readout.gen /\ Old(g)
    BY <1>1 DEF ReadoutFits
  <2>2. Old(g)'
    BY <2>1 DEF StillOld
  <2>3. Old(readout.gen)'
    BY <1>1, <2>1, <2>2
  <2> QED BY <1>1, <2>3 DEF ReadoutFits, NoReadout
<1>3. ASSUME NEW l \in Legs PROVE ReadingsFit' /\ KnownStays(l)'
  BY <1>3, SaidStays
<1>4. ReadingsFit'
  <2>1. PICK l : l \in Legs
    BY SomeLeg
  <2> QED BY <1>3, <2>1
<1> QED BY <1>2, <1>3, <1>4 DEF ValueInv

-----------------------------------------------------------------------------
(* Handlers.  A call that leaves the thread to the event loop.              *)
LEMMA IdleRuns ==
  ASSUME ValueRunsFit, running' = Idle,
         \A i \in DOMAIN suspended' : suspended'[i].by = "value" => Kind = "tm-scratch"
  PROVE  ValueRunsFit'
BY DEF ValueRunsFit

(* Nothing of what is known changes.                                        *)
LEMMA KnownAside ==
  ASSUME live' = NoLive \/ (live'.chunks = live.chunks /\ UNCHANGED parts)
  PROVE  KeepsKnown
BY DEF KeepsKnown, Kept, parts

(* A chunk of a leg that is there.                                          *)
LEMMA ChunkValue ==
  ASSUME CallInv, ValueRunsFit, SameProgram, NEW call \in CallType, call.by # "value",
         Owns(call.gen), Present(call.leg), NEW first \in BOOLEAN,
         NEW others \in Seq(CallType), Chunk(call, first, others), UNCHANGED parts,
         \A j \in DOMAIN others : \E k \in DOMAIN suspended : others[j] = suspended[k]
  PROVE  Says /\ KeepsKnown /\ ValueRunsFit'
<1>1. /\ live # NoLive /\ live \in LiveType /\ call.leg \in Legs
      /\ CallTypes /\ CursorsFit /\ IsSeq(others)
  BY SeqIsSeq DEF Owns, CallInv, CallsFit, CallTypes, CallType
<1>2. PICK n \in Nat, c \in CursorType, d \in DoneType :
         ChunkOf(call, first, others, n, c, d)
  BY <1>1, ChunkInFull
<1> DEFINE r == [kind |-> "frames", gen |-> call.gen, leg |-> call.leg,
                 epoch |-> call.epoch,
                 frames |-> Frames(call.leg, IF first THEN live.cursor[call.leg].pos
                                             ELSE live.cursor[call.leg].pos + 1,
                                   live.cursor[call.leg].pos + n),
                 done |-> d]
<1>3. /\ toPage' = Append(toPage, r)
      /\ live' = [live EXCEPT !.cursor[call.leg] = c]
      /\ running' = IF d = NotDone THEN Idle ELSE AtAfter(call, TRUE)
      /\ suspended' = IF d = NotDone THEN Append(others, call) ELSE others
  BY <1>2 DEF ChunkOf, Post
<1>4. r.kind = "frames" /\ r.gen = call.gen
  OBVIOUS
<1> HIDE DEF r
<1>5. Says
  BY <1>3, <1>4 DEF Says, SaysOne
<1>6. live'.chunks = live.chunks /\ live'.gen = live.gen /\ live'.prog = live.prog
  BY <1>1, <1>3 DEF LiveType
<1>7. KeepsKnown
  BY <1>6, KnownAside
<1>8. \A i \in DOMAIN suspended' : suspended'[i].by = "value" => Kind = "tm-scratch"
  <2>1. \A j \in DOMAIN others : others[j].by = "value" => Kind = "tm-scratch"
    BY DEF ValueRunsFit
  <2>2. \A i \in DOMAIN suspended' :
           \/ i \in DOMAIN others /\ suspended'[i] = others[i]
           \/ suspended'[i] = call
    BY <1>1, <1>3, AppendedTo
  <2> QED BY <2>1, <2>2
<1>9. CASE d = NotDone
  BY <1>3, <1>5, <1>7, <1>8, <1>9, IdleRuns
<1>10. CASE d # NotDone
  <2>1. running'.call = call
    BY <1>3, <1>10 DEF AtAfter
  <2>2. Present(call.leg)'
    BY <1>6 DEF Present
  <2> QED BY <1>5, <1>7, <1>8, <2>1, <2>2 DEF ValueRunsFit
<1> QED BY <1>9, <1>10

(* A throw of a call of what is live.                                       *)
LEMMA ThrowValue ==
  ASSUME ValueRunsFit, NEW call, Owns(call.gen), NEW others, Throw(call, others),
         \A j \in DOMAIN others : \E k \in DOMAIN suspended : others[j] = suspended[k]
  PROVE  Says /\ KeepsKnown /\ ValueRunsFit'
<1> DEFINE r == [kind |-> "worker-error", gen |-> call.gen]
<1>1. live' = NoLive /\ toPage' = Append(toPage, r) /\ running' = Idle /\ suspended' = others
  BY DEF Throw, Post
<1>2. r.gen = call.gen /\ r.kind = "worker-error"
  OBVIOUS
<1> HIDE DEF r
<1>3. Says
  BY <1>1, <1>2 DEF Says, SaysOne
<1>4. ValueRunsFit'
  BY <1>1, IdleRuns DEF ValueRunsFit
<1> QED BY <1>1, <1>3, <1>4, KnownAside

(* A loop starts.                                                           *)
LEMMA EnterValue ==
  ASSUME CallInv, ValueRunsFit, SameProgram, EnterRecord
  PROVE  Says /\ KeepsKnown /\ ValueRunsFit'
<1> DEFINE asked == running.call
           call == [asked EXCEPT !.epoch = epoch[asked.leg]]
<1>1. running.pc = "record" /\ running # Idle /\ UNCHANGED parts
  BY DEF EnterRecord, Idle
<1>2. asked \in CallType /\ asked.by # "value" /\ asked.leg \in Legs
  <2>1. running.call \in CallType /\ asked.by # "value"
    BY <1>1, RunningCall
  <2> QED BY <2>1 DEF CallType
<1>3. suspended \in Seq(CallType) /\ epoch \in [Legs -> 0..MaxEpoch]
  BY DEF CallInv, CallsFit, CallTypes
<1>4. /\ call \in CallType /\ call.by = asked.by /\ call.gen = asked.gen
      /\ call.leg = asked.leg
  BY <1>2, <1>3 DEF CallType
<1> HIDE DEF call, asked
<1>5. CASE /\ running' = AtAfter(call, FALSE)
           /\ UNCHANGED <<toPage, live, suspended>>
  <2>1. running'.call = call /\ ~running'.ran
    BY <1>5 DEF AtAfter
  <2>2. ValueRunsFit'
    BY <1>2, <1>4, <1>5, <2>1 DEF ValueRunsFit
  <2> QED BY <1>1, <1>5, <2>2, KnownAside DEF Says
<1>6. CASE ~TurnedAway(call) /\ Chunk(call, First(call), suspended)
  <2>1. Owns(call.gen) /\ Present(call.leg) /\ First(call) \in BOOLEAN
    BY <1>6 DEF TurnedAway, Holds, First
  <2> QED BY <1>1, <1>2, <1>3, <1>4, <1>6, <2>1, ChunkValue
<1>7. CASE ~TurnedAway(call) /\ Throw(call, suspended)
  BY <1>7, ThrowValue DEF TurnedAway, Holds
<1> QED BY <1>5, <1>6, <1>7 DEF EnterRecord, asked, call

(* The calls that stay when one is taken up.                                *)
LEMMA OthersAmong ==
  ASSUME CallInv, NEW i \in DOMAIN suspended
  PROVE  \A j \in DOMAIN RemoveAt(suspended, i) :
            \E k \in DOMAIN suspended : RemoveAt(suspended, i)[j] = suspended[k]
<1> DEFINE t == RemoveAt(suspended, i)
<1>1. suspended \in Seq(CallType)
  BY DEF CallInv, CallsFit, CallTypes
<1>2. /\ Len(suspended) \in Nat \ {0} /\ DOMAIN suspended = 1..Len(suspended)
      /\ DOMAIN t = 1..(Len(suspended) - 1)
      /\ \A j \in 1..(Len(suspended) - 1) : t[j] = suspended[Before(i, j)]
  BY <1>1, Removed
<1> HIDE DEF t
<1>3. \A j \in DOMAIN t : Before(i, j) \in DOMAIN suspended /\ t[j] = suspended[Before(i, j)]
  BY <1>2 DEF Before
<1> QED BY <1>3 DEF t

(* A loop wakes.                                                            *)
LEMMA ResumeValue ==
  ASSUME CallInv, ValueRunsFit, SameProgram, NEW l \in Legs, ResumeRecord(l)
  PROVE  Says /\ KeepsKnown /\ ValueRunsFit'
<1>1. PICK i \in DOMAIN suspended :
         LET call   == suspended[i]
             others == RemoveAt(suspended, i)
         IN  /\ call.by # "value" /\ call.leg = l
             /\ IF Owns(call.gen) /\ epoch[l] = call.epoch
                THEN Chunk(call, FALSE, others) \/ Throw(call, others)
                ELSE /\ suspended' = others
                     /\ running' = AtAfter(call, TRUE)
                     /\ UNCHANGED <<toPage, live, handles, books, throws>>
  BY DEF ResumeRecord
<1> DEFINE call == suspended[i]
           others == RemoveAt(suspended, i)
<1>2. /\ call \in CallType /\ LoopFits(call) /\ others \in Seq(CallType)
      /\ call.by # "value" /\ call.leg = l
  BY <1>1, SuspendedCall
<1>3. UNCHANGED parts
  BY DEF ResumeRecord
<1>4. \A j \in DOMAIN others : \E k \in DOMAIN suspended : others[j] = suspended[k]
  BY OthersAmong
<1>5. \/ Owns(call.gen) /\ Chunk(call, FALSE, others)
      \/ Owns(call.gen) /\ Throw(call, others)
      \/ suspended' = others /\ running' = AtAfter(call, TRUE) /\ UNCHANGED <<toPage, live>>
  BY <1>1
<1>6. Owns(call.gen) => Present(call.leg)
  BY <1>2 DEF LoopFits
<1> HIDE DEF call, others
<1>7. CASE Owns(call.gen) /\ Chunk(call, FALSE, others)
  BY <1>2, <1>3, <1>4, <1>6, <1>7, ChunkValue
<1>8. CASE Owns(call.gen) /\ Throw(call, others)
  BY <1>4, <1>8, ThrowValue
<1>9. CASE suspended' = others /\ running' = AtAfter(call, TRUE) /\ UNCHANGED <<toPage, live>>
  <2>1. running'.call = call
    BY <1>9 DEF AtAfter
  <2>2. \A j \in DOMAIN others : others[j].by = "value" => Kind = "tm-scratch"
    BY <1>4 DEF ValueRunsFit
  <2>3. ValueRunsFit'
    BY <1>2, <1>6, <1>9, <2>1, <2>2 DEF ValueRunsFit, Owns, Present
  <2> QED BY <1>3, <1>9, <2>3, KnownAside DEF Says
<1> QED BY <1>5, <1>7, <1>8, <1>9

(* An rxm copy has the rxm leg only.                                        *)
LEMMA OnlyRxm == Kind = "rxm-scratch" => \A l \in Legs : l = "rxm"
<1>1. Kind = "rxm-scratch" => FillOrder = <<"rxm">>
  BY ProtocolAssumption
<1> QED BY <1>1 DEF Legs, ToSet

(* What is read of a leg: nothing of one that is not there, and a value     *)
(* known or not of one that is.                                             *)
LEMMA ReadingValue ==
  ASSUME NEW l
  PROVE  /\ ReadPart(l).value = Value(l)
         /\ Present(l) => Value(l) \in {Unfinished, Decided}
         /\ Value(l) = Decided => Present(l)
BY DEF ReadPart, Part, Value, None, Unfinished, Decided

(* A result knows what was known, and knows it of legs that are there.      *)
LEMMA ResultKnows ==
  ASSUME CallInv, KnownPresent, NEW g, Owns(g), PostResult(g), NEW l \in Legs
  PROVE  /\ posted[l].value = Decided => posted'[l].value = Decided
         /\ posted'[l].value = Decided => Present(l)
         /\ rewoundFrom' = rewoundFrom
<1> DEFINE read == [k \in Legs |-> ReadPart(k)]
           held == IF \E k \in Legs : posted[k] # NoPart THEN posted ELSE rewoundFrom
           kept == KeepInFlight(held, read, recording)
<1>1. posted' = KeepDecided(posted, kept) /\ rewoundFrom' = rewoundFrom
  BY DEF PostResult
<1>2. read[l] = ReadPart(l)
  OBVIOUS
<1>3. posted[l] # NoPart => held[l] = posted[l]
  OBVIOUS
<1>4. held[l] = posted[l] \/ held[l] = rewoundFrom[l]
  OBVIOUS
<1> HIDE DEF read, held
<1>5. kept[l] = IF recording[l] /\ held[l] # NoPart THEN held[l] ELSE read[l]
  BY DEF KeepInFlight
<1> HIDE DEF kept
<1>6. posted'[l] = IF posted[l] = NoPart THEN kept[l] ELSE KeepDecidedPart(posted[l], kept[l])
  BY <1>1 DEF KeepDecided
<1>7. posted[l].value = Decided \/ rewoundFrom[l].value = Decided => Present(l)
  BY DEF KnownPresent, Owns
<1>8. ASSUME posted[l].value = Decided PROVE posted'[l].value = Decided
  <2>1. posted[l] # NoPart
    BY <1>8 DEF NoPart, Decided
  <2>2. IsDecided(posted[l].value)
    BY <1>8 DEF IsDecided, None, Unfinished, Decided
  <2>3. posted'[l] = IF kept[l].value = Unfinished THEN posted[l] ELSE kept[l]
    BY <1>6, <2>1, <2>2 DEF KeepDecidedPart
  <2>4. kept[l] = posted[l] \/ kept[l] = ReadPart(l)
    BY <1>2, <1>3, <1>5, <2>1
  <2>5. kept[l].value \in {Unfinished, Decided}
    BY <1>7, <1>8, <2>4, ReadingValue
  <2> QED BY <1>8, <2>3, <2>5
<1>9. ASSUME posted'[l].value = Decided PROVE Present(l)
  <2>1. posted'[l] = posted[l] \/ posted'[l] = kept[l]
    BY <1>6 DEF KeepDecidedPart
  <2>2. \/ posted'[l] = posted[l] \/ posted'[l] = rewoundFrom[l] \/ posted'[l] = ReadPart(l)
    BY <1>2, <1>4, <1>5, <2>1
  <2> QED BY <1>7, <1>9, <2>2, ReadingValue
<1> QED BY <1>1, <1>8, <1>9

(* A result says what is kept from then on.                                 *)
LEMMA ResultValue ==
  ASSUME CallInv, KnownPresent, Kind = "session", NEW g, Owns(g), PostResult(g),
         live' = live
  PROVE  Says /\ KeepsKnown
<1> DEFINE read == [k \in Legs |-> ReadPart(k)]
           held == IF \E k \in Legs : posted[k] # NoPart THEN posted ELSE rewoundFrom
           new == KeepDecided(posted, KeepInFlight(held, read, recording))
           r == [kind |-> "result", gen |-> g, part |-> new]
<1>1. posted' = new /\ toPage' = Append(toPage, r)
  BY DEF PostResult, Post
<1>2. r.kind = "result" /\ r.gen = g /\ r.part = new
  OBVIOUS
<1> HIDE DEF r, new
<1>3. ASSUME NEW l \in Legs
      PROVE  /\ posted[l].value = Decided => posted'[l].value = Decided
             /\ Knows(r, l) <=> posted'[l].value = Decided
  BY <1>1, <1>2, ResultKnows DEF Knows
<1>4. ASSUME NEW l \in Legs
      PROVE  (Kept(l) <=> posted[l].value = Decided) /\ (Kept(l)' <=> posted'[l].value = Decided)
  BY DEF Kept
<1>5. SaysKnown(r)
  BY <1>3, <1>4 DEF SaysKnown
<1>6. Says
  BY <1>1, <1>2, <1>5 DEF Says, SaysOne
<1> QED BY <1>3, <1>4, <1>6 DEF KeepsKnown

(* A call answers, or throws in the attempt.                                *)
LEMMA AnswerValue ==
  ASSUME ValueRunsFit, NEW call, Owns(call.gen), NEW P, Answer(call, P),
         P /\ live' = live => Says /\ KeepsKnown
  PROVE  Says /\ KeepsKnown /\ ValueRunsFit'
<1>1. CASE P /\ running' = Idle /\ UNCHANGED <<live, suspended>>
  BY <1>1, IdleRuns DEF ValueRunsFit
<1>2. CASE /\ live' = NoLive /\ Post([kind |-> "worker-error", gen |-> call.gen])
           /\ running' = Idle /\ UNCHANGED suspended
  <2> DEFINE r == [kind |-> "worker-error", gen |-> call.gen]
  <2>1. toPage' = Append(toPage, r) /\ r.gen = call.gen /\ r.kind = "worker-error"
    BY <1>2 DEF Post
  <2> HIDE DEF r
  <2>2. Says
    BY <2>1 DEF Says, SaysOne
  <2>3. ValueRunsFit'
    BY <1>2, IdleRuns DEF ValueRunsFit
  <2> QED BY <1>2, <2>2, <2>3, KnownAside
<1> QED BY <1>1, <1>2 DEF Answer

(* A call that goes on with nothing posted.                                 *)
LEMMA QuietValue ==
  ASSUME UNCHANGED <<toPage, live, parts>> PROVE Says /\ KeepsKnown
BY KnownAside DEF Says

LEMMA NoAnswerValue ==
  ASSUME ValueRunsFit, NoAnswer PROVE Says /\ KeepsKnown /\ ValueRunsFit'
BY QuietValue, IdleRuns DEF NoAnswer, ValueRunsFit

(* A run's loop has returned.                                               *)
LEMMA AfterRunValue ==
  ASSUME CallInv, ValueRunsFit, KnownPresent, AfterRun
  PROVE  Says /\ KeepsKnown /\ ValueRunsFit'
<1> DEFINE call == running.call
           at == CHOOSE i \in DOMAIN FillOrder : FillOrder[i] = call.leg
           next == FillOrder[at + 1]
<1>1. running # Idle /\ call.by = "run"
  BY DEF AfterRun, Returned, Idle
<1>2. call \in CallType
  BY <1>1, RunningCall
<1>3. CASE /\ running' = AtRecord([call EXCEPT !.leg = next])
           /\ UNCHANGED <<toPage, live, parts, suspended>>
  <2> DEFINE c == [call EXCEPT !.leg = next]
  <2>1. c.by = "run"
    BY <1>1, <1>2 DEF CallType
  <2>2. running'.call = c /\ ~running'.ran
    BY <1>3 DEF AtRecord
  <2> HIDE DEF c
  <2>3. ValueRunsFit'
    BY <1>3, <2>1, <2>2 DEF ValueRunsFit
  <2> QED BY <1>3, <2>3, QuietValue
<1>4. CASE /\ Kind = "tm-scratch"
           /\ running' = AtValue([call EXCEPT !.by = "value"])
           /\ UNCHANGED <<toPage, live, parts, suspended>>
  <2>1. ~running'.ran
    BY <1>4 DEF AtValue
  <2>2. ValueRunsFit'
    BY <1>4, <2>1 DEF ValueRunsFit
  <2> QED BY <1>4, <2>2, QuietValue
<1>5. CASE Answers(call.gen) /\ Answer(call, PostResult(call.gen))
  BY <1>5, ResultValue, AnswerValue DEF Answers
<1>6. CASE NoAnswer
  BY <1>6, NoAnswerValue
<1> QED BY <1>3, <1>4, <1>5, <1>6 DEF AfterRun

(* A continue's loop has returned.                                          *)
LEMMA AfterExtendValue ==
  ASSUME CallInv, ValueRunsFit, KnownPresent, AfterExtend
  PROVE  Says /\ KeepsKnown /\ ValueRunsFit'
<1> DEFINE call == running.call
           P == /\ Post([kind |-> "rxm-value", gen |-> call.gen, value |-> Value("rxm")])
                /\ UNCHANGED parts
<1>1. running # Idle
  BY DEF AfterExtend, Returned, Idle
<1>2. \/ NoAnswer
      \/ Kind = "rxm-scratch" /\ running.ran /\ Owns(call.gen) /\ Answer(call, P)
      \/ Kind = "session" /\ Owns(call.gen) /\ Answer(call, PostResult(call.gen))
  BY DEF AfterExtend
<1>3. CASE NoAnswer
  BY <1>3, NoAnswerValue
<1>4. CASE Kind = "rxm-scratch" /\ running.ran /\ Owns(call.gen) /\ Answer(call, P)
  <2>1. call.leg = "rxm"
    <3>1. call \in CallType
      BY <1>1, RunningCall
    <3>2. call.leg \in Legs
      BY <3>1 DEF CallType
    <3> QED BY <1>4, <3>2, OnlyRxm
  <2>2. Present("rxm")
    BY <1>1, <1>4, <2>1 DEF ValueRunsFit
  <2>3. Value("rxm") # None
    BY <2>2, ReadingValue DEF None, Unfinished, Decided
  <2>4. P /\ live' = live => Says /\ KeepsKnown
    <3> SUFFICES ASSUME P, live' = live PROVE Says /\ KeepsKnown
      OBVIOUS
    <3> DEFINE r == [kind |-> "rxm-value", gen |-> call.gen, value |-> Value("rxm")]
    <3>1. toPage' = Append(toPage, r) /\ UNCHANGED parts
      BY DEF Post
    <3>2. r.kind = "rxm-value" /\ r.gen = call.gen /\ r.value # None
      BY <2>3
    <3> HIDE DEF r
    <3>3. Says
      BY <1>4, <3>1, <3>2 DEF Says, SaysOne
    <3> QED BY <3>1, <3>3, KnownAside
  <2> HIDE DEF P
  <2> QED BY <1>4, <2>4, AnswerValue
<1>5. CASE Kind = "session" /\ Owns(call.gen) /\ Answer(call, PostResult(call.gen))
  BY <1>5, ResultValue, AnswerValue
<1> QED BY <1>2, <1>3, <1>4, <1>5

(* A value run's chunk: its last report knows the value, and none follows.  *)
LEMMA ValueChunkValue ==
  ASSUME CallInv, ValueRunsFit, Kind = "tm-scratch", NEW call \in CallType,
         NEW others \in Seq(CallType), ValueChunk(call, others), UNCHANGED parts,
         \A j \in DOMAIN others : \E k \in DOMAIN suspended : others[j] = suspended[k]
  PROVE  Says /\ KeepsKnown /\ ValueRunsFit'
<1>1. ASSUME running' = Idle PROVE ValueRunsFit'
  BY <1>1, IdleRuns
<1>2. CASE running' = Idle /\ UNCHANGED <<toPage, live>>
  BY <1>1, <1>2, QuietValue
<1>3. CASE /\ HasValueRun(call.gen)
           /\ live' = [live EXCEPT !.chunks = @ - 1]
           /\ Post([kind |-> "tm-value", gen |-> call.gen,
                    value |-> IF live.chunks = 1 THEN Decided ELSE Unfinished])
           /\ running' = Idle
  <2> DEFINE r == [kind |-> "tm-value", gen |-> call.gen,
                   value |-> IF live.chunks = 1 THEN Decided ELSE Unfinished]
  <2>1. toPage' = Append(toPage, r)
    BY <1>3 DEF Post
  <2>2. /\ r.kind = "tm-value" /\ r.gen = call.gen
        /\ r.value = Decided => live.chunks = 1
    BY DEF Unfinished, Decided
  <2> HIDE DEF r
  <2>3. Owns(call.gen) /\ live.chunks > 0 /\ live \in LiveType
    BY <1>3 DEF HasValueRun, Owns, CallInv, CallsFit, CallTypes
  <2>4. live'.chunks = live.chunks - 1 /\ live.chunks \in Nat
    BY <1>3, <2>3 DEF LiveType
  <2>5. \A l \in Legs : ~Kept(l)
    BY <2>3, <2>4 DEF Kept
  <2>6. live.chunks = 1 => \A l \in Legs : Kept(l)'
    BY <2>4 DEF Kept
  <2>7. SaysKnown(r)
    BY <2>2, <2>5, <2>6 DEF SaysKnown, Knows
  <2>8. Says
    BY <2>1, <2>2, <2>3, <2>7 DEF Says, SaysOne
  <2> QED BY <1>1, <1>3, <2>5, <2>8 DEF KeepsKnown
<1>4. CASE HasValueRun(call.gen) /\ Throw(call, others)
  BY <1>4, ThrowValue DEF HasValueRun
<1> QED BY <1>2, <1>3, <1>4 DEF ValueChunk

(* A value run's turn.                                                      *)
LEMMA RunValueValue ==
  ASSUME CallInv, ValueRunsFit, RunValue PROVE Says /\ KeepsKnown /\ ValueRunsFit'
<1>1. UNCHANGED parts /\ suspended \in Seq(CallType)
  BY DEF RunValue, CallInv, CallsFit, CallTypes
<1>2. CASE running.pc = "value" /\ ValueChunk(running.call, suspended)
  <2>1. running # Idle
    BY <1>2 DEF Idle
  <2>2. running.call \in CallType /\ running.call.by = "value"
    BY <1>2, <2>1, RunningCall DEF CallInv, RunningFits
  <2>3. Kind = "tm-scratch"
    BY <2>1, <2>2 DEF ValueRunsFit
  <2> QED BY <1>1, <1>2, <2>2, <2>3, ValueChunkValue
<1>3. CASE \E i \in DOMAIN suspended : /\ suspended[i].by = "value"
                                       /\ ValueChunk(suspended[i], RemoveAt(suspended, i))
  <2>1. PICK i \in DOMAIN suspended : /\ suspended[i].by = "value"
                                      /\ ValueChunk(suspended[i], RemoveAt(suspended, i))
    BY <1>3
  <2>2. suspended[i] \in CallType /\ RemoveAt(suspended, i) \in Seq(CallType)
    BY SuspendedCall
  <2>3. Kind = "tm-scratch"
    BY <2>1 DEF ValueRunsFit
  <2> QED BY <1>1, <2>1, <2>2, <2>3, OthersAmong, ValueChunkValue
<1> QED BY <1>2, <1>3 DEF RunValue

(* The steps that take no message and start no build.                       *)
LEMMA ProceedsValue ==
  ASSUME SessionInv, ValueInv, Proceeds
  PROVE  SameProgram /\ Says /\ KeepsKnown /\ ValueRunsFit' /\ KnownPresent'
<1>1. CallInv /\ OneLoop /\ ValueRunsFit /\ KnownPresent
  BY DEF SessionInv, ValueInv
<1>2. SameProgram
  BY <1>1, ProceedsLoops DEF SameFlight, SameProgram
<1>3. AfterRewind => Says /\ KeepsKnown /\ ValueRunsFit'
  BY <1>1, NoAnswerValue DEF AfterRewind
<1>4. Says /\ KeepsKnown /\ ValueRunsFit'
  BY <1>1, <1>2, <1>3, EnterValue, ResumeValue, AfterRunValue, AfterExtendValue,
     RunValueValue DEF Proceeds
<1>5. ASSUME live' # NoLive, NEW l \in Legs PROVE Present(l) => Present(l)'
  BY <1>2, <1>5 DEF SameProgram, Present
<1>6. ASSUME live' # NoLive, NEW l \in Legs, posted'[l].value = Decided \/ rewoundFrom'[l].value = Decided
      PROVE  Present(l)
  <2>1. live # NoLive
    BY <1>2, <1>6 DEF SameProgram
  <2>2. CASE UNCHANGED parts
    BY <1>1, <1>6, <2>1, <2>2 DEF KnownPresent, parts
  <2>3. CASE \E g : Owns(g) /\ PostResult(g)
    <3>1. posted'[l].value = Decided => Present(l)
      BY <1>1, <2>3, ResultKnows
    <3>2. rewoundFrom' = rewoundFrom
      BY <2>3 DEF PostResult
    <3> QED BY <1>1, <1>6, <2>1, <3>1, <3>2 DEF KnownPresent
  <2> QED BY <2>2, <2>3, ProceedsWrites
<1>7. KnownPresent'
  BY <1>5, <1>6 DEF KnownPresent
<1> QED BY <1>2, <1>4, <1>7

-----------------------------------------------------------------------------
(* Requests.  A continue takes its turn.                                    *)
LEMMA ExtendValue ==
  ASSUME SessionInv, ValueInv, ReceiveExtend
  PROVE  SameProgram /\ Says /\ KeepsKnown /\ ValueRunsFit' /\ KnownPresent'
<1> DEFINE m == Head(toWorker)
           l == m.leg
           c == Call("extend", m.gen, l, m.epoch)
<1>1. CallInv /\ OneLoop /\ Old(live.gen) /\ ValueRunsFit /\ KnownPresent
  BY DEF SessionInv, GenInv, ValueInv
<1>2. UNCHANGED <<toPage, parts, suspended>> /\ running = Idle /\ toWorker # <<>>
  BY DEF ReceiveExtend, Received, Free
<1>3. IsRequest(m)
  BY <1>2, HeadRequest DEF SessionInv
<1>4. SameProgram
  BY <1>1, <1>3, ExtendLoops DEF SameFlight, SameProgram
<1>5. live' = NoLive \/ live'.chunks = live.chunks
  <2>1. \/ live' = live
        \/ Owns(m.gen) /\ live' = [live EXCEPT !.cursor[l] = Raised(@)]
    BY DEF ReceiveExtend
  <2>2. ASSUME Owns(m.gen), live' = [live EXCEPT !.cursor[l] = Raised(@)]
        PROVE  live'.chunks = live.chunks
    <3>1. live \in LiveType
      BY <1>1, <2>2 DEF Owns, CallInv, CallsFit, CallTypes
    <3> QED BY <2>2, <3>1 DEF LiveType
  <2> QED BY <2>1, <2>2
<1>6. Says /\ KeepsKnown
  BY <1>2, <1>5, KnownAside DEF Says
<1>7. running' = Idle \/ running' = AtRecord(c)
  BY <1>2 DEF ReceiveExtend
<1>8. running' # Idle => running'.call.by = "extend" /\ ~running'.ran
  BY <1>7 DEF AtRecord, Call
<1>9. ValueRunsFit'
  BY <1>1, <1>2, <1>8 DEF ValueRunsFit
<1>10. KnownPresent'
  BY <1>1, <1>2, <1>4 DEF KnownPresent, SameProgram, Present, parts
<1> QED BY <1>4, <1>6, <1>9, <1>10

(* A rewind keeps what its leg had answered.                                *)
LEMMA RewindValue ==
  ASSUME SessionInv, ValueInv, ReceiveRewind
  PROVE  SameProgram /\ Says /\ KeepsKnown /\ ValueRunsFit' /\ KnownPresent'
<1> DEFINE m == Head(toWorker)
           l == m.leg
           c == Call("rewind", m.gen, l, m.epoch)
<1>1. CallInv /\ ValueRunsFit /\ KnownPresent
  BY DEF SessionInv, ValueInv
<1>2. UNCHANGED <<toPage, suspended>> /\ running = Idle
  BY DEF ReceiveRewind, Received, Free
<1>3. CASE UNCHANGED <<live, parts, running>>
  <2>1. ValueRunsFit' /\ KnownPresent'
    BY <1>1, <1>2, <1>3 DEF ValueRunsFit, KnownPresent, Present, parts
  <2> QED BY <1>2, <1>3, <2>1, QuietValue DEF SameProgram
<1>4. CASE /\ Holds(m.gen, l)
           /\ rewoundFrom' = IF Kind = "session" /\ \A k \in Legs : posted[k] = NoPart
                             THEN [rewoundFrom EXCEPT ![l] = ReadPart(l)] ELSE rewoundFrom
           /\ live' = [live EXCEPT !.cursor[l] = OpenCursor(@.lap + 1)]
           /\ running' = AtRecord(c)
           /\ posted' = posted
  <2>1. live # NoLive /\ live \in LiveType /\ rewoundFrom \in [Legs -> KeptType]
    BY <1>1, <1>4 DEF Holds, Owns, CallInv, CallsFit, CallTypes, PartTypes
  <2>2. live'.chunks = live.chunks /\ live'.gen = live.gen /\ live'.prog = live.prog
    BY <1>4, <2>1 DEF LiveType
  <2>3. SameProgram
    BY <2>1, <2>2 DEF SameProgram
  <2>4. Says /\ KeepsKnown
    BY <1>2, <1>4, <2>2 DEF Says, KeepsKnown, Kept
  <2>5. running'.call.by = "rewind" /\ ~running'.ran
    BY <1>4 DEF AtRecord, Call
  <2>6. ValueRunsFit'
    BY <1>1, <1>2, <2>5 DEF ValueRunsFit
  <2>7. \A k \in Legs : rewoundFrom'[k] = rewoundFrom[k] \/ (k = l /\ rewoundFrom'[k] = ReadPart(l))
    BY <1>4, <2>1
  <2>8. ReadPart(l).value = Decided => Present(l)
    BY ReadingValue
  <2>9. KnownPresent'
    BY <1>1, <1>4, <2>1, <2>2, <2>7, <2>8 DEF KnownPresent, Present
  <2> QED BY <2>3, <2>4, <2>6, <2>9
<1> QED BY <1>3, <1>4 DEF ReceiveRewind

(* Nothing that matters here changes.                                       *)
LEMMA AsideValue ==
  ASSUME SessionInv, StillOld, ValueInv, UNCHANGED <<gen, awaitingRun, readout>>,
         UNCHANGED <<toPage, live, parts, suspended, running>>
  PROVE  ValueInv'
<1>1. SameProgram /\ Says /\ KeepsKnown
  BY QuietValue DEF SameProgram
<1>2. ValueRunsFit' /\ KnownPresent'
  BY DEF ValueInv, ValueRunsFit, KnownPresent, Owns, Present, parts
<1> QED BY <1>1, <1>2, WorkerValue

-----------------------------------------------------------------------------
(* Builds.  One begins with nothing known, and the page has nothing of it.  *)
LEMMA BuildValue ==
  ASSUME SessionInv, StillOld, RingInv, ValueInv, UNCHANGED <<gen, awaitingRun, readout>>,
         NEW g, NewBuild(g)
  PROVE  ValueInv'
<1>1. /\ awaitingRun /\ \A i \in DOMAIN toPage : toPage[i].gen # g
  BY BuildUnheard
<1>2. /\ Build(g) /\ IsSeq(toPage) /\ gen \in Nat /\ readout.gen \in Nat
      /\ ReadingsFit /\ ValueRunsFit /\ ReadoutFits /\ \A l \in Legs : KnownStays(l)
  BY DEF NewBuild, SessionInv, RepliesTyped, PageTypes, ValueInv
<1>3. /\ live' # NoLive => live'.gen = g
      /\ \/ toPage' = toPage
         \/ \E r : /\ toPage' = Append(toPage, r)
                   /\ r.kind \in {"no-session", "worker-error", "compiled"}
  BY <1>2, BuildEnds DEF BuildTold
<1>4. /\ \A i \in DOMAIN toPage : i \in DOMAIN toPage' /\ toPage'[i] = toPage[i]
      /\ \A i \in DOMAIN toPage' :
            \/ i \in DOMAIN toPage /\ toPage'[i] = toPage[i]
            \/ toPage'[i].kind \in {"no-session", "worker-error", "compiled"}
  <2>1. CASE toPage' = toPage
    BY <2>1
  <2>2. CASE toPage' # toPage
    <3>1. PICK r : /\ toPage' = Append(toPage, r)
                   /\ r.kind \in {"no-session", "worker-error", "compiled"}
      BY <1>3, <2>2
    <3>2. \A i \in DOMAIN toPage : i \in DOMAIN toPage' /\ toPage'[i] = toPage[i]
      BY <1>2, <3>1, Appended
    <3>3. \A i \in DOMAIN toPage' :
             (i \in DOMAIN toPage /\ toPage'[i] = toPage[i]) \/ toPage'[i] = r
      BY <1>2, <3>1, AppendedTo
    <3> QED BY <3>1, <3>2, <3>3
  <2> QED BY <2>1, <2>2
<1>5. ReadingsFit'
  BY <1>2, <1>4 DEF ReadingsFit
<1>6. ValueRunsFit'
  <2>1. suspended' = suspended
    BY <1>2 DEF Build
  <2>2. running' = Idle \/ running' = AtRecord(Call("run", g, FillOrder[1], 0))
    BY <1>2 DEF Build
  <2>3. running' # Idle => running'.call.by = "run" /\ ~running'.ran
    BY <2>2 DEF AtRecord, Call
  <2> QED BY <1>2, <2>1, <2>3 DEF ValueRunsFit
<1>7. KnownPresent'
  <2>1. posted' = [l \in Legs |-> NoPart] /\ rewoundFrom' = [l \in Legs |-> NoPart]
    BY <1>2 DEF Build, NewBooks
  <2>2. NoPart.value # Decided
    BY DEF NoPart, Decided
  <2> QED BY <2>1, <2>2 DEF KnownPresent
<1>8. ReadoutFits'
  <2>1. PICK h : h = readout.gen /\ Old(h)
    BY <1>2 DEF ReadoutFits
  <2>2. Old(h)'
    BY <2>1 DEF StillOld
  <2> QED BY <1>2, <2>1, <2>2 DEF ReadoutFits, NoReadout
<1>9. ASSUME NEW l \in Legs PROVE KnownStays(l)'
  <2>1. ~Shows(l)' /\ (Owns(gen)' => gen = g)
    BY <1>1, <1>2, <1>3 DEF Shows, ReadoutFits, Owns
  <2>2. \A i \in DOMAIN toPage' : IsReading(i)' =>
           i \in DOMAIN toPage /\ toPage'[i] = toPage[i] /\ IsReading(i)
    BY <1>4 DEF IsReading, OfGen
  <2>3. Owns(gen)' => \A i \in DOMAIN toPage' : ~IsReading(i)'
    BY <1>1, <2>1, <2>2 DEF IsReading, OfGen
  <2>4. \A i, j \in DOMAIN toPage' :
           IsReading(i)' /\ IsReading(j)' /\ i <= j /\ Knows(toPage'[i], l) => Knows(toPage'[j], l)
    BY <1>2, <2>2 DEF KnownStays
  <2> QED BY <2>1, <2>3, <2>4 DEF KnownStays
<1> QED BY <1>5, <1>6, <1>7, <1>8, <1>9 DEF ValueInv

(* A build request is received, or a build that waited begins.              *)
LEMMA BuildsValue ==
  ASSUME SessionInv, StillOld, RingInv, ValueInv, UNCHANGED <<gen, awaitingRun, readout>>,
         ReceiveBuild \/ BuildWaiting
  PROVE  ValueInv'
<1>1. /\ IsSeq(toWorker) /\ GensAreIssued /\ QueueInv /\ RequestsTyped /\ AsideTypes
  BY DEF SessionInv, GenInv, RequestsTyped, QueueInv
<1>2. CASE ReceiveBuild
  <2>1. PICK g : g = Head(toWorker).gen
    OBVIOUS
  <2>2. toWorker # <<>> /\ Head(toWorker).kind = "build"
    BY <1>2 DEF ReceiveBuild, Received
  <2>3. 1 \in Builds /\ g = toWorker[1].gen
    BY <1>1, <2>1, <2>2, HeadRequest DEF Builds, IsBuild
  <2>4. Issued(g) /\ \A h : Old(h) => h < g
    BY <1>1, <2>3 DEF GensAreIssued, Old, Issued
  <2>5. CASE ready
    <3>1. NewBuild(g)
      BY <1>2, <2>1, <2>4, <2>5 DEF ReceiveBuild, NewBuild
    <3> QED BY <3>1, BuildValue
  <2>6. CASE ~ready
    <3>1. UNCHANGED <<toPage, live, parts, suspended, running>>
      BY <1>2, <2>6 DEF ReceiveBuild
    <3> QED BY <3>1, AsideValue
  <2> QED BY <2>5, <2>6
<1>3. CASE BuildWaiting
  <2>1. PICK g : g = Head(waiting)
    OBVIOUS
  <2>2. waiting # <<>> /\ Build(g) /\ IsSeq(waiting)
    BY <1>1, <1>3, <2>1, SeqIsSeq DEF BuildWaiting, AsideTypes
  <2>3. 1 \in DOMAIN waiting /\ g = waiting[1]
    BY <2>1, <2>2, Taken
  <2>4. Issued(g) /\ \A h : Old(h) => h < g
    BY <1>1, <2>3 DEF GensAreIssued, Old, Issued
  <2>5. NewBuild(g)
    BY <2>2, <2>4 DEF NewBuild
  <2> QED BY <2>5, BuildValue
<1> QED BY <1>2, <1>3

-----------------------------------------------------------------------------
(* Steps of the page.  An edit: of its build there are no readings yet, and *)
(* what is on screen is of an earlier one.                                  *)
LEMMA EditValue ==
  ASSUME SessionInv, StillOld, ValueInv, Edit, UNCHANGED workerVars
  PROVE  ValueInv'
<1>1. /\ gen' = gen + 1 /\ awaitingRun' = TRUE
      /\ UNCHANGED <<toPage, readout, live, parts, suspended, running>>
  BY DEF Edit, workerVars
<1>2. \A h : Old(h) => h \in Nat /\ h < gen' /\ h # gen' /\ Old(h)'
  BY <1>1 DEF SessionInv, GenInv, QueueInv, GensAreIssued, Old, Issued, StillOld
<1>3. /\ Old(live.gen) /\ Old(readout.gen) /\ RepliesOld
      /\ ReadingsFit /\ ValueRunsFit /\ KnownPresent /\ ReadoutFits
  BY DEF SessionInv, GenInv, ValueInv, ReadoutFits
<1>4. ReadingsFit' /\ ValueRunsFit' /\ KnownPresent'
  BY <1>1, <1>3 DEF ReadingsFit, ValueRunsFit, KnownPresent, Owns, Present, parts
<1>5. ReadoutFits'
  <2>1. PICK h : h = readout.gen
    OBVIOUS
  <2>2. Old(h)' /\ h < gen'
    BY <1>2, <1>3, <2>1
  <2> QED BY <1>1, <1>3, <2>1, <2>2 DEF ReadoutFits, NoReadout
<1>6. ASSUME NEW l \in Legs PROVE KnownStays(l)'
  <2>1. ~Shows(l)'
    BY <1>1, <1>2, <1>3 DEF Shows
  <2>2. \A i \in DOMAIN toPage' : ~IsReading(i)'
    BY <1>1, <1>2, <1>3 DEF IsReading, OfGen, RepliesOld
  <2> QED BY <2>1, <2>2 DEF KnownStays
<1> QED BY <1>4, <1>5, <1>6 DEF ValueInv

(* A reply is taken: what those after it know is as before.                 *)
LEMMA TakenFits ==
  ASSUME SessionInv, ValueInv, NEW r, TakesReply(r)
  PROVE  ReadingsFit' /\ ValueRunsFit' /\ KnownPresent'
<1>1. UNCHANGED <<live, parts, suspended, running>> /\ ReadingsFit /\ ValueRunsFit /\ KnownPresent
  BY DEF TakesReply, workerVars, ValueInv
<1>2. ReadingsFit'
  BY <1>1, TakenReply DEF ReadingsFit
<1>3. ValueRunsFit' /\ KnownPresent'
  BY <1>1 DEF ValueRunsFit, KnownPresent, Owns, Present, parts
<1> QED BY <1>2, <1>3

(* What comes on screen with a reply is what the reply knows, or was shown. *)
LEMMA TakenStays ==
  ASSUME SessionInv, ValueInv, NEW r, TakesReply(r), NEW l \in Legs,
         Shows(l)' => \/ Shows(l)
                      \/ r.gen = gen /\ r.kind \in {"result", "tm-value"} /\ Knows(r, l)
  PROVE  KnownStays(l)'
<1>1. UNCHANGED <<live, parts, gen>> /\ KnownStays(l)
  BY DEF TakesReply, workerVars, ValueInv
<1>2. \A i \in DOMAIN toPage' :
         /\ i + 1 \in DOMAIN toPage /\ i \in Nat \ {0} /\ toPage'[i] = toPage[i + 1]
         /\ IsReading(i)' <=> IsReading(i + 1)
  BY <1>1, TakenReply, OthersMoveUp DEF IsReading, OfGen
<1>3. (Kept(l) <=> Kept(l)') /\ (Owns(gen) <=> Owns(gen)')
  BY <1>1 DEF Kept, Owns, parts
<1>4. ASSUME NEW i \in DOMAIN toPage', NEW j \in DOMAIN toPage',
             IsReading(i)', IsReading(j)', i <= j, Knows(toPage'[i], l)
      PROVE  Knows(toPage'[j], l)
  <2>1. i + 1 <= j + 1
    <3>1. i \in Nat /\ j \in Nat
      BY <1>2
    <3> QED BY <1>4, <3>1
  <2> QED BY <1>1, <1>2, <1>4, <2>1 DEF KnownStays
<1>5. Shows(l)' => Shows(l) \/ (1 \in DOMAIN toPage /\ IsReading(1) /\ Knows(toPage[1], l))
  BY TakenReply DEF IsReading, OfGen
<1>6. ASSUME Shows(l)', NEW i \in DOMAIN toPage', IsReading(i)' PROVE Knows(toPage'[i], l)
  <2>1. 1 <= i + 1 /\ IsReading(i + 1) /\ i + 1 \in DOMAIN toPage
    BY <1>2, <1>6
  <2> QED BY <1>1, <1>2, <1>5, <1>6, <2>1 DEF KnownStays
<1>7. ASSUME Owns(gen)' PROVE Shows(l)' => Kept(l)'
  BY <1>1, <1>3, <1>5, <1>7 DEF KnownStays
<1>8. ASSUME Owns(gen)', NEW i \in DOMAIN toPage', IsReading(i)', Knows(toPage'[i], l)
      PROVE  Kept(l)'
  BY <1>1, <1>2, <1>3, <1>8 DEF KnownStays
<1> QED BY <1>4, <1>6, <1>7, <1>8 DEF KnownStays

(* An rxm copy has no readings: what it shows, the page keeps.              *)
LEMMA RxmStays ==
  ASSUME Kind = "rxm-scratch", ReadingsFit', NEW l PROVE KnownStays(l)'
<1>1. \A i \in DOMAIN toPage' : ~IsReading(i)'
  BY DEF ReadingsFit, IsReading
<1>2. Kept(l)'
  BY DEF Kept
<1> QED BY <1>1, <1>2 DEF KnownStays

(* No edit is taken up from the start.                                      *)
LEMMA ZeroOld == SessionInv => Old(0)
<1> SUFFICES ASSUME SessionInv PROVE Old(0)
  OBVIOUS
<1>1. QueueInv /\ Old(live.gen)
  BY DEF SessionInv, GenInv
<1>2. Issued(0)
  BY <1>1 DEF Old, Issued, QueueInv, GensAreIssued
<1>3. \A i \in DOMAIN waiting : 0 < waiting[i]
  BY <1>1 DEF Old, Issued, QueueInv, GensAreIssued
<1>4. \A i \in Builds : 0 < toWorker[i].gen
  BY <1>1 DEF Old, Issued, QueueInv, GensAreIssued
<1> QED BY <1>2, <1>3, <1>4 DEF Old

(* What a reply of the newest build may do to the values on screen: leave   *)
(* them, clear them, set them as the reply knows them, or, of an rxm copy,  *)
(* set them with its compile and keep what is known from then on.           *)
Leaves == readout' = readout \/ readout' = NoReadout
Opened(r) == Kind = "rxm-scratch" /\ r.kind = "compiled" /\ readout'.gen = gen
Reported(r) ==
    /\ r.kind \in {"result", "tm-value"} /\ readout'.gen = gen
    /\ \A l \in Legs : readout'.value[l] = Decided <=> Knows(r, l)
StaysKnown ==
    /\ Kind = "rxm-scratch" /\ readout # NoReadout /\ readout'.gen = readout.gen
    /\ \A l \in Legs : readout.value[l] = Decided => readout'.value[l] = Decided

LEMMA ReadoutTaken ==
  ASSUME SessionInv, ValueInv, NEW r, TakesReply(r), r.gen = gen, OnReply(r)
  PROVE  Leaves \/ Opened(r) \/ Reported(r) \/ StaysKnown
<1>1. IsReply(r) /\ 1 \in DOMAIN toPage /\ r = toPage[1] /\ ReadingsFit
  BY TakenReply DEF ValueInv
<1>2. CASE r.kind = "compiled"
  <2>1. CASE Kind = "rxm-scratch"
    <3>1. readout' = Reading(r.gen, r.value)
      BY <1>2, <2>1 DEF OnReply
    <3> QED BY <1>2, <2>1, <3>1 DEF Reading, Opened
  <2>2. CASE Kind # "rxm-scratch"
    <3>1. readout' = NoReadout \/ readout' = readout
      BY <1>2, <2>2, ProtocolAssumption DEF OnReply
    <3> QED BY <3>1 DEF Leaves
  <2> QED BY <2>1, <2>2
<1>3. CASE r.kind \in {"no-session", "worker-error", "frames"}
  BY <1>3 DEF OnReply, OnNoSession, Leaves
<1>4. CASE r.kind = "result"
  <2>1. readout' = [gen |-> r.gen, value |-> [l \in Legs |-> r.part[l].value]]
    BY <1>4 DEF OnReply
  <2> QED BY <1>4, <2>1 DEF Knows, Reported
<1>5. CASE r.kind = "tm-value"
  <2>1. readout' = Reading(r.gen, r.value)
    BY <1>5 DEF OnReply
  <2> QED BY <1>5, <2>1 DEF Knows, Reported, Reading
<1>6. CASE r.kind = "rxm-value"
  <2>1. CASE readout = NoReadout
    BY <1>6, <2>1 DEF OnReply, Leaves
  <2>2. CASE readout # NoReadout
    <3> DEFINE kept == KeepDecidedPart([value |-> readout.value["rxm"]],
                                       [value |-> r.value]).value
    <3>1. readout' = Reading(readout.gen, kept)
      BY <1>6, <2>2 DEF OnReply
    <3>2. Kind = "rxm-scratch" /\ r.value \in {Unfinished, Decided}
      BY <1>1, <1>6 DEF IsReply, ReadingsFit
    <3>3. readout.value["rxm"] = Decided => kept = Decided
      BY <3>2 DEF KeepDecidedPart, IsDecided, None, Unfinished, Decided
    <3>4. \A l \in Legs : l = "rxm" /\ readout'.value[l] = kept
      BY <3>1, <3>2, OnlyRxm DEF Reading
    <3>5. readout'.gen = readout.gen
      BY <3>1 DEF Reading
    <3> QED BY <2>2, <3>2, <3>3, <3>4, <3>5 DEF StaysKnown
  <2> QED BY <2>1, <2>2
<1> QED BY <1>1, <1>2, <1>3, <1>4, <1>5, <1>6 DEF IsReply

(* A step of the session takes no known value of a build back.              *)
KeepsShown ==
    \A l \in Legs : readout'.gen = readout.gen /\ readout.value[l] = Decided
                        => readout'.value[l] = Decided

(* A reply is delivered: what it shows, those after it know, and it shows   *)
(* what was known.                                                          *)
LEMMA DeliverValue ==
  ASSUME SessionInv, StillOld, RingInv, ValueInv, Deliver, UNCHANGED workerVars
  PROVE  ValueInv' /\ KeepsShown
<1>1. PICK r : r = Head(toPage)
  OBVIOUS
<1>2. TakesReply(r)
  BY <1>1 DEF Deliver, TakesReply
<1>3. /\ ReadingsFit' /\ ValueRunsFit' /\ KnownPresent'
      /\ gen' = gen /\ gen \in Nat /\ r.gen # 0 /\ Old(r.gen)
      /\ ReadoutFits /\ \A l \in Legs : KnownStays(l)
      /\ IsReading(1) <=> r.gen = gen /\ r.kind \in {"result", "tm-value"}
      /\ 1 \in DOMAIN toPage /\ r = toPage[1]
  <2>1. IsReply(r) /\ Old(r.gen) /\ 1 \in DOMAIN toPage /\ r = toPage[1] /\ gen \in Nat
    BY <1>2, TakenReply DEF SessionInv, PageTypes
  <2>2. r.gen # 0
    BY <2>1 DEF IsReply
  <2> QED BY <1>2, <2>1, <2>2, TakenFits DEF TakesReply, ValueInv, IsReading, OfGen
<1>4. \A h : Old(h) => Old(h)'
  BY DEF StillOld
<1>5. awaitingRun' => awaitingRun
  BY <1>1 DEF Deliver
<1>6. CASE Leaves
  <2>1. ReadoutFits'
    <3>1. CASE readout' = readout
      <4>1. PICK h : h = readout.gen
        OBVIOUS
      <4>2. Old(h)'
        BY <1>3, <1>4, <4>1 DEF ReadoutFits
      <4> QED BY <1>3, <1>5, <3>1, <4>1, <4>2 DEF ReadoutFits, NoReadout
    <3>2. CASE readout' = NoReadout
      <4>1. Old(0)'
        BY <1>4, ZeroOld
      <4>2. awaitingRun' => 0 < gen
        BY <1>3, <1>5, ZeroOld DEF ReadoutFits, Old, Issued
      <4> QED BY <1>3, <3>2, <4>1, <4>2 DEF ReadoutFits, NoReadout
    <3> QED BY <1>6, <3>1, <3>2 DEF Leaves
  <2>2. ASSUME NEW l \in Legs PROVE KnownStays(l)'
    <3>1. Shows(l)' => Shows(l)
      BY <1>3, <1>6 DEF Shows, Leaves, NoReadout, None, Decided
    <3> QED BY <1>2, <3>1, TakenStays
  <2>3. KeepsShown
    BY <1>3, <1>6 DEF Leaves, KeepsShown, ReadoutFits, NoReadout, None, Decided
  <2> QED BY <1>3, <2>1, <2>2, <2>3 DEF ValueInv
<1>7. CASE r.gen # gen
  <2>1. readout' = readout
    BY <1>1, <1>7 DEF Deliver, Accepts
  <2> QED BY <1>6, <2>1 DEF Leaves
<1>8. CASE r.gen = gen
  <2>1. OnReply(r) /\ awaitingRun' = FALSE
    BY <1>1, <1>3, <1>8 DEF Deliver, Accepts, AnswersRun
  <2>2. ASSUME readout'.gen = gen PROVE ReadoutFits'
    <3>1. Old(r.gen)'
      BY <1>2, <1>3, <1>4
    <3> QED BY <1>3, <1>8, <2>1, <2>2, <3>1 DEF ReadoutFits
  <2>3. CASE Opened(r)
    <3>1. awaitingRun
      BY <1>2, <1>8, <2>3, AcceptedReply DEF Opened
    <3>2. KeepsShown
      BY <1>3, <2>3, <3>1 DEF ReadoutFits, KeepsShown, Opened
    <3> QED BY <1>3, <2>2, <2>3, <3>2, RxmStays DEF Opened, ValueInv
  <2>4. CASE Reported(r)
    <3>1. ReadoutFits'
      BY <2>2, <2>4 DEF Reported
    <3>2. ASSUME NEW l \in Legs PROVE KnownStays(l)'
      <4>1. Shows(l)' => Knows(r, l)
        BY <2>4 DEF Shows, Reported
      <4> QED BY <1>2, <1>8, <2>4, <4>1, TakenStays DEF Reported
    <3>3. KeepsShown
      BY <1>3, <1>8, <2>4 DEF Reported, KeepsShown, KnownStays, Shows
    <3> QED BY <1>3, <3>1, <3>2, <3>3 DEF ValueInv
  <2>5. CASE StaysKnown
    <3>1. ReadoutFits'
      <4>1. PICK h : h = readout.gen
        OBVIOUS
      <4>2. Old(h)' /\ h # 0
        BY <1>3, <1>4, <2>5, <4>1 DEF ReadoutFits, StaysKnown
      <4> QED BY <1>3, <2>1, <2>5, <4>1, <4>2 DEF ReadoutFits, StaysKnown
    <3>2. KeepsShown
      BY <2>5 DEF KeepsShown, StaysKnown
    <3> QED BY <1>3, <2>5, <3>1, <3>2, RxmStays DEF ValueInv, StaysKnown
  <2> QED BY <1>2, <1>6, <1>8, <2>1, <2>3, <2>4, <2>5, ReadoutTaken
<1> QED BY <1>7, <1>8

-----------------------------------------------------------------------------
(* Every step keeps the invariant, and what is known on screen.             *)
LEMMA NextValue ==
  ASSUME SessionInv, RingInv, ValueInv, [Next]_vars
  PROVE  ValueInv' /\ KeepsShown
<1>1. StillOld
  BY NextGen DEF SessionInv
<1>2. ASSUME readout' = readout PROVE KeepsShown
  BY <1>2 DEF KeepsShown
<1>3. ASSUME UNCHANGED pageVars PROVE UNCHANGED <<gen, awaitingRun, readout>>
  BY <1>3 DEF pageVars, clientVars
<1>4. CASE (ReceiveBuild \/ BuildWaiting) /\ UNCHANGED pageVars
  BY <1>1, <1>2, <1>3, <1>4, BuildsValue
<1>5. CASE (ReceiveExtend \/ ReceiveRewind) /\ UNCHANGED pageVars
  BY <1>1, <1>2, <1>3, <1>5, ExtendValue, RewindValue, WorkerValue
<1>6. CASE Proceeds /\ UNCHANGED pageVars
  BY <1>1, <1>2, <1>3, <1>6, ProceedsValue, WorkerValue
<1>7. CASE Instantiated /\ UNCHANGED pageVars
  <2>1. UNCHANGED <<toPage, live, parts, suspended, running>>
    BY <1>7 DEF Instantiated, channels
  <2> QED BY <1>1, <1>2, <1>3, <1>7, <2>1, AsideValue
<1>8. CASE PageNext /\ UNCHANGED workerVars
  <2>1. CASE Edit
    <3>1. readout' = readout
      BY <2>1 DEF Edit
    <3> QED BY <1>1, <1>2, <1>8, <2>1, <3>1, EditValue
  <2>2. CASE Deliver
    BY <1>1, <1>8, <2>2, DeliverValue
  <2>3. CASE TimerFires \/ \E l \in Legs : PressContinue(l) \/ PressRestart(l)
    <3>1. UNCHANGED <<gen, awaitingRun, readout, toPage>>
      BY <2>3 DEF TimerFires, PressContinue, PressRestart, clientVars
    <3>2. UNCHANGED <<live, parts, suspended, running>>
      BY <1>8 DEF workerVars
    <3> QED BY <1>1, <1>2, <3>1, <3>2, AsideValue
  <2> QED BY <1>8, <2>1, <2>2, <2>3 DEF PageNext
<1>9. CASE UNCHANGED vars
  <2>1. /\ UNCHANGED <<toPage, live, parts, suspended, running>>
        /\ UNCHANGED <<gen, awaitingRun, readout>>
    BY <1>9 DEF vars, channels, workerVars, pageVars, clientVars
  <2> QED BY <1>1, <1>2, <2>1, AsideValue
<1> QED BY <1>4, <1>5, <1>6, <1>7, <1>8, <1>9, NextByCases

(* Nothing is known at first.                                               *)
LEMMA InitValue == Init => ValueInv
<1> SUFFICES ASSUME Init PROVE ValueInv
  OBVIOUS
<1>1. /\ live = NoLive /\ suspended = <<>> /\ running = Idle /\ toPage = <<>>
      /\ awaitingRun = FALSE /\ readout = NoReadout
  BY DEF Init, WorkerInit, PageInit
<1>2. DOMAIN suspended = {} /\ DOMAIN toPage = {}
  BY <1>1
<1>3. ReadingsFit /\ ValueRunsFit /\ KnownPresent
  BY <1>1, <1>2 DEF ReadingsFit, ValueRunsFit, KnownPresent
<1>4. ReadoutFits
  <2>1. Old(0)
    BY InitSession, ZeroOld
  <2> QED BY <1>1, <2>1 DEF ReadoutFits, NoReadout
<1>5. ASSUME NEW l \in Legs PROVE KnownStays(l)
  BY <1>1, <1>2 DEF KnownStays, Shows, NoReadout, None, Decided
<1> QED BY <1>3, <1>4, <1>5 DEF ValueInv

(* A value on screen is known exactly when it is the decided one.           *)
LEMMA DecidedOnScreen ==
  ASSUME PageTypes, NEW l \in Legs
  PROVE  IsDecided(readout.value[l]) <=> readout.value[l] = Decided
<1>1. readout.value[l] \in {None, Unfinished, Decided}
  BY DEF PageTypes
<1> QED BY <1>1 DEF IsDecided, None, Unfinished, Decided

(* What a step may never do to what is known on screen.                     *)
KnownStep ==
    \A l \in Legs : readout'.gen = readout.gen /\ IsDecided(readout.value[l])
                        => IsDecided(readout'.value[l])

(* A value once known stays known until the text changes, whatever rewinds, *)
(* continues and value runs go on: the worker keeps what a leg answered     *)
(* (session-worker.ts, `posted' and `rewoundFrom' with protocol.ts's        *)
(* keepDecided), and the page what an rxm copy showed (replies.ts).         *)
THEOREM KnownValuesStay == Spec => DecidedStays
<1> DEFINE I == SessionInv /\ RingInv /\ ValueInv
<1>1. Init => I
  BY InitSession, InitRing, InitValue
<1>2. I /\ [Next]_vars => I'
  BY NextSession, NextRing, NextValue
<1>3. I /\ [Next]_vars => KnownStep
  <2> SUFFICES ASSUME I, [Next]_vars, NEW l \in Legs, readout'.gen = readout.gen,
                      IsDecided(readout.value[l])
               PROVE  IsDecided(readout'.value[l])
    BY DEF KnownStep
  <2>1. SessionInv' /\ PageTypes /\ PageTypes'
    BY NextSession DEF SessionInv
  <2>2. readout.value[l] = Decided
    BY <2>1, DecidedOnScreen
  <2>3. readout'.value[l] = Decided
    BY <2>2, NextValue DEF KeepsShown
  <2> QED BY <2>3 DEF IsDecided, None, Unfinished, Decided
<1>4. I /\ [Next]_vars => [KnownStep]_vars
  BY <1>3
<1> HIDE DEF I
<1> QED BY <1>1, <1>2, <1>4, PTL DEF Spec, DecidedStays, KnownStep
=============================================================================
