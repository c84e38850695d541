---------------------------- MODULE ZipperProofs ----------------------------
(***************************************************************************)
(* What the zipper's bookkeeping keeps true, for every substitution, term, *)
(* cap and depth limit.                                                    *)
(***************************************************************************)
EXTENDS LambdaZipper, SequenceTheorems, TLAPS

\* T is a set of well-formed terms that a reduction does not leave.
Closed(T) ==
  /\ Var(0) \in T
  /\ \A t \in T :
       /\ t.depth \in 0..MaxU32
       /\ \/ t.node = "Var"
          \/ t.node = "Abs" /\ t.body \in T
          \/ t.node = "App" /\ t.fun \in T /\ t.arg \in T /\ t.owner \in Nat
  /\ \A t, u \in T : \A o \in Nat :
       /\ Abs(t) \in T
       /\ App(t, u, o) \in T
       /\ Contract(t, u) \in T

Frames(T) == [dir : {"AppL", "AppR", "AbsBody"}, sib : T, owner : Nat, add : Nat, floor : Nat]

Sound(frames, a, f) ==
  /\ Accounts(frames, Len(frames), a, f)
  /\ \A i \in 1..Len(frames) : Accounts(frames, i - 1, frames[i].add, frames[i].floor)

NoRedexIn(frames) ==
  \A i \in 1..(Len(frames) - 1) : frames[i].dir = "AppL" => frames[i + 1].dir # "AbsBody"

\* The accounting of a context depends on its first frames alone.
LEMMA AccountsOfPrefix ==
  ASSUME NEW s, NEW t, NEW n \in Nat, NEW a, NEW f,
         \A i \in 1..n : s[i] = t[i],
         Accounts(s, n, a, f)
  PROVE  Accounts(t, n, a, f)
<1>1. \A i \in 1..n : Beside(t, i) = Beside(s, i) BY DEF Beside
<1> QED BY <1>1 DEF Accounts

\* One more frame, as push computes it.
LEMMA AccountsOfPush ==
  ASSUME NEW t, NEW n \in Nat, NEW a \in Nat, NEW f \in Nat,
         \A i \in 1..(n + 1) : t[i].sib.depth \in Nat,
         Accounts(t, n, a, f)
  PROVE  Accounts(t, n + 1, Sat(a, 1), Larger(f, Sat(Sat(t[n + 1].sib.depth, 1), a)))
<1> DEFINE d == t[n + 1].sib.depth
           g == Sat(Sat(d, 1), a)
<1>1. d \in Nat /\ n + 1 \in 1..(n + 1) OBVIOUS
<1>2. a = Sat(0, n) BY DEF Accounts
<1>3. Beside(t, n + 1) = Sat(d, n + 1) BY DEF Beside
<1>4. \A i \in 1..n : Beside(t, i) \in Nat
  <2> TAKE i \in 1..n
  <2>1. t[i].sib.depth \in Nat OBVIOUS
  <2> QED BY <2>1, MaxU32Assumption DEF Beside, Sat
<1> HIDE DEF d
<1>5. g = Sat(d, n + 1) BY <1>1, <1>2, MaxU32Assumption DEF Sat
<1>6. Sat(a, 1) = Sat(0, n + 1) BY <1>2, MaxU32Assumption DEF Sat
<1>7. g \in Nat BY <1>1, MaxU32Assumption DEF Sat
<1> HIDE DEF g
<1> DEFINE h == Larger(f, g)
<1>8. h \in Nat /\ f <= h /\ g <= h /\ (h = f \/ h = g) BY <1>7 DEF Larger
<1> HIDE DEF h
<1>9. \A i \in 1..(n + 1) : Beside(t, i) <= h
  <2> TAKE i \in 1..(n + 1)
  <2>1. CASE i = n + 1 BY <2>1, <1>3, <1>5, <1>8
  <2>2. CASE i \in 1..n
    <3>1. Beside(t, i) <= f BY <2>2 DEF Accounts
    <3> QED BY <2>2, <3>1, <1>4, <1>8
  <2> QED BY <2>1, <2>2
<1>10. h = 0 \/ \E i \in 1..(n + 1) : h = Beside(t, i)
  <2>1. CASE h = g BY <2>1, <1>3, <1>5
  <2>2. CASE h = f
    <3>1. f = 0 \/ \E i \in 1..n : f = Beside(t, i) BY DEF Accounts
    <3> QED BY <2>2, <3>1
  <2> QED BY <2>1, <2>2, <1>8
<1> QED BY <1>6, <1>9, <1>10 DEF Accounts, d, g, h

LEMMA PushKeepsSound ==
  ASSUME NEW T, Closed(T), NEW s \in Seq(Frames(T)), NEW fr \in Frames(T),
         NEW a \in Nat, NEW f \in Nat, fr.add = a, fr.floor = f, Sound(s, a, f)
  PROVE  Sound(Append(s, fr), Sat(a, 1), Larger(f, Sat(Sat(fr.sib.depth, 1), a)))
<1> DEFINE r == Append(s, fr)
           n == Len(s)
<1>1. /\ n \in Nat /\ Len(r) = n + 1
      /\ r \in Seq(Frames(T))
      /\ \A i \in 1..n : s[i] = r[i]
      /\ r[n + 1] = fr
  BY AppendProperties
<1> HIDE DEF r, n
<1>2. \A x \in Frames(T) : x.sib.depth \in Nat BY MaxU32Assumption DEF Closed, Frames
<1>3. \A i \in 1..(n + 1) : r[i] \in Frames(T) BY <1>1, ElementOfSeq
<1>4. \A i \in 1..(n + 1) : r[i].sib.depth \in Nat BY <1>2, <1>3
<1>5. Accounts(s, n, a, f) /\ \A i \in 1..n : Accounts(s, i - 1, s[i].add, s[i].floor)
  BY DEF Sound, n
<1>6. Accounts(r, n, a, f) BY <1>1, <1>5, AccountsOfPrefix
<1>7. Accounts(r, n + 1, Sat(a, 1), Larger(f, Sat(Sat(fr.sib.depth, 1), a)))
  BY <1>1, <1>4, <1>6, AccountsOfPush
<1>8. \A i \in 1..(n + 1) : Accounts(r, i - 1, r[i].add, r[i].floor)
  <2> TAKE i \in 1..(n + 1)
  <2>1. CASE i = n + 1 BY <2>1, <1>1, <1>6
  <2>2. CASE i \in 1..n
    <3>1. Accounts(s, i - 1, r[i].add, r[i].floor) BY <2>2, <1>1, <1>5
    <3>2. i - 1 \in Nat /\ \A j \in 1..(i - 1) : s[j] = r[j] BY <2>2, <1>1
    <3> QED BY <3>1, <3>2, AccountsOfPrefix
  <2> QED BY <2>1, <2>2, <1>1
<1> QED BY <1>1, <1>7, <1>8 DEF Sound, r

LEMMA UnderFacts ==
  ASSUME NEW S, NEW s \in Seq(S), s # <<>>
  PROVE  /\ Len(s) \in Nat \ {0} /\ Len(Under(s)) = Len(s) - 1
         /\ Under(s) \in Seq(S)
         /\ \A i \in 1..(Len(s) - 1) : s[i] = Under(s)[i]
         /\ s[Len(s)] \in S
<1>1. Len(s) \in Nat \ {0} BY EmptySeq, LenProperties
<1> DEFINE m == Len(s) - 1
<1>2. \A i \in 1..Len(s) : s[i] \in S BY ElementOfSeq
<1>3. s[Len(s)] \in S BY <1>1, <1>2
<1>4. m \in Nat BY <1>1
<1>5. \A i \in 1..m : s[i] \in S BY <1>1, <1>2
<1> HIDE DEF m
<1>6. /\ SubSeq(s, 1, m) \in Seq(S)
      /\ Len(SubSeq(s, 1, m)) = IF 1 <= m THEN m - 1 + 1 ELSE 0
      /\ \A i \in 1..(m - 1 + 1) : SubSeq(s, 1, m)[i] = s[1 + i - 1]
  BY <1>4, <1>5, SubSeqProperties
<1>7. Len(SubSeq(s, 1, m)) = m /\ \A i \in 1..m : SubSeq(s, 1, m)[i] = s[i] BY <1>4, <1>6
<1> QED BY <1>1, <1>3, <1>6, <1>7 DEF Under, m

LEMMA PopKeepsSound ==
  ASSUME NEW T, NEW s \in Seq(Frames(T)), s # <<>>, NEW a, NEW f, Sound(s, a, f)
  PROVE  Sound(Under(s), s[Len(s)].add, s[Len(s)].floor)
<1> DEFINE u == Under(s)
           n == Len(s)
<1>1. n \in Nat \ {0} /\ Len(u) = n - 1 /\ \A i \in 1..(n - 1) : s[i] = u[i] BY UnderFacts
<1>2. \A i \in 1..n : Accounts(s, i - 1, s[i].add, s[i].floor) BY DEF Sound
<1> HIDE DEF u, n
<1>3. \A i \in 1..n : Accounts(u, i - 1, s[i].add, s[i].floor)
  <2> TAKE i \in 1..n
  <2>1. i - 1 \in Nat /\ \A j \in 1..(i - 1) : s[j] = u[j] BY <1>1
  <2> QED BY <2>1, <1>2, AccountsOfPrefix
<1>4. Accounts(u, n - 1, s[n].add, s[n].floor) BY <1>1, <1>3
<1>5. \A i \in 1..(n - 1) : Accounts(u, i - 1, u[i].add, u[i].floor) BY <1>1, <1>3
<1> QED BY <1>1, <1>4, <1>5 DEF Sound, u, n

LEMMA PushKeepsOrder ==
  ASSUME NEW S, NEW s \in Seq(S), NEW fr \in S, NoRedexIn(s),
         fr.dir = "AbsBody" => s = <<>> \/ s[Len(s)].dir # "AppL"
  PROVE  NoRedexIn(Append(s, fr))
<1> DEFINE r == Append(s, fr)
           n == Len(s)
<1>1. /\ n \in Nat /\ Len(r) = n + 1
      /\ \A i \in 1..n : s[i] = r[i]
      /\ r[n + 1] = fr
      /\ n = 0 <=> s = <<>>
  BY AppendProperties, EmptySeq
<1>2. \A i \in 1..(n - 1) : s[i].dir = "AppL" => s[i + 1].dir # "AbsBody" BY DEF NoRedexIn
<1>3. fr.dir = "AbsBody" => n = 0 \/ s[n].dir # "AppL" BY <1>1
<1> HIDE DEF r, n
<1>4. \A i \in 1..n : r[i].dir = "AppL" => r[i + 1].dir # "AbsBody"
  <2> TAKE i \in 1..n
  <2>1. CASE i = n BY <2>1, <1>1, <1>3
  <2>2. CASE i \in 1..(n - 1)
    <3>1. i + 1 \in 1..n BY <2>2, <1>1
    <3> QED BY <2>2, <3>1, <1>1, <1>2
  <2> QED BY <2>1, <2>2, <1>1
<1> QED BY <1>1, <1>4 DEF NoRedexIn, r

LEMMA PopKeepsOrder ==
  ASSUME NEW S, NEW s \in Seq(S), s # <<>>, NoRedexIn(s)
  PROVE  NoRedexIn(Under(s))
<1>1. /\ Len(s) \in Nat \ {0} /\ Len(Under(s)) = Len(s) - 1
      /\ \A i \in 1..(Len(s) - 1) : s[i] = Under(s)[i]
  BY UnderFacts
<1>2. \A i \in 1..(Len(s) - 2) : i \in 1..(Len(s) - 1) /\ i + 1 \in 1..(Len(s) - 1) BY <1>1
<1> QED BY <1>1, <1>2 DEF NoRedexIn

-----------------------------------------------------------------------------
(***************************************************************************)
(* The run.  The bookkeeping stays right because a push extends what the   *)
(* context already accounts for and a pop goes back to a shorter context,  *)
(* whose account the frame kept; the order of frames stays right because a *)
(* binder is only entered where its parent was just seen not to apply it.  *)
(***************************************************************************)
Typed(T) ==
  /\ focus \in T
  /\ stack \in Seq(Frames(T))
  /\ add \in Nat
  /\ floor \in Nat
  /\ steps \in Nat
  /\ steps = 0 /\ at = "idle" => stack = <<>>

IInv(T) ==
  /\ Typed(T)
  /\ Sound(stack, add, floor)
  /\ NoRedexIn(stack)
  /\ at = "descend" => ~ParentIsRedex
  /\ at = "reduce" => ParentIsRedex

LEMMA InvIsSound ==
  ASSUME NEW T, IInv(T)
  PROVE  ContextIsSound
BY DEF IInv, Sound, NoRedexIn, ContextIsSound, DepthIsExact, NoRedexAbove

LEMMA EmptyIsSound == Sound(<<>>, 0, 0) /\ NoRedexIn(<<>>)
<1>1. Sat(0, 0) = 0 BY MaxU32Assumption DEF Sat
<1> QED BY <1>1 DEF Sound, Accounts, NoRedexIn

LEMMA InitIsSound ==
  ASSUME NEW T, Terms \subseteq T, ZipperInit
  PROVE  IInv(T)
<1>1. <<>> \in Seq(Frames(T)) OBVIOUS
<1>2. Typed(T) BY <1>1 DEF ZipperInit, Typed
<1>3. Sound(stack, add, floor) /\ NoRedexIn(stack) BY EmptyIsSound DEF ZipperInit
<1> QED BY <1>2, <1>3 DEF ZipperInit, IInv

\* What a push leaves, wherever the context was cut first.
LEMMA PushedIsSound ==
  ASSUME NEW T, Closed(T), NEW context \in Seq(Frames(T)), NEW frame \in Frames(T),
         NEW a \in Nat, NEW f \in Nat, NEW child \in T,
         frame.add = a, frame.floor = f, Sound(context, a, f), NoRedexIn(context),
         frame.dir = "AbsBody" => context = <<>> \/ context[Len(context)].dir # "AppL",
         Pushed(context, frame, a, f, child)
  PROVE  /\ focus' \in T /\ stack' \in Seq(Frames(T)) /\ add' \in Nat /\ floor' \in Nat
         /\ Sound(stack', add', floor')
         /\ NoRedexIn(stack')
         /\ stack' # <<>> /\ stack'[Len(stack')] = frame
<1>1. frame.sib.depth \in Nat BY MaxU32Assumption DEF Closed, Frames
<1>2. Sat(frame.sib.depth, 1) \in Nat BY <1>1, MaxU32Assumption DEF Sat
<1>3. Sat(Sat(frame.sib.depth, 1), a) \in Nat BY <1>2, MaxU32Assumption DEF Sat
<1>4. Sat(a, 1) \in Nat BY MaxU32Assumption DEF Sat
<1>5. Larger(f, Sat(Sat(frame.sib.depth, 1), a)) \in Nat BY <1>3 DEF Larger
<1>6. /\ stack' = Append(context, frame)
      /\ floor' = Larger(f, Sat(Sat(frame.sib.depth, 1), a))
      /\ add' = Sat(a, 1)
      /\ focus' = child
  BY DEF Pushed
<1>7. Sound(stack', add', floor') BY <1>6, PushKeepsSound
<1>8. NoRedexIn(stack') BY <1>6, PushKeepsOrder
<1>9. stack' \in Seq(Frames(T)) /\ stack' # <<>> /\ stack'[Len(stack')] = frame
  BY <1>6, AppendProperties
<1> QED BY <1>4, <1>5, <1>6, <1>7, <1>8, <1>9

LEMMA PoppedIsSound ==
  ASSUME NEW T, IInv(T), stack # <<>>, NEW child \in T, Popped(child)
  PROVE  /\ focus' \in T /\ stack' \in Seq(Frames(T)) /\ add' \in Nat /\ floor' \in Nat
         /\ Sound(stack', add', floor')
         /\ NoRedexIn(stack')
<1>1. stack \in Seq(Frames(T)) BY DEF IInv, Typed
<1>2. /\ stack' = Under(stack) /\ focus' = child
      /\ add' = stack[Len(stack)].add /\ floor' = stack[Len(stack)].floor
  BY DEF Popped, Top
<1>3. stack' \in Seq(Frames(T)) /\ stack[Len(stack)] \in Frames(T) BY <1>1, <1>2, UnderFacts
<1>4. add' \in Nat /\ floor' \in Nat BY <1>2, <1>3 DEF Frames
<1>5. Sound(stack', add', floor') BY <1>1, <1>2, PopKeepsSound DEF IInv
<1>6. NoRedexIn(stack') BY <1>1, <1>2, PopKeepsOrder DEF IInv
<1> QED BY <1>2, <1>3, <1>4, <1>5, <1>6

LEMMA DescendIsSound ==
  ASSUME NEW T, Closed(T), IInv(T), Descend
  PROVE  IInv(T)'
<1>1. /\ focus \in T /\ stack \in Seq(Frames(T)) /\ add \in Nat /\ floor \in Nat /\ steps \in Nat
      /\ Sound(stack, add, floor) /\ NoRedexIn(stack)
      /\ at = "descend" /\ ~ParentIsRedex /\ steps' = steps
  BY DEF IInv, Typed, Descend
<1>2. CASE focus.node = "Var" /\ at' = "advance" /\ UNCHANGED <<focus, stack, add, floor>>
  BY <1>1, <1>2 DEF IInv, Typed
<1>3. CASE /\ focus.node = "Abs"
           /\ Pushed(stack, Frame("AbsBody", NoSibling, NoOwner), add, floor, focus.body)
           /\ UNCHANGED at
  <2> DEFINE fr == Frame("AbsBody", NoSibling, NoOwner)
  <2>1. focus.body \in T /\ NoSibling \in T BY <1>1, <1>3 DEF Closed, NoSibling
  <2>2. /\ fr \in Frames(T) /\ fr.add = add /\ fr.floor = floor /\ fr.dir = "AbsBody"
    BY <1>1, <2>1 DEF Frame, Frames, NoOwner
  <2>3. stack = <<>> \/ stack[Len(stack)].dir # "AppL" BY <1>1, <1>3 DEF ParentIsRedex, Top
  <2>4. Pushed(stack, fr, add, floor, focus.body) BY <1>3
  <2> HIDE DEF fr
  <2>5. /\ focus' \in T /\ stack' \in Seq(Frames(T)) /\ add' \in Nat /\ floor' \in Nat
        /\ Sound(stack', add', floor') /\ NoRedexIn(stack')
        /\ stack' # <<>> /\ stack'[Len(stack')] = fr
    BY <1>1, <2>1, <2>2, <2>3, <2>4, PushedIsSound
  <2>6. at' = "descend" /\ ~ParentIsRedex' BY <1>1, <1>3, <2>2, <2>5 DEF ParentIsRedex, Top
  <2> QED BY <1>1, <2>5, <2>6 DEF IInv, Typed
<1>4. CASE /\ focus.node = "App"
           /\ Pushed(stack, Frame("AppL", focus.arg, focus.owner), add, floor, focus.fun)
           /\ at' = IF focus.fun.node = "Abs" THEN "reduce" ELSE "descend"
  <2> DEFINE fr == Frame("AppL", focus.arg, focus.owner)
  <2>1. focus.fun \in T /\ focus.arg \in T /\ focus.owner \in Nat BY <1>1, <1>4 DEF Closed
  <2>2. /\ fr \in Frames(T) /\ fr.add = add /\ fr.floor = floor /\ fr.dir = "AppL"
    BY <1>1, <2>1 DEF Frame, Frames
  <2>3. Pushed(stack, fr, add, floor, focus.fun) BY <1>4
  <2> HIDE DEF fr
  <2>4. /\ focus' \in T /\ stack' \in Seq(Frames(T)) /\ add' \in Nat /\ floor' \in Nat
        /\ Sound(stack', add', floor') /\ NoRedexIn(stack')
        /\ stack' # <<>> /\ stack'[Len(stack')] = fr
    BY <1>1, <2>1, <2>2, <2>3, PushedIsSound
  <2>5. focus' = focus.fun BY <2>3 DEF Pushed
  <2>6. ParentIsRedex' <=> focus.fun.node = "Abs" BY <2>2, <2>4, <2>5 DEF ParentIsRedex, Top
  <2>7. (at' = "descend" => ~ParentIsRedex') /\ (at' = "reduce" => ParentIsRedex') /\ at' # "idle"
    BY <1>4, <2>6
  <2> QED BY <1>1, <2>4, <2>7 DEF IInv, Typed
<1> QED BY <1>2, <1>3, <1>4 DEF Descend

LEMMA AdvanceIsSound ==
  ASSUME NEW T, Closed(T), IInv(T), Advance
  PROVE  IInv(T)'
<1>1. /\ focus \in T /\ stack \in Seq(Frames(T)) /\ add \in Nat /\ floor \in Nat /\ steps \in Nat
      /\ Sound(stack, add, floor) /\ NoRedexIn(stack)
      /\ at = "advance" /\ steps' = steps
  BY DEF IInv, Typed, Advance
<1>2. CASE stack = <<>> /\ at' = "idle" /\ UNCHANGED <<focus, stack, add, floor>>
  BY <1>1, <1>2 DEF IInv, Typed
<1>3. CASE /\ stack # <<>> /\ Top.dir = "AppL"
           /\ Pushed(Under(stack), [Top EXCEPT !.dir = "AppR", !.sib = focus], Top.add, Top.floor, Top.sib)
           /\ at' = "descend"
  <2> DEFINE fr == [Top EXCEPT !.dir = "AppR", !.sib = focus]
  <2>1. Top \in Frames(T) /\ Under(stack) \in Seq(Frames(T)) BY <1>1, <1>3, UnderFacts DEF Top
  <2>2. Top.sib \in T /\ Top.add \in Nat /\ Top.floor \in Nat BY <2>1 DEF Frames
  <2>3. fr \in Frames(T) /\ fr.add = Top.add /\ fr.floor = Top.floor /\ fr.dir = "AppR"
    BY <1>1, <2>1 DEF Frames
  <2>4. Sound(Under(stack), Top.add, Top.floor) /\ NoRedexIn(Under(stack))
    BY <1>1, <1>3, PopKeepsSound, PopKeepsOrder DEF Top
  <2>5. Pushed(Under(stack), fr, Top.add, Top.floor, Top.sib) BY <1>3
  <2> HIDE DEF fr
  <2>6. /\ focus' \in T /\ stack' \in Seq(Frames(T)) /\ add' \in Nat /\ floor' \in Nat
        /\ Sound(stack', add', floor') /\ NoRedexIn(stack')
        /\ stack' # <<>> /\ stack'[Len(stack')] = fr
    BY <2>1, <2>2, <2>3, <2>4, <2>5, PushedIsSound
  <2>7. ~ParentIsRedex' BY <2>3, <2>6 DEF ParentIsRedex, Top
  <2> QED BY <1>1, <1>3, <2>6, <2>7 DEF IInv, Typed
<1>4. CASE stack # <<>> /\ Top.dir # "AppL" /\ Popped(Parent(Top, focus)) /\ UNCHANGED at
  <2>1. Top \in Frames(T) BY <1>1, <1>4, UnderFacts DEF Top
  <2>2. Top.sib \in T /\ Top.owner \in Nat /\ Top.dir \in {"AppR", "AbsBody"} BY <1>4, <2>1 DEF Frames
  <2>3. App(Top.sib, focus, Top.owner) \in T /\ Abs(focus) \in T BY <1>1, <2>2 DEF Closed
  <2>4. Parent(Top, focus) \in T BY <2>2, <2>3 DEF Parent
  <2>5. /\ focus' \in T /\ stack' \in Seq(Frames(T)) /\ add' \in Nat /\ floor' \in Nat
        /\ Sound(stack', add', floor') /\ NoRedexIn(stack')
    BY <1>4, <2>4, PoppedIsSound
  <2> QED BY <1>1, <1>4, <2>5 DEF IInv, Typed
<1> QED BY <1>2, <1>3, <1>4 DEF Advance

LEMMA ReduceIsSound ==
  ASSUME NEW T, Closed(T), IInv(T), Reduce
  PROVE  IInv(T)'
<1>1. /\ focus \in T /\ stack \in Seq(Frames(T)) /\ steps \in Nat /\ ParentIsRedex
      /\ Popped(Contract(focus.body, Top.sib)) /\ at' = "idle" /\ steps' = steps + 1
  BY DEF IInv, Typed, Reduce
<1>2. stack # <<>> /\ focus.node = "Abs" BY <1>1 DEF ParentIsRedex
<1>3. Top.sib \in T
  <2>1. Top \in Frames(T) BY <1>1, <1>2, UnderFacts DEF Top
  <2> QED BY <2>1 DEF Frames
<1>4. focus.body \in T BY <1>1, <1>2 DEF Closed
<1>5. Contract(focus.body, Top.sib) \in T BY <1>3, <1>4 DEF Closed
<1>6. /\ focus' \in T /\ stack' \in Seq(Frames(T)) /\ add' \in Nat /\ floor' \in Nat
      /\ Sound(stack', add', floor') /\ NoRedexIn(stack')
  BY <1>1, <1>2, <1>5, PoppedIsSound
<1>7. steps' \in Nat /\ steps' # 0 BY <1>1
<1> QED BY <1>1, <1>6, <1>7 DEF IInv, Typed

LEMMA NextIsSound ==
  ASSUME NEW T, Closed(T), IInv(T), [ZipperNext]_zipperVars
  PROVE  IInv(T)'
<1>1. CASE Refuse BY <1>1 DEF Refuse, IInv, Typed, ParentIsRedex, Top
<1>2. CASE SeekFromRoot
  <2>1. stack = <<>> /\ focus' = focus /\ stack' = <<>> /\ add' = 0 /\ floor' = 0
        /\ at' = "descend" /\ steps' = steps
    BY <1>2 DEF SeekFromRoot, Whole, IInv, Typed
  <2>2. Sound(stack', add', floor') /\ NoRedexIn(stack') BY <2>1, EmptyIsSound
  <2>3. ~ParentIsRedex' BY <2>1 DEF ParentIsRedex
  <2>4. Typed(T)' BY <2>1 DEF Typed, IInv
  <2> QED BY <2>1, <2>2, <2>3, <2>4 DEF IInv
<1>3. CASE SeekResuming BY <1>3 DEF SeekResuming, IInv, Typed, ParentIsRedex, Top
<1>4. CASE Descend BY <1>4, DescendIsSound
<1>5. CASE Advance BY <1>5, AdvanceIsSound
<1>6. CASE Reduce BY <1>6, ReduceIsSound
<1>7. CASE UNCHANGED zipperVars BY <1>7 DEF zipperVars, IInv, Typed, ParentIsRedex, Top
<1> QED BY <1>1, <1>2, <1>3, <1>4, <1>5, <1>6, <1>7 DEF ZipperNext

\* Whatever a contraction makes of a redex, in the middle of any search the
\* depth guard reads the depth that its context accounts for, every frame can
\* restore the account of the one below, and above the place a step was made at
\* only the parent can be a redex (trace/zipper.rs:179, 316).
THEOREM ContextStaysSound ==
  ASSUME NEW T, Closed(T), Terms \subseteq T
  PROVE  ZipperSpec => []ContextIsSound
<1>1. ZipperInit => IInv(T) BY InitIsSound
<1>2. IInv(T) /\ [ZipperNext]_zipperVars => IInv(T)' BY NextIsSound
<1>3. IInv(T) => ContextIsSound BY InvIsSound
<1> QED BY <1>1, <1>2, <1>3, PTL DEF ZipperSpec
=============================================================================
