---------------------------- MODULE LambdaZipper ----------------------------
(***************************************************************************)
(* ZipperCursor of trace/zipper.rs: normal-order reduction that keeps its  *)
(* place in the term between steps.  One call of next is Refuse, or a Seek,*)
(* rounds of Descend and Advance, and Reduce, unless the run ends on the   *)
(* way.  The substitution is a parameter.                                  *)
(***************************************************************************)
EXTENDS LambdaTerm, Sequences, SequencesExt

CONSTANTS
  Contract(_, _), \* what contracting a redex makes of its body and argument
  Terms,          \* where a run may start
  Budgets,        \* its step caps
  MaxTermDepth    \* the deepest term a step is taken in

VARIABLES
  focus,    \* the subterm the cursor is at
  stack,    \* the frames from the root down to it
  add,      \* the whole term's depth is
  floor,    \*   max(focus.depth + add, floor)
  steps,
  budget,
  status,   \* "", "Normalized" or "HitCap"
  at,       \* "idle", or where in next it is: "descend", "advance", "reduce"
  event     \* the last step's

zipperVars == <<focus, stack, add, floor, steps, budget, status, at, event>>

(***************************************************************************)
(* Frames: the side taken, the sibling on the other, the tag of the        *)
(* application, and the depth accounting before the frame was pushed.      *)
(***************************************************************************)
Frame(dir, sib, owner) == [dir |-> dir, sib |-> sib, owner |-> owner, add |-> add, floor |-> floor]
NoSibling == Var(0)     \* of a binder: of depth 0, as a variable

Parent(f, t) ==
  CASE f.dir = "AppL" -> App(t, f.sib, f.owner)
    [] f.dir = "AppR" -> App(f.sib, t, f.owner)
    [] f.dir = "AbsBody" -> Abs(t)

\* term: the whole term, rebuilt from the context; with none the focus is it.
Whole == IF stack = <<>> THEN focus ELSE FoldRight(Parent, stack, focus)
Path(frames) == [i \in DOMAIN frames |-> frames[i].dir]
RootDepth == Larger(Sat(focus.depth, add), floor)

Top == stack[Len(stack)]
Under(frames) == SubSeq(frames, 1, Len(frames) - 1)

\* The stack becomes context with a frame on top, under the accounting in force
\* before that frame.
Pushed(context, frame, a, f, child) ==
  /\ stack' = Append(context, frame)
  /\ floor' = Larger(f, Sat(Sat(frame.sib.depth, 1), a))
  /\ add' = Sat(a, 1)
  /\ focus' = child

\* Mutant: the accounting stays that of the deeper place.
PoppedOnly(child) ==
  /\ stack' = Under(stack)
  /\ add' = add
  /\ floor' = floor
  /\ focus' = child

Popped(child) ==
  /\ stack' = Under(stack)
  /\ add' = Top.add
  /\ floor' = Top.floor
  /\ focus' = child

ZipperInit ==
  /\ focus \in Terms
  /\ stack = <<>> /\ add = 0 /\ floor = 0
  /\ steps = 0
  /\ budget \in Budgets
  /\ status = "" /\ at = "idle" /\ event = NoEvent

\* The step's checks; the first search starts at the root, a later one where
\* the last step was made.  What that step may have made a redex is its parent.
Capped == steps >= budget \/ RootDepth > MaxTermDepth
Refuse ==
  /\ at = "idle" /\ status = "" /\ Capped
  /\ status' = "HitCap"
  /\ UNCHANGED <<focus, stack, add, floor, steps, budget, at, event>>

SeekFromRoot ==
  /\ at = "idle" /\ status = "" /\ ~Capped
  /\ steps = 0
  /\ focus' = Whole
  /\ stack' = <<>> /\ add' = 0 /\ floor' = 0
  /\ at' = "descend"
  /\ UNCHANGED <<steps, budget, status, event>>

ParentIsRedex == focus.node = "Abs" /\ stack # <<>> /\ Top.dir = "AppL"
\* Mutant: the search goes on below, whatever the parent is now.
SeekBelow ==
  /\ at = "idle" /\ status = "" /\ ~Capped
  /\ steps > 0
  /\ at' = "descend"
  /\ UNCHANGED <<focus, stack, add, floor, steps, budget, status, event>>
SeekResuming ==
  /\ at = "idle" /\ status = "" /\ ~Capped
  /\ steps > 0
  /\ at' = IF ParentIsRedex THEN "reduce" ELSE "descend"
  /\ UNCHANGED <<focus, stack, add, floor, steps, budget, status, event>>

\* One round of descend_to_redex: past an application into its function.
Descend ==
  /\ at = "descend"
  /\ \/ /\ focus.node = "Var"
        /\ at' = "advance"
        /\ UNCHANGED <<focus, stack, add, floor>>
     \/ /\ focus.node = "Abs"
        /\ Pushed(stack, Frame("AbsBody", NoSibling, NoOwner), add, floor, focus.body)
        /\ UNCHANGED at
     \/ /\ focus.node = "App"
        /\ Pushed(stack, Frame("AppL", focus.arg, focus.owner), add, floor, focus.fun)
        /\ at' = IF focus.fun.node = "Abs" THEN "reduce" ELSE "descend"
  /\ UNCHANGED <<steps, budget, status, event>>

\* One round of advance: from a function to its argument, from an argument or
\* a body up to its parent, and from the root to the end of the run.
Advance ==
  /\ at = "advance"
  /\ \/ /\ stack = <<>>
        /\ at' = "idle" /\ status' = "Normalized"
        /\ UNCHANGED <<focus, stack, add, floor>>
     \/ /\ stack # <<>> /\ Top.dir = "AppL"
        /\ Pushed(Under(stack), [Top EXCEPT !.dir = "AppR", !.sib = focus], Top.add, Top.floor, Top.sib)
        /\ at' = "descend" /\ UNCHANGED status
     \/ /\ stack # <<>> /\ Top.dir # "AppL"
        /\ Popped(Parent(Top, focus))
        /\ UNCHANGED <<at, status>>
  /\ UNCHANGED <<steps, budget, event>>

\* The nearest tag of a context.
TagsOf(frames) == SelectSeq([i \in DOMAIN frames |-> frames[i].owner], LAMBDA tag : tag # NoOwner)
Enclosing(frames) == IF TagsOf(frames) = <<>> THEN NoOwner ELSE TagsOf(frames)[Len(TagsOf(frames))]

Reduce ==
  /\ at = "reduce"
  /\ Popped(Contract(focus.body, Top.sib))
  /\ event' = Event(Path(Under(stack)), Owner(Top.owner, Enclosing(Under(stack))))
  /\ steps' = steps + 1
  /\ at' = "idle"
  /\ UNCHANGED <<budget, status>>

ZipperNext == Refuse \/ SeekFromRoot \/ SeekResuming \/ Descend \/ Advance \/ Reduce

ZipperSpec == ZipperInit /\ [][ZipperNext]_zipperVars
-----------------------------------------------------------------------------
(***************************************************************************)
(* Properties.                                                             *)
(***************************************************************************)
\* What frame i of a context alone makes the whole term's depth at least.
Beside(frames, i) == Sat(frames[i].sib.depth, i)

\* a and f are the accounting of the first n frames: the path through them,
\* and the longest path that leaves it at one of them.
Accounts(frames, n, a, f) ==
  /\ a = Sat(0, n)
  /\ \A i \in 1..n : Beside(frames, i) <= f
  /\ f = 0 \/ \E i \in 1..n : f = Beside(frames, i)

\* In the middle of any search the depth guard's two numbers are those of the
\* context, and each frame restores those of the context below it, though max
\* cannot be undone (trace/zipper.rs:179).
DepthIsExact ==
  /\ Accounts(stack, Len(stack), add, floor)
  /\ \A i \in 1..Len(stack) : Accounts(stack, i - 1, stack[i].add, stack[i].floor)

\* No application above the focus is a redex, its own parent apart, and that
\* one is where the search has stopped or is about to: the argument by which
\* one check replaces the way back to the root (trace/zipper.rs:316).
NoRedexAbove ==
  /\ \A i \in 1..(Len(stack) - 1) : stack[i].dir = "AppL" => stack[i + 1].dir # "AbsBody"
  /\ at = "descend" => ~ParentIsRedex
  /\ at = "reduce" => ParentIsRedex

ContextIsSound == DepthIsExact /\ NoRedexAbove
=============================================================================
