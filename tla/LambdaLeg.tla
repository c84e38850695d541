------------------------------ MODULE LambdaLeg ------------------------------
(***************************************************************************)
(* A session's lambda leg (redextape-wasm/src/session.rs) with the cursor  *)
(* and the checkpoints of trace.rs it pairs, and the zipper cursor of      *)
(* trace/zipper.rs run behind it on the same term under the same cap.      *)
(*                                                                         *)
(* A plain cursor reduces from the root and is a record; a zipper is a     *)
(* state machine of its own.                                               *)
(***************************************************************************)
EXTENDS LambdaZipper, FiniteSetsExt

CONSTANTS
  Every,          \* steps between two checkpoints
  Extras,         \* by how much a cap is raised
  MaxU64,
  MaxCommands     \* raises and rewinds

ASSUME LegAssumption ==
  /\ Every \in Nat \ {0}
  /\ MaxU64 \in Nat
  /\ Budgets \subseteq Nat /\ Extras \subseteq Nat
  /\ MaxTermDepth \in Nat
  /\ MaxCommands \in Nat

VARIABLES
  cursor, marks,
  history,    \* the run: the cursor after each step it has ever made
  verdict,    \* how the run ended under its first cap, and where
  commands

vars == <<cursor, marks, zipperVars, history, verdict, commands>>

(***************************************************************************)
(* reduce_step: outermost first, then the function, then the argument.     *)
(***************************************************************************)
NoStep == [found |-> FALSE]
Found(t, redex, owner) == [found |-> TRUE, term |-> t, redex |-> redex, owner |-> owner]

RECURSIVE ReduceStep(_, _)
ReduceApp(t, enclosing) ==
  LET inner == IF t.owner # NoOwner THEN t.owner ELSE enclosing
      left  == ReduceStep(t.fun, inner)
      right == ReduceStep(t.arg, inner)
  IN  IF left.found THEN Found(App(left.term, t.arg, t.owner), <<"AppL">> \o left.redex, left.owner)
      ELSE IF right.found THEN Found(App(t.fun, right.term, t.owner), <<"AppR">> \o right.redex, right.owner)
      ELSE NoStep
ReduceAbs(t, enclosing) ==
  LET in == ReduceStep(t.body, enclosing)
  IN  IF in.found THEN Found(Abs(in.term), <<"AbsBody">> \o in.redex, in.owner) ELSE NoStep
ReduceStep(t, enclosing) ==
  CASE t.node = "Var" -> NoStep
    [] t.node = "Abs" -> ReduceAbs(t, enclosing)
    [] t.node = "App" -> IF t.fun.node = "Abs"
                         THEN Found(Contract(t.fun.body, t.arg), <<>>, Owner(t.owner, enclosing))
                         ELSE ReduceApp(t, enclosing)

(***************************************************************************)
(* LambdaCursor.                                                           *)
(***************************************************************************)
NewCursor(t, cap) ==
  [current |-> t, steps |-> 0, cap |-> cap, status |-> "", depthCapped |-> FALSE, last |-> NoEvent]

Stepped(c) ==
  LET step == ReduceStep(c.current, NoOwner)
  IN  IF step.found
      THEN [c EXCEPT !.current = step.term, !.steps = @ + 1, !.last = Event(step.redex, step.owner)]
      ELSE [c EXCEPT !.status = "Normalized"]

NextOf(c) ==
  IF c.status # "" THEN c
  ELSE IF c.steps >= c.cap THEN [c EXCEPT !.status = "HitCap", !.depthCapped = FALSE]
  ELSE IF c.current.depth > MaxTermDepth THEN [c EXCEPT !.status = "HitCap", !.depthCapped = TRUE]
  ELSE Stepped(c)

\* A cap never goes past the largest number, and only a run it stopped goes on.
RaiseCap(c, extra) ==
  [c EXCEPT !.cap = IF @ + extra > MaxU64 THEN MaxU64 ELSE @ + extra,
            !.status = IF @ = "HitCap" /\ ~c.depthCapped THEN "" ELSE @]

(***************************************************************************)
(* LambdaCheckpoints.                                                      *)
(***************************************************************************)
Observed(saved, c) ==
  IF c.steps % Every = 0 /\ c.steps > Last(saved).steps THEN Append(saved, c) ELSE saved

\* Mutant: the checkpoint replays under the cap it was saved with.
AtUnderOwnCap(saved, step) ==
  LET from == saved[Cardinality({i \in DOMAIN saved : saved[i].steps <= step})]
      go[n \in Nat] == IF n = 0 THEN from ELSE NextOf(go[n - 1])
  IN  go[step - from.steps]

\* The nearest checkpoint below, its cap lifted, and next until the step.
CursorAt(saved, step) ==
  LET from == RaiseCap(saved[Cardinality({i \in DOMAIN saved : saved[i].steps <= step})], MaxU64)
      go[n \in Nat] == IF n = 0 THEN from ELSE NextOf(go[n - 1])
  IN  go[step - from.steps]

(***************************************************************************)
(* The leg.                                                                *)
(***************************************************************************)
None == [status |-> "", steps |-> 0]

Init ==
  /\ ZipperInit
  /\ cursor = NewCursor(focus, budget)
  /\ marks = <<cursor>>
  /\ history = <<cursor>>
  /\ verdict = None
  /\ commands = 0

\* The zipper is where the run was last seen to be, or is done.
CaughtUp == at = "idle" /\ (status # "" \/ steps = Len(history) - 1)

\* step: what was stepped is shown to the checkpoints.
Step ==
  /\ CaughtUp /\ cursor.status = ""
  /\ LET c == NextOf(cursor)
     IN  /\ cursor' = c
         /\ marks' = IF c.steps > cursor.steps THEN Observed(marks, c) ELSE marks
         /\ history' = IF c.steps = Len(history) THEN Append(history, c) ELSE history
         /\ verdict' = IF verdict = None /\ c.status # "" THEN [status |-> c.status, steps |-> c.steps]
                       ELSE verdict
  /\ UNCHANGED <<zipperVars, commands>>

\* next on the zipper, behind the leg.
ZipperStep ==
  /\ ~CaughtUp \/ (verdict # None /\ status = "")
  /\ ZipperNext
  /\ UNCHANGED <<cursor, marks, history, verdict, commands>>

Command == CaughtUp /\ commands < MaxCommands /\ commands' = commands + 1

\* A run that has ended is handed more of a budget.
Raise ==
  /\ Command /\ cursor.status # "" /\ status # ""
  /\ \E extra \in Extras : cursor' = RaiseCap(cursor, extra)
  /\ UNCHANGED <<marks, zipperVars, history, verdict>>

\* rewind: the first checkpoint as it was saved, and the later ones dropped.
Rewind ==
  /\ Command /\ status # ""
  /\ marks' = <<Head(marks)>>
  /\ cursor' = Head(marks)
  /\ UNCHANGED <<zipperVars, history, verdict>>

Next == Step \/ ZipperStep \/ Raise \/ Rewind

Spec == Init /\ [][Next]_vars
-----------------------------------------------------------------------------
(***************************************************************************)
(* Properties.                                                             *)
(***************************************************************************)
RECURSIVE Bare(_)
Bare(t) ==
  CASE t.node = "Var" -> <<"var", t.index>>
    [] t.node = "Abs" -> <<"abs", Bare(t.body)>>
    [] t.node = "App" -> <<"app", Bare(t.fun), Bare(t.arg), t.owner>>

NO == INSTANCE NormalOrder
        WITH Exact <- LAMBDA tag : Owner(tag, NoOwner), Within <- LAMBDA tag : Owner(NoOwner, tag),
             Nobody <- Owner(NoOwner, NoOwner),
             start <- Bare(history[1].current), term <- Bare(cursor.current),
             last <- <<cursor.last.redex, cursor.last.owner>>, over <- cursor.status = "Normalized"

\* The cursor's cached depths and free indices, its one-walk substitution and
\* its descent implement normal order, under every cap, raise and rewind
\* (lambda/term.rs:519, lambda/reduce.rs:128).
FollowsNormalOrder == NO!Spec

\* What a past step was.
Past(c) == <<c.current, c.steps, c.last>>

\* There is one run, and everything that claims to be at one of its steps is:
\* the zipper in the middle of any search, tags and all, with the depth its
\* guard reads; the cursor rewound and run again; a cursor rebuilt from any
\* checkpoints for any step so far, past a cap raised since.  Both cursors end
\* it at the same step for the same reason, and what a cap or the depth guard
\* stopped is not resumed by less (trace.rs:147, 232, trace/zipper.rs:179).
OneRun ==
  /\ <<Whole, event>> = <<history[steps + 1].current, history[steps + 1].last>>
  /\ RootDepth = Whole.depth
  /\ status # "" => [status |-> status, steps |-> steps] = verdict
  /\ Past(cursor) = Past(history[cursor.steps + 1])
  /\ \A s \in 0..cursor.steps : Past(CursorAt(marks, s)) = Past(history[s + 1])
  /\ cursor.status = "HitCap" =>
       IF cursor.depthCapped THEN cursor.current.depth > MaxTermDepth ELSE cursor.steps >= cursor.cap
=============================================================================
