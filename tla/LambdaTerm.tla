----------------------------- MODULE LambdaTerm -----------------------------
(***************************************************************************)
(* The terms of crates/redextape-core/src/lambda/term.rs: de Bruijn trees  *)
(* whose every node carries one past its largest free index and its depth, *)
(* both computed where the node is built.  An application carries the      *)
(* construct it was lowered from; name hints are left out.                 *)
(***************************************************************************)
EXTENDS Integers

CONSTANT MaxU32

ASSUME MaxU32Assumption == MaxU32 \in Nat \ {0}

NoOwner == 0

Larger(a, b) == IF a > b THEN a ELSE b
\* a + b, saturating
Sat(a, b) == IF a + b > MaxU32 THEN MaxU32 ELSE a + b

Var(k) == [node |-> "Var", index |-> k, maxfree |-> Sat(k, 1), depth |-> 0]

\* The binder takes index 0.
Abs(body) ==
  [node |-> "Abs", body |-> body, maxfree |-> Larger(body.maxfree - 1, 0), depth |-> Sat(body.depth, 1)]

App(fun, arg, owner) ==
  [node |-> "App", fun |-> fun, arg |-> arg, owner |-> owner,
   maxfree |-> Larger(fun.maxfree, arg.maxfree), depth |-> Sat(Larger(fun.depth, arg.depth), 1)]

\* The claim a step makes of the construct it belongs to, from the tag of the
\* contracted application and the nearest tag above it.
Owner(tag, enclosing) ==
  IF tag # NoOwner THEN [claim |-> "Exact", id |-> tag]
  ELSE IF enclosing # NoOwner THEN [claim |-> "Within", id |-> enclosing]
  ELSE [claim |-> "None", id |-> NoOwner]

Event(redex, owner) == [redex |-> redex, owner |-> owner]
NoEvent == Event("none", Owner(NoOwner, NoOwner))
=============================================================================
