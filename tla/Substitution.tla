---------------------------- MODULE Substitution ----------------------------
(***************************************************************************)
(* The one-walk substitution of lambda/term.rs: it stops where a node's    *)
(* maxfree says that nothing below can change, and it lowers the indices   *)
(* above the one it replaces on the way.                                   *)
(***************************************************************************)
EXTENDS LambdaTerm

\* Free indices from cutoff on, raised by d.
RECURSIVE Shift(_, _, _)
Shift(d, cutoff, t) ==
  IF t.maxfree <= cutoff THEN t
  ELSE CASE t.node = "Var" -> Var(t.index + d)
         [] t.node = "Abs" -> Abs(Shift(d, cutoff + 1, t.body))
         [] t.node = "App" -> App(Shift(d, cutoff, t.fun), Shift(d, cutoff, t.arg), t.owner)

RECURSIVE BetaGo(_, _, _)

\* Mutant: the argument is not lifted under a binder.
BetaGoUnlifted(t, j, s) ==
  IF t.maxfree <= j THEN t
  ELSE CASE t.node = "Var" -> IF t.index = j THEN s ELSE Var(t.index - 1)
         [] t.node = "Abs" -> Abs(BetaGo(t.body, j + 1, s))
         [] t.node = "App" -> App(BetaGo(t.fun, j, s), BetaGo(t.arg, j, s), t.owner)

\* s for index j, and every free index above j lowered; s is lifted by j.
BetaGo(t, j, s) ==
  IF t.maxfree <= j THEN t
  ELSE CASE t.node = "Var" -> IF t.index = j THEN s ELSE Var(t.index - 1)
         [] t.node = "Abs" -> Abs(BetaGo(t.body, j + 1, Shift(1, 0, s)))
         [] t.node = "App" -> App(BetaGo(t.fun, j, s), BetaGo(t.arg, j, s), t.owner)

Beta(body, arg) == BetaGo(body, 0, arg)
=============================================================================
