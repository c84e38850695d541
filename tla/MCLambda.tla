------------------------------ MODULE MCLambda ------------------------------
(***************************************************************************)
(* Terms for LambdaLeg: all small ones over two free indices, and some     *)
(* that loop, grow, compute or are too deep.                               *)
(***************************************************************************)
EXTENDS LambdaLeg, Substitution

\* Tags spread over the terms, every third application without one.
Spread(f, a) == (f.depth + 2 * a.depth + f.maxfree + a.maxfree) % 3
Apply(f, a) == App(f, a, Spread(f, a))

Level0 == {Var(0), Var(1)}
Level1 == Level0 \cup {Abs(t) : t \in Level0} \cup {Apply(f, a) : f \in Level0, a \in Level0}
Level2 == Level0 \cup {Abs(t) : t \in Level1} \cup {Apply(f, a) : f \in Level1, a \in Level1}
Level3 == Level2 \cup {Abs(t) : t \in Level2} \cup {Apply(f, a) : f \in Level2, a \in Level1}
            \cup {Apply(f, a) : f \in {t \in Level2 : t.node = "Abs"}, a \in Level2}
            \cup {Apply(f, Apply(a, b)) : f \in Level0, a \in {t \in Level2 : t.node = "Abs"}, b \in Level0}

\* The numeral n, and arithmetic on numerals.
RECURSIVE Times(_)
Times(n) == IF n = 0 THEN Var(0) ELSE Apply(Var(1), Times(n - 1))
Church(n) == Abs(Abs(Times(n)))
Succ == Abs(Abs(Abs(Apply(Var(1), Apply(Apply(Var(2), Var(1)), Var(0))))))
Plus == Abs(Abs(Apply(Apply(Var(1), Succ), Var(0))))
Mult == Abs(Abs(Abs(Apply(Var(2), Apply(Var(1), Var(0))))))

Copies(n) == Abs(FoldLeft(LAMBDA t, i : Apply(t, Var(0)), Var(0), [i \in 1..n |-> i]))
Binders(n, t) == FoldLeft(LAMBDA body, i : Abs(body), t, [i \in 1..n |-> i])
Loops == Apply(Copies(1), Copies(1))
Grows == Apply(Copies(2), Copies(2))

Curated ==
  {Loops, Grows, Apply(Var(1), Loops), Apply(Abs(Var(1)), Loops), Abs(Apply(Apply(Abs(Abs(Var(2))), Var(0)), Loops)),
   Apply(Apply(Plus, Church(1)), Church(1)), Apply(Apply(Mult, Church(2)), Church(2)),
   Apply(Apply(Apply(Mult, Church(2)), Church(1)), Var(0)),
   Apply(Apply(Var(1), Loops), Church(6)), Apply(Apply(Apply(Plus, Church(1)), Church(1)), Church(5)),
   Binders(6, Apply(Apply(Var(0), Apply(Abs(Var(0)), Loops)), Apply(Grows, Var(2)))),
   Apply(Church(4), Abs(Var(0))), Apply(Abs(Var(0)), Church(10)), Church(10),
   Abs(Apply(Var(0), Apply(Apply(Abs(Abs(Apply(Var(1), Var(2)))), Var(0)), Var(1))))}

MCStarts == Level3 \cup Curated
=============================================================================
