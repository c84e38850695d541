---------------------------- MODULE NormalOrder ----------------------------
(***************************************************************************)
(* Normal-order reduction as a textbook states it: of all redexes, by      *)
(* their positions, the leftmost-outermost is contracted, in three passes, *)
(* and a run ends where there is none.  Nothing is cached.  A run may be   *)
(* begun again.  It is what lambda/reduce.rs, lambda/term.rs and the       *)
(* cursors of trace.rs promise.                                            *)
(***************************************************************************)
EXTENDS Integers, Sequences, SequencesExt, FiniteSetsExt

CONSTANTS Exact(_), Within(_), Nobody   \* whose step it was

VARIABLES
  start,    \* fixed
  term,     \* <<"var", k>>, <<"abs", body>> or <<"app", fun, arg, tag>>
  last,     \* the redex contracted last and whose step it was
  over

vars == <<start, term, last, over>>

Untagged == 0
None == <<"none", Nobody>>

IsRedex(t) == t[1] = "app" /\ t[2][1] = "abs"

\* The subterms by position.
RECURSIVE Positions(_)
Under(dir, t) == {<<dir>> \o p : p \in Positions(t)}
Positions(t) ==
  {<<>>} \cup (CASE t[1] = "var" -> {}
                 [] t[1] = "abs" -> Under("AbsBody", t[2])
                 [] t[1] = "app" -> Under("AppL", t[2]) \cup Under("AppR", t[3]))

Child(t, dir) == IF dir = "AppR" THEN t[3] ELSE t[2]
At(t, p) == FoldLeft(Child, t, p)

RECURSIVE Replace(_, _, _)
Replace(t, p, by) ==
  IF p = <<>> THEN by
  ELSE LET child == Replace(Child(t, Head(p)), Tail(p), by)
       IN  [t EXCEPT ![IF Head(p) = "AppR" THEN 3 ELSE 2] = child]

(***************************************************************************)
(* Contraction: shift the argument up, substitute, shift the result down.  *)
(***************************************************************************)
RECURSIVE Lift(_, _, _)
Lift(d, cutoff, t) ==
  CASE t[1] = "var" -> IF t[2] >= cutoff THEN <<"var", t[2] + d>> ELSE t
    [] t[1] = "abs" -> <<"abs", Lift(d, cutoff + 1, t[2])>>
    [] t[1] = "app" -> <<"app", Lift(d, cutoff, t[2]), Lift(d, cutoff, t[3]), t[4]>>

RECURSIVE Subst(_, _, _)
Subst(j, s, t) ==
  CASE t[1] = "var" -> IF t[2] = j THEN s ELSE t
    [] t[1] = "abs" -> <<"abs", Subst(j + 1, Lift(1, 0, s), t[2])>>
    [] t[1] = "app" -> <<"app", Subst(j, s, t[2]), Subst(j, s, t[3]), t[4]>>

Contracted(redex) == Lift(-1, 0, Subst(0, Lift(1, 0, redex[3]), redex[2][2]))

(***************************************************************************)
(* Order: outside before inside, left before right.                        *)
(***************************************************************************)
Redexes(t) == {p \in Positions(t) : IsRedex(At(t, p))}
Before(p, q) ==
  \/ IsPrefix(p, q)
  \/ \E i \in DOMAIN p \cap DOMAIN q :
       SubSeq(p, 1, i - 1) = SubSeq(q, 1, i - 1) /\ p[i] = "AppL" /\ q[i] = "AppR"

\* The tags strictly above a position, outermost first.
TagsAbove(t, p) ==
  SelectSeq([i \in 1..Len(p) |-> LET u == At(t, SubSeq(p, 1, i - 1))
                                 IN  IF u[1] = "app" THEN u[4] ELSE Untagged],
            LAMBDA tag : tag # Untagged)
Whose(t, p) ==
  LET tag == At(t, p)[4]
  IN  IF tag # Untagged THEN Exact(tag)
      ELSE IF TagsAbove(t, p) # <<>> THEN Within(Last(TagsAbove(t, p)))
      ELSE Nobody

Init == term = start /\ last = None /\ over = FALSE

ContractRedex ==
  /\ ~over
  /\ \E p \in Redexes(term) :
       /\ \A q \in Redexes(term) : Before(p, q)
       /\ term' = Replace(term, p, Contracted(At(term, p)))
       /\ last' = <<p, Whose(term, p)>>
  /\ UNCHANGED <<start, over>>

Finish == ~over /\ Redexes(term) = {} /\ over' = TRUE /\ UNCHANGED <<start, term, last>>

Restart == term' = start /\ last' = None /\ over' = FALSE /\ UNCHANGED start

Next == ContractRedex \/ Finish \/ Restart

Spec == Init /\ [][Next]_vars
=============================================================================
