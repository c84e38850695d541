----------------------------- MODULE MCCopies -----------------------------
(***************************************************************************)
(* The pages followed by TLC.                                               *)
(***************************************************************************)
EXTENDS ScratchCopies

Setup(leg, cap, copies, texts, reloading, failures, formats) ==
    [leg |-> leg, cap |-> cap, copies |-> copies, texts |-> texts,
     reloads |-> reloading, failures |-> failures, formats |-> formats]

(* Two machine copies that are typed into once; one that is typed into      *)
(* twice, and so a lambda copy; two lambda copies, with room for one.       *)
AllSetups ==
    {Setup("machine", 2, 2, 2, 1, TRUE, TRUE),
     Setup("machine", 1, 1, 3, 1, TRUE, TRUE),
     Setup("lambda", 1, 1, 3, 1, TRUE, FALSE),
     Setup("lambda", 1, 2, 1, 0, FALSE, FALSE)}

LambdaOnly == {Setup("lambda", 1, 1, 1, 0, FALSE, FALSE)}
=============================================================================
