----------------------------- MODULE MCSession -----------------------------
(***************************************************************************)
(* Small instances of SessionRuntime.  A run of a leg is shorter than,      *)
(* as long as, or longer than its cap, and ends well or is refused; a       *)
(* build may yield no session.                                              *)
(***************************************************************************)
EXTENDS SessionRuntime

Leg(n, e) == [len |-> n, end |-> e]
Program(legs, n) == [leg |-> legs, chunks |-> n]

LambdaTm == <<"lambda", "tm">>
AllLegs == <<"lambda", "rxm", "tm">>
Lambda == <<"lambda">>
Tm == <<"tm">>

(* Edits: a leg runs past its history, is declined, or nothing builds.       *)
EditedPrograms ==
    {NoSession,
     Program([lambda |-> Leg(3, "ended"), tm |-> Leg(1, "ended")], 0),
     Program([lambda |-> Leg(4, "depth-refused"), tm |-> Absent], 0)}

(* The same without the interleavings of two long recordings.               *)
LivePrograms ==
    {NoSession,
     Program([lambda |-> Leg(0, "ended"), tm |-> Leg(1, "ended")], 0),
     Program([lambda |-> Leg(3, "ended"), tm |-> Absent], 0)}

(* All three legs: one decides its value late and is rewound while the      *)
(* others are recorded, continued or absent.                                *)
ThreeLegPrograms ==
    {Program([lambda |-> Leg(3, "ended"), rxm |-> Leg(1, "stack-full"),
              tm |-> Leg(0, "ended")], 0),
     Program([lambda |-> Leg(1, "depth-refused"), rxm |-> Leg(2, "ended"),
              tm |-> Absent], 0),
     Program([lambda |-> Absent, rxm |-> Leg(5, "ended"), tm |-> Absent], 0)}

(* Copies.                                                                  *)
LambdaCopies == {NoSession, Program([lambda |-> Leg(4, "ended")], 0)}
TmCopies ==
    {NoSession, Program([tm |-> Leg(3, "ended")], 0),
     Program([tm |-> Leg(2, "ended")], 2)}
=============================================================================
