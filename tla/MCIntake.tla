------------------------------ MODULE MCIntake ------------------------------
(***************************************************************************)
(* Instances of Intake for TLC.                                            *)
(***************************************************************************)
EXTENDS Intake, TLC

CONSTANTS p1, p2, w1, w2, k1

\* p2 is the retry of p1.
Retried == (p1 :> k1) @@ (p2 :> k1)

\* One tier, two retries.
OneTier == <<"retry 1000ms">>

=============================================================================
