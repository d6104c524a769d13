---------------------------- MODULE MCCompletion ----------------------------
(***************************************************************************)
(* Instances of Completion for TLC.                                        *)
(***************************************************************************)
EXTENDS Completion, TLC

CONSTANTS w1, w2, r1, r2, t1, t2

=============================================================================
