----------------------------- MODULE MCSemaphore ----------------------------
(***************************************************************************)
(* Instances of Semaphore for TLC.                                         *)
(***************************************************************************)
EXTENDS Semaphore, TLC

CONSTANTS w1, w2, t1, t2

=============================================================================
