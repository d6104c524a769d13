-------------------------- MODULE MCSynthesisCache --------------------------
(***************************************************************************)
(* Instances of SynthesisCache for TLC.                                    *)
(***************************************************************************)
EXTENDS SynthesisCache, TLC

CONSTANTS w1, w2, w3, t1, t2, h1

\* t1 and t2 are the same words of the same speaker.
Twins == (t1 :> h1) @@ (t2 :> h1)

=============================================================================
