------------------------------ MODULE MCPipeline -----------------------------
(***************************************************************************)
(* Instances of Pipeline for TLC.                                          *)
(***************************************************************************)
EXTENDS PipelineInvariant, TLC

CONSTANTS w1, w2, drama, legacy, poison, t1, t2

\* A drama of one or two chunks.
OneChunk  == [t \in {t1} |-> drama]
TwoChunks == [t \in {t1, t2} |-> drama]

\* A job wedged by an earlier release, next to others of other kinds.
LegacyChunk    == [t \in {t1} |-> legacy]
DramaAndLegacy == (t1 :> drama) @@ (t2 :> legacy)

Symmetry == Permutations({w1, w2}) \cup Permutations({t1, t2})
WorkerSymmetry == Permutations({w1, w2})
=============================================================================
