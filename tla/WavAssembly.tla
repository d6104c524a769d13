----------------------------- MODULE WavAssembly -----------------------------
(***************************************************************************)
(* The bytes of a drama (worker/stages/stitch.py:93).  A WAV object is     *)
(* Header followed by its sound, the object of the simulated TTS is sound  *)
(* alone.  A chunk is [index, object], chunk_index counted from 0; the     *)
(* list may lack chunks.                                                   *)
(***************************************************************************)
EXTENDS Naturals, SequencesExt

CONSTANTS
  Header,  \* the 44 bytes of RIFF header
  Silence  \* 2205 frames of silence

Sound(object) == IF Head(object) = Header THEN Tail(object) ELSE object

\* Variant: silence after each chunk.
GapAlways(chunks, k) == <<Silence>>

\* if chunk_index < len(chunks) - 1
Gap(chunks, k) == IF chunks[k].index + 1 < Len(chunks) THEN <<Silence>> ELSE <<>>

\* _stitch_chunks.
StitchChunks(chunks) ==
  <<Header>> \o FlattenSeq([k \in DOMAIN chunks |-> Sound(chunks[k].object) \o Gap(chunks, k)])

=============================================================================
