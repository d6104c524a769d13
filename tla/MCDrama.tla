------------------------------- MODULE MCDrama -------------------------------
(***************************************************************************)
(* An instance of Drama for TLC.                                           *)
(***************************************************************************)
EXTENDS Drama

\* One labelled line of ALICE, two of BOB with the words of ALICE among them, a bare
\* label, prose and a blank line.
Lines ==
  {Line("ALICE", "yes"), Line("BOB", "yes"), Line("BOB", "no"), Line("ALICE", Nothing),
   Line(Nothing, "so"), Line(Nothing, Nothing)}

UpTo3Lines == BoundedSeq(Lines, 3)

TwoVoices == {"lessac", "ryan"}

\* The narrator has the default voice.
VoiceRegistry == [default |-> "lessac", ALICE |-> "lessac", BOB |-> "ryan"]

=============================================================================
