---------------------------- MODULE JobLifecycle ----------------------------
(***************************************************************************)
(* What GET /jobs/{id} promises to a client that polls it: a job moves     *)
(* forward through its statuses, COMPLETED is never taken back, and a      *)
(* COMPLETED job has an audio object behind its link.  Pipeline implements *)
(* this specification.                                                     *)
(*                                                                         *)
(* It promises no more than the code keeps: a FAILED job may yet become    *)
(* COMPLETED, because a stitch handler that passed its guard before the    *)
(* failure was recorded writes COMPLETED whatever the status is.           *)
(***************************************************************************)
CONSTANTS Jobs,
          Legacy   \* jobs found in PROCESSING when the system starts

VARIABLES status,  \* the status the client reads
          audio    \* the jobs with an object under audio/final/

vars == <<status, audio>>

Init == /\ status = [j \in Jobs |-> IF j \in Legacy THEN "PROCESSING" ELSE "ABSENT"]
        /\ audio = {}

Move(S, from, to) ==
  /\ S # {}
  /\ \A j \in S : status[j] \in from
  /\ status' = [j \in Jobs |-> IF j \in S THEN to ELSE status[j]]
  /\ UNCHANGED audio

Accept(j) == Move({j}, {"ABSENT"}, "PENDING")
Start(j)  == Move({j}, {"PENDING"}, "PROCESSING")
Fail(j)   == Move({j}, {"PENDING", "PROCESSING", "STITCHING"}, "FAILED")

\* One sweep of the reconciler may move several jobs.
Assemble(S) == Move(S, {"PROCESSING"}, "STITCHING")

Publish(j) == /\ status[j] \in {"STITCHING", "FAILED", "COMPLETED"}
              /\ audio' = audio \cup {j}
              /\ UNCHANGED status

Complete(j) == /\ j \in audio
               /\ Move({j}, {"STITCHING", "FAILED"}, "COMPLETED")

Next == \/ \E j \in Jobs : \/ Accept(j) \/ Start(j) \/ Fail(j)
                           \/ Publish(j) \/ Complete(j)
        \/ \E S \in SUBSET Jobs : Assemble(S)

Spec == Init /\ [][Next]_vars
=============================================================================
