----------------------------- MODULE OutboxRelay ----------------------------
(***************************************************************************)
(* worker/main.py, outbox_relay: the thread of each worker that moves      *)
(* committed outbox rows to RabbitMQ.  SELECT ... FOR UPDATE SKIP LOCKED,  *)
(* the publishes and the stamping of published_at are one transaction: a   *)
(* row another relay has locked is skipped, and a rollback makes the rows  *)
(* of the batch unpublished again although some are already in the broker. *)
(***************************************************************************)
EXTENDS PipelineState

\* The batches the SELECT can return: everything, or RelayLimit rows of it
\* (rows have no age in the model, so any RelayLimit rows can be the oldest).
Batches ==
  IF BagCardinality(outbox) <= RelayLimit
  THEN {outbox}
  ELSE {batch \in UNION {[D -> 1 .. RelayLimit] : D \in SUBSET BagToSet(outbox)} :
          batch \sqsubseteq outbox /\ BagCardinality(batch) = RelayLimit}

RelayIdle(w) == locked[w] = EmptyBag /\ sent[w] = EmptyBag

\* Variant: before the fix of DESIGN.md 9.3 the SELECT locked nothing, so that
\* every relay reads the same rows.
RelaySelectUnlocked(w) ==
  /\ Up(w)
  /\ RelayIdle(w)
  /\ outbox # EmptyBag
  /\ \E batch \in Batches : locked' = [locked EXCEPT ![w] = batch]
  /\ UNCHANGED <<tables, outbox, sent, queue, dlq, handlerVars, final, ghosts, bounds>>

\* SELECT ... ORDER BY created_at LIMIT 50 FOR UPDATE SKIP LOCKED.
RelaySelect(w) ==
  /\ Up(w)
  /\ RelayIdle(w)
  /\ outbox # EmptyBag
  /\ \E batch \in Batches :
       /\ locked' = [locked EXCEPT ![w] = batch]
       /\ outbox' = outbox (-) batch
  /\ UNCHANGED <<tables, sent, queue, dlq, handlerVars, final, ghosts, bounds>>

\* basic_publish and the UPDATE of the row, not yet committed.
RelayPublish(w) ==
  /\ \E m \in BagToSet(locked[w]) :
       /\ locked' = [locked EXCEPT ![w] = BagRemove(@, m)]
       /\ sent' = [sent EXCEPT ![w] = BagAdd(@, m)]
       /\ queue' = BagAdd(queue, m)
  /\ UNCHANGED <<tables, outbox, dlq, handlerVars, final, ghosts, bounds>>

RelayCommit(w) ==
  /\ locked[w] = EmptyBag
  /\ sent[w] # EmptyBag
  /\ sent' = [sent EXCEPT ![w] = EmptyBag]
  /\ UNCHANGED <<tables, outbox, locked, queue, dlq, handlerVars, final, ghosts, bounds>>

\* Variant: published_at is committed for the whole batch before the publishes.
StampedFirst(w) ==
  /\ UNCHANGED outbox
  /\ locked' = [locked EXCEPT ![w] = EmptyBag]
  /\ sent' = [sent EXCEPT ![w] = EmptyBag]

\* The transaction of the relay of w is rolled back, its rows are unlocked.
Rollback(w) ==
  /\ outbox' = outbox (+) locked[w] (+) sent[w]
  /\ locked' = [locked EXCEPT ![w] = EmptyBag]
  /\ sent' = [sent EXCEPT ![w] = EmptyBag]

\* The except clause: a failed publish, UPDATE or commit, then a reconnect.
RelayError(w) ==
  /\ ~RelayIdle(w)
  /\ faults < MaxFaults
  /\ faults' = faults + 1
  /\ Rollback(w)
  /\ UNCHANGED <<tables, queue, dlq, handlerVars, final, ghosts, early>>

=============================================================================
