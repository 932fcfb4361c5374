------------------------- MODULE DeadLetterDurable -------------------------
(***************************************************************************)
(* DeadLetter implements DurableJobs: a payload is settled once it has      *)
(* succeeded or was dismissed, active while a row of _private_jobs carries  *)
(* it, and dead while only a row of backfill_dlq does.  A payload that is   *)
(* none of these has no place in the abstract specification.                *)
(***************************************************************************)
EXTENDS DeadLetter

PlaceOf(i) == IF Settled(i) THEN "settled"
              ELSE IF Queued(i) THEN "active"
              ELSE IF Kept(i) THEN "dead"
              ELSE IF i >= nextItem THEN "new"
              ELSE "lost"

place == [i \in Items |-> PlaceOf(i)]
Durable == INSTANCE DurableJobs

\* Through retries, crashes, lock releases, scans and requeues, each payload
\* only takes the steps DurableJobs allows, and is not attempted forever.
DurableSpec == Durable!Spec
=============================================================================
