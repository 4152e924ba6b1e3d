---------------------------- MODULE PriorityBatch ----------------------------
(***************************************************************************)
(* automatic_priority_service.py: the legs of a batch are reserved in one  *)
(* transaction and sent one by one by the request that created them; after *)
(* a restart nobody resumes it.  Leg n is order n.                         *)
(***************************************************************************)
EXTENDS GroupState

Legs == 1..Steps

\* execute_group: a leg is sent while the group is still being sent.  The mark
\* is read before the dispatch and without a lock.
CheckLeg ==
  /\ batch.pc = "check"
  /\ batch' = IF mark[batch.leg] = "batch_sending" THEN [batch EXCEPT !.pc = "dispatch"]
              ELSE [batch EXCEPT !.pc = "abort", !.result = "batch_partial"]
  /\ UNCHANGED <<orderVars, wireVars, sender, worker, bootVars, envVars>>

DispatchLeg ==
  /\ batch.pc = "dispatch"
  /\ IF NeverAttempted(batch.leg) THEN ClaimDispatch(batch.leg)
     ELSE UNCHANGED <<dispatch, sender>>
  /\ batch' = [batch EXCEPT !.pc = "judge"]
  /\ UNCHANGED <<policy, step, status, task, mark, wireVars, worker, bootVars, envVars>>

\* An exception before the claim.
DispatchFails ==
  /\ batch.pc = "dispatch" /\ failures < MaxFailures
  /\ failures' = failures + 1
  /\ Compensate({o \in {batch.leg} : dispatch[o] = "not_sent"})
  /\ batch' = [batch EXCEPT !.pc = "judge"]
  /\ UNCHANGED <<policy, step, task, mark, wireVars, sender, worker, bootVars, visits, crashes>>

\* Only an accepted leg lets the next one go.  Mutant: a leg not refused does.
NotFailed(o) == dispatch[o] # "error"
Accepted(o) == dispatch[o] = "success" /\ task[o]

JudgeLeg ==
  LET o == batch.leg IN
  /\ batch.pc = "judge" /\ sender[o] = "idle"
  /\ batch' =
       IF Accepted(o)
       THEN IF o = Steps THEN [batch EXCEPT !.pc = "final"]
            ELSE [batch EXCEPT !.pc = "check", !.leg = o + 1]
       ELSE [batch EXCEPT !.pc = "stop",
               !.result = IF dispatch[o] = "uncertain" THEN "batch_uncertain" ELSE "batch_partial"]
  /\ UNCHANGED <<orderVars, wireVars, sender, worker, bootVars, envVars>>

\* _stop_remaining, one transaction per leg that was never tried, and in the
\* end the leg that was refused.  A group stopped before a leg loses it too.
Remaining == {o \in batch.leg..Steps : /\ Unsent(o) /\ CompensationDue(o)
                                       /\ o = batch.leg => batch.pc = "abort"}

StopLeg ==
  /\ batch.pc \in {"abort", "stop"} /\ Remaining # {}
  /\ Compensate({Min(Remaining)})
  /\ UNCHANGED <<policy, step, task, mark, wireVars, sender, worker, batch, bootVars, envVars>>

StopRefused ==
  /\ batch.pc \in {"abort", "stop"} /\ Remaining = {}
  /\ Compensate({o \in {batch.leg} : dispatch[o] = "error"})
  /\ batch' = [batch EXCEPT !.pc = "final"]
  /\ UNCHANGED <<policy, step, task, mark, wireVars, sender, worker, bootVars, envVars>>

MarkGroup ==
  /\ batch.pc = "final"
  /\ mark' = [o \in Orders |-> IF o \in Rows /\ mark[o] # "cancelled" THEN batch.result ELSE mark[o]]
  /\ batch' = IdleBatch
  /\ UNCHANGED <<policy, step, status, dispatch, task, wireVars, sender, worker, bootVars, envVars>>

BatchStep ==
  CheckLeg \/ DispatchLeg \/ DispatchFails \/ JudgeLeg \/ StopLeg \/ StopRefused \/ MarkGroup

-----------------------------------------------------------------------------
(* recover_interrupted_groups, alone at startup: a crash in the middle of it *)
(* only makes the next startup repeat it.                                    *)

\* Mutant: only the leg whose turn it was.
FirstUnsent == {o \in Rows : Unsent(o) /\ \A p \in Rows : p < o => ~Unsent(p)}
AllUnsent   == {o \in Rows : Unsent(o)}

Interrupted == \E o \in Rows : mark[o] = "batch_sending"

RecoverBatch ==
  /\ boot = "batches"
  /\ IF Interrupted
     THEN /\ Compensate(AllUnsent)
          /\ mark' = [o \in Orders |-> IF o \in Rows THEN "batch_interrupted" ELSE mark[o]]
     ELSE UNCHANGED <<status, dispatch, mark>>
  /\ boot' = "chains"
  /\ UNCHANGED <<policy, step, task, wireVars, sender, worker, batch, todo, missed, envVars>>
=============================================================================
