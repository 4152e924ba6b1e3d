---------------------------- MODULE OrderMonitor ----------------------------
(***************************************************************************)
(* Status queries and what their answers do to an order                    *)
(* (monitor_service.py): the answer is recorded in one transaction and     *)
(* applied in a later one; "completed" is applied in three transactions,    *)
(* the evidence, the move of the rack and the close; the end of a cancel   *)
(* with return waits for a position query between its two.                 *)
(***************************************************************************)
EXTENDS OrderState

Answer(o) == CASE remote[o] = "created" -> "dispatched"
               [] remote[o] = "running" -> "in_progress"
               [] OTHER -> remote[o]

\* rcs_status as far as this model tells its values apart.
\* Mutant: the raw answer.
RawValue(seen) == seen
RcsValue(seen) == IF seen \in RemoteDone THEN seen ELSE "other"

Proceed(w, pc) == observer' = [observer EXCEPT ![w].pc = pc]
Finish(w) == observer' = [observer EXCEPT ![w] = IdleObserver]

\* check_active_tasks picks the order and the RCS answers.  A manual query
\* reaches any order with a taskCode; on a closed one it changes nothing.
Observe(w, o) ==
  /\ observer[w] = IdleObserver
  /\ Active(o) /\ task[o]
  /\ w = Monitor => dispatch[o] \in {"success", "uncertain"}
  /\ observer' = [observer EXCEPT ![w] = [pc |-> "record", order |-> o, seen |-> Answer(o)]]
  /\ UNCHANGED <<orderVars, routeVars, floorVars, wireVars, sender, canceller, poller, envVars>>

(* _record_status_query_for_order, first half of run_manual_status_query.   *)
(* The message is replaced unless a reconciliation is pending once the new  *)
(* rcs_status is in.  Only the monitor promotes an uncertain creation: the  *)
(* manual query's assignment is undone by the refresh that follows it.      *)
Record(w) ==
  /\ observer[w].pc = "record"
  /\ Proceed(w, "apply")
  /\ LET o == observer[w].order
         seen == RcsValue(observer[w].seen)
         value == IF ReconciliationPending(o) /\ seen # rcs[o] THEN rcs[o] ELSE seen
         pending == /\ status[o] \in Movable \cup {"cancel_requested_undo"}
                    /\ value \in {"completed", "cancelled"}
                    /\ recon[o]
     IN IF Closed(o)
        THEN UNCHANGED <<rcs, recon, dispatch>>
        ELSE /\ rcs' = [rcs EXCEPT ![o] = value]
             /\ recon' = [recon EXCEPT ![o] = pending]
             /\ dispatch' = [dispatch EXCEPT ![o] =
                  IF w = Monitor /\ @ = "uncertain" THEN "success" ELSE @]
  /\ UNCHANGED <<status, task, forced, routeVars, floorVars, wireVars,
                 sender, canceller, poller, envVars>>

-----------------------------------------------------------------------------
(* apply_remote_status_to_order *)

\* Its four early returns; "pending" keeps the evidence it was given first.
\* Mutant: a pending reconciliation ignores its own evidence as well.
IgnoredWhilePending(o, seen) == Closed(o) \/ forced[o] \/ ReconciliationPending(o)
Ignored(o, seen) ==
  \/ Closed(o)
  \/ forced[o]
  \/ ReconciliationPending(o) /\ seen # rcs[o]

Applying(w, o, answers) ==
  /\ observer[w].pc = "apply"
  /\ o = observer[w].order
  /\ observer[w].seen \in answers
  /\ ~Ignored(o, observer[w].seen)

ApplyIgnored(w) ==
  /\ observer[w].pc = "apply"
  /\ Ignored(observer[w].order, observer[w].seen)
  /\ Finish(w)
  /\ UNCHANGED <<orderVars, routeVars, floorVars, wireVars, sender, canceller, poller, envVars>>

\* "dispatched" only advances a pending order, "in_progress" spares a cancellation.
ApplyProgress(w, o) ==
  /\ Applying(w, o, {"dispatched", "in_progress"})
  /\ Finish(w)
  /\ status' = [status EXCEPT ![o] =
       IF \/ observer[w].seen = "in_progress" /\ @ \in Movable
          \/ observer[w].seen = "dispatched" /\ @ = "pending_dispatch"
       THEN observer[w].seen ELSE @]
  /\ UNCHANGED <<dispatch, rcs, recon, task, forced, routeVars, floorVars, wireVars,
                 sender, canceller, poller, envVars>>

\* _mark_order_terminal_without_move
ApplyEndedWithoutMove(w, o) ==
  /\ Applying(w, o, {"cancelled", "failed"})
  /\ \/ status[o] \in Movable
     \/ status[o] = "cancel_requested_total" /\ observer[w].seen = "cancelled"
  /\ Finish(w)
  /\ status' = [status EXCEPT ![o] = observer[w].seen]
  /\ rcs' = [rcs EXCEPT ![o] = observer[w].seen]
  /\ ReleaseRack(o)
  /\ UNCHANGED <<dispatch, recon, task, forced, routeVars, cellRack, wireVars,
                 sender, canceller, poller, envVars>>

\* A failed cancellation confirms nothing: the order stays as it is.
ApplyFailedCancellation(w, o) ==
  /\ Applying(w, o, {"failed"})
  /\ status[o] \in CancelRequested
  /\ Finish(w)
  /\ rcs' = [rcs EXCEPT ![o] = "failed"]
  /\ UNCHANGED <<status, dispatch, recon, task, forced, routeVars, floorVars, wireVars,
                 sender, canceller, poller, envVars>>

\* The task ended before the cancellation reached it: closed, rack released,
\* and the cells as they were before the move.
ApplyCompletedDespiteCancel(w, o) ==
  /\ Applying(w, o, {"completed"})
  /\ status[o] = "cancel_requested_total"
  /\ Finish(w)
  /\ status' = [status EXCEPT ![o] = "completed"]
  /\ rcs' = [rcs EXCEPT ![o] = "completed"]
  /\ recon' = [recon EXCEPT ![o] = FALSE]
  /\ ReleaseRack(o)
  /\ UNCHANGED <<dispatch, task, forced, routeVars, cellRack, wireVars,
                 sender, canceller, poller, envVars>>

\* First transaction of a completion: the evidence, and the rack held.
ApplyCompleted(w, o) ==
  /\ Applying(w, o, {"completed"})
  /\ status[o] \in Movable
  /\ Proceed(w, "move")
  /\ rcs' = [rcs EXCEPT ![o] = "completed"]
  /\ recon' = [recon EXCEPT ![o] = TRUE]
  /\ ReserveRack(o)
  /\ UNCHANGED <<status, dispatch, task, forced, routeVars, cellRack, wireVars,
                 sender, canceller, poller, envVars>>

\* The checks of simulate_order_completed (outside automatic-priority groups).
AlreadyMoved(o) == src[o] # dst[o] /\ cellRack[src[o]] = NoRack /\ cellRack[dst[o]] = rackOf[o]
MovePossible(o) ==
  /\ status[o] \in Movable
  /\ cellRack[src[o]] = rackOf[o] \/ AlreadyMoved(o)
  /\ \/ cellRack[dst[o]] = NoRack
     \/ (src[o] = dst[o] \/ AlreadyMoved(o)) /\ cellRack[dst[o]] = rackOf[o]

\* Its effect on the floor, under the lock it takes first.
MoveRack(o) ==
  /\ PlaceRack(rackOf[o], dst[o])
  /\ rackStatus' = [rackStatus EXCEPT ![rackOf[o]] =
                      IF OtherActive(o) THEN "reserved" ELSE "available"]

CompleteMove(w, o) ==
  /\ observer[w].pc = "move" /\ o = observer[w].order
  /\ MovePossible(o)
  /\ Proceed(w, "close")
  /\ MoveRack(o)
  /\ status' = [status EXCEPT ![o] = "completed"]
  /\ rcs' = [rcs EXCEPT ![o] = "completed"]
  /\ UNCHANGED <<dispatch, recon, task, forced, routeVars, wireVars,
                 sender, canceller, poller, envVars>>

\* The last transaction reads neither the order nor its evidence again; by now
\* the rack may belong to the next order.
CloseCompleted(w, o) ==
  /\ observer[w].pc = "close" /\ o = observer[w].order
  /\ Finish(w)
  /\ status' = [status EXCEPT ![o] = "completed"]
  /\ rcs' = [rcs EXCEPT ![o] = "completed"]
  /\ recon' = [recon EXCEPT ![o] = FALSE]
  /\ ReleaseRack(o)
  /\ UNCHANGED <<dispatch, task, forced, routeVars, cellRack, wireVars,
                 sender, canceller, poller, envVars>>

\* Another observer has completed the order.  Mutant: never noticed.
NeverReconciled(o) == FALSE
AlreadyCompleted(o) == status[o] = "completed"

(* simulate_order_completed raised, for one of its checks or because the     *)
(* database was busy.  The handler rolls back, reads the row again and,      *)
(* unless another observer has completed the order, writes "in_progress"     *)
(* over whatever status it finds.                                            *)
MoveRejected(w, o) ==
  /\ observer[w].pc = "move" /\ o = observer[w].order
  /\ Finish(w)
  /\ IF AlreadyCompleted(o)
     THEN /\ ReleaseRack(o)
          /\ recon' = [recon EXCEPT ![o] = FALSE]
          /\ UNCHANGED <<status, rcs>>
     ELSE /\ status' = [status EXCEPT ![o] = "in_progress"]
          /\ rcs' = [rcs EXCEPT ![o] = "completed"]
          /\ recon' = [recon EXCEPT ![o] = TRUE]
          /\ ReserveRack(o)
  /\ UNCHANGED <<dispatch, task, forced, routeVars, cellRack, wireVars,
                 sender, canceller, poller, envVars>>

-----------------------------------------------------------------------------
(* _finalize_cancel_return_undo *)

ApplyReturned(w, o) ==
  /\ Applying(w, o, {"completed", "cancelled"})
  /\ status[o] = "cancel_requested_undo"
  /\ Proceed(w, "position")
  /\ rcs' = [rcs EXCEPT ![o] = observer[w].seen]
  /\ recon' = [recon EXCEPT ![o] = TRUE]
  /\ ReserveRack(o)
  /\ UNCHANGED <<status, dispatch, task, forced, routeVars, cellRack, wireVars,
                 sender, canceller, poller, envVars>>

\* _reconcile_cancel_return_position: a free cell that no other order uses.
ReturnCellFree(o, c) ==
  /\ cellRack[c] \in {NoRack, rackOf[o]}
  /\ \A p \in Orders \ {o} : Active(p) => rackOf[p] # rackOf[o] /\ src[p] # c /\ dst[p] # c

CloseReturned(w, o, c) ==
  /\ observer[w].pc = "position" /\ o = observer[w].order
  /\ status[o] = "cancel_requested_undo"
  /\ ReturnCellFree(o, c)
  /\ Finish(w)
  /\ PlaceRack(rackOf[o], c)
  /\ status' = [status EXCEPT ![o] = observer[w].seen]
  /\ rcs' = [rcs EXCEPT ![o] = observer[w].seen]
  /\ recon' = [recon EXCEPT ![o] = FALSE]
  /\ ReleaseRack(o)
  /\ UNCHANGED <<dispatch, task, forced, routeVars, wireVars,
                 sender, canceller, poller, envVars>>

\* The position is unknown, foreign, taken or protected, or the query failed.
ReturnHeld(w, o) ==
  /\ observer[w].pc = "position" /\ o = observer[w].order
  /\ Finish(w)
  /\ recon' = [recon EXCEPT ![o] = @ \/ status[o] = "cancel_requested_undo"]
  /\ UNCHANGED <<status, dispatch, rcs, task, forced, routeVars, floorVars, wireVars,
                 sender, canceller, poller, envVars>>

MonitorNext ==
  \E w \in Observers :
    \/ Record(w) \/ ApplyIgnored(w)
    \/ \E o \in Orders :
         \/ Observe(w, o)
         \/ ApplyProgress(w, o) \/ ApplyEndedWithoutMove(w, o)
         \/ ApplyFailedCancellation(w, o) \/ ApplyCompletedDespiteCancel(w, o)
         \/ ApplyCompleted(w, o) \/ CompleteMove(w, o) \/ MoveRejected(w, o) \/ CloseCompleted(w, o)
         \/ ApplyReturned(w, o) \/ ReturnHeld(w, o)
         \/ \E c \in Cells : CloseReturned(w, o, c)
=============================================================================
