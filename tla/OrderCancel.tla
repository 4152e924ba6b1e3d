----------------------------- MODULE OrderCancel -----------------------------
(***************************************************************************)
(* Cancelling an order (main._execute_cancel_for_order): a durable claim,  *)
(* one cancelTask request, and the thread that follows the rack back after *)
(* a cancel with return (main._rack_position_poll_worker).  At most one    *)
(* handler per order waits for a cancelTask reply.                         *)
(***************************************************************************)
EXTENDS OrderState

CancelStatus(kind) ==
  IF kind = "undo" THEN "cancel_requested_undo" ELSE "cancel_requested_total"

\* The conditional UPDATE before the network call.  A repeated request finds
\* the order in CancelRequested and returns without a step.
ClaimCancel(o, kind) ==
  /\ status[o] \in Movable /\ task[o]
  /\ canceller[o] = "idle" /\ cancelPosts[o] < MaxCancelPosts
  /\ status' = [status EXCEPT ![o] = CancelStatus(kind)]
  /\ rcs' = [rcs EXCEPT ![o] = "other"]
  /\ canceller' = [canceller EXCEPT ![o] = "claimed"]
  /\ UNCHANGED <<dispatch, recon, task, forced, routeVars, floorVars, wireVars,
                 sender, poller, observer, envVars>>

SendCancel(o) ==
  /\ canceller[o] = "claimed"
  /\ canceller' = [canceller EXCEPT ![o] = "waiting"]
  /\ cancelPosts' = [cancelPosts EXCEPT ![o] = @ + 1]
  /\ UNCHANGED <<orderVars, routeVars, floorVars, remote, createPosts,
                 sender, poller, observer, envVars>>

\* Every reply replaces the message, and rcs_status while the claim stands.
StoreReply(o) ==
  /\ canceller' = [canceller EXCEPT ![o] = "idle"]
  /\ recon' = [recon EXCEPT ![o] = FALSE]
  /\ rcs' = [rcs EXCEPT ![o] = IF status[o] \in CancelRequested THEN "other" ELSE @]

\* Mutant: acceptance by the RCS taken for the end of the task.
ClosedOnAcceptance(o) ==
  /\ canceller[o] = "waiting"
  /\ StoreReply(o)
  /\ status' = [status EXCEPT ![o] = IF @ \in CancelRequested THEN "cancelled" ELSE @]
  /\ ReleaseRack(o)
  /\ UNCHANGED <<dispatch, task, forced, routeVars, cellRack, wireVars,
                 sender, poller, observer, envVars>>
CancelAccepted(o) ==
  /\ canceller[o] = "waiting"
  /\ StoreReply(o)
  /\ IF status[o] \in CancelRequested
     THEN /\ ReserveRack(o)
          /\ poller' = [poller EXCEPT ![o] =
               IF status[o] = "cancel_requested_undo" /\ @ = "off" THEN "on" ELSE @]
     ELSE UNCHANGED <<rackStatus, poller>>
  /\ UNCHANGED <<status, dispatch, task, forced, routeVars, cellRack, wireVars,
                 sender, observer, envVars>>

\* The RCS refuses, or the call fails before or after it left.
CancelUnconfirmed(o) ==
  /\ canceller[o] \in {"claimed", "waiting"}
  /\ StoreReply(o)
  /\ UNCHANGED <<status, dispatch, task, forced, routeVars, floorVars, wireVars,
                 sender, poller, observer, envVars>>

-----------------------------------------------------------------------------
(* _rack_position_poll_worker: it reads the order, queries the position      *)
(* without a lock, and applies it to whatever the order is by then.          *)

PollStep(o, from, to) ==
  /\ poller[o] = from
  /\ poller' = [poller EXCEPT ![o] = to]

PollQuery(o) ==
  /\ PollStep(o, "on", IF status[o] \in CancelRequested THEN "query" ELSE "off")
  /\ UNCHANGED <<orderVars, routeVars, floorVars, wireVars, sender, canceller, observer, envVars>>

\* _apply_rcs_rack_position for this order: discarded for a closed order, an
\* error for a returning one whose cell is taken or whose end is recorded.
PollApplies(o, c) ==
  /\ ~Closed(o)
  /\ status[o] = "cancel_requested_undo" =>
       cellRack[c] \in {NoRack, rackOf[o]} /\ ~ReconciliationPending(o)

PollPosition(o, c) ==
  /\ PollStep(o, "query", "off")
  /\ PollApplies(o, c)
  /\ PlaceRack(rackOf[o], c)
  /\ IF status[o] \in CancelRequested THEN UNCHANGED rackStatus ELSE ReleaseRack(o)
  /\ UNCHANGED <<orderVars, routeVars, wireVars, sender, canceller, observer, envVars>>

PollMiss(o) ==
  /\ PollStep(o, "query", "on")
  /\ UNCHANGED <<orderVars, routeVars, floorVars, wireVars, sender, canceller, observer, envVars>>

PollTimeout(o) ==
  /\ PollStep(o, "on", "off")
  /\ UNCHANGED <<orderVars, routeVars, floorVars, wireVars, sender, canceller, observer, envVars>>

CancelNext ==
  \E o \in Orders :
    \/ \E kind \in CancelKinds : ClaimCancel(o, kind)
    \/ SendCancel(o) \/ CancelAccepted(o) \/ CancelUnconfirmed(o)
    \/ PollQuery(o) \/ PollMiss(o) \/ PollTimeout(o)
    \/ \E c \in Cells : PollPosition(o, c)
=============================================================================
