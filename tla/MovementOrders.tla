--------------------------- MODULE MovementOrders ---------------------------
(***************************************************************************)
(* The life of movement orders: dispatch, monitoring, cancellation and     *)
(* recovery interleaved over the shared tables, with restarts of the       *)
(* server at any point, and the properties that make the whole correct.    *)
(***************************************************************************)
EXTENDS OrderDispatch, OrderCancel, OrderRecovery

\* The process stops: every handler and thread is gone, every commit stays.
\* Startup touches no movement order of this model.
Restart ==
  /\ crashes < MaxCrashes
  /\ crashes' = crashes + 1
  /\ sender' = [o \in Orders |-> "idle"]
  /\ canceller' = [o \in Orders |-> "idle"]
  /\ poller' = [o \in Orders |-> "off"]
  /\ observer' = [w \in Observers |-> IdleObserver]
  /\ UNCHANGED <<orderVars, routeVars, floorVars, wireVars, overrides>>

Next == DispatchNext \/ MonitorNext \/ CancelNext \/ RecoveryNext \/ Restart

Spec == Init /\ [][Next]_vars

-----------------------------------------------------------------------------
(* Safety *)

\* An order in force: active, and not one an administrator closed by hand.
InForce(o) == Active(o) /\ ~forced[o]

\* No two orders in force move the same rack, whatever interleaving of claims,
\* rejections, late answers and reconciliations led there.
OneActivePerRack ==
  \A o, p \in Orders : InForce(o) /\ InForce(p) /\ rackOf[o] = rackOf[p] => o = p

\* No two orders in force are sent to the same destination cell; an order that
\* is being cancelled keeps its cell, since the robot may still arrive there.
DestinationExclusive ==
  \A o, p \in Orders : InForce(o) /\ InForce(p) /\ dst[o] = dst[p] => o = p

\* An order is closed only when its task in the RCS cannot move the rack any
\* more: no timeout, rejection, cancellation or restart orphans a live task,
\* not even one whose createTask request is still on its way.
NoOrphanTask ==
  \A o \in Orders : remote[o] \in RemoteLive /\ ~forced[o] => Active(o)

\* The creation of a task is requested at most once per order: across
\* timeouts, restarts and manual dispatches.
CreatePostedOnce == \A o \in Orders : createPosts[o] <= 1

\* While an order is in force its rack is not offered to anybody else.  Where a
\* cancellation with return was sent it may be: an answer that came before it may put
\* the order back in progress, and the position poll then releases the order's rack.
ReturnSent(o) == cancelPosts[o] > 0 /\ "undo" \in CancelKinds
RackHeldWhileActive ==
  \A o \in Orders : InForce(o) /\ ~ReturnSent(o) => rackStatus[rackOf[o]] = "reserved"

\* The inventory an order was claimed upon stays: until it closes, its rack
\* stands in its source cell and its destination stays free, whatever other
\* orders, simulated completions and position queries do meanwhile.  Two things
\* break it: a cancellation was sent, whose return places a rack wherever the RCS
\* says it stands, the destination of another order included; or an order closed by
\* hand was reopened by one late answer and completed by another.
CompletedLate(o) == forced[o] /\ status[o] = "completed"
RouteReady ==
  \A o \in Orders :
    InForce(o) /\ (\A p \in Orders : cancelPosts[p] = 0 /\ ~CompletedLate(p)) =>
      /\ cellRack[src[o]] = rackOf[o]
      /\ cellRack[dst[o]] = NoRack \/ dst[o] = src[o]

\* An order that the RCS or a compensation closed is never active again, although
\* answers to queries of its active days may still arrive.
ClosedIsFinal ==
  [][\A o \in Orders : Closed(o) /\ ~forced[o] => ~Active(o)']_vars

\* The same for a close by hand: later answers leave it alone (monitor_service.py:339).
LocalCloseIsFinal ==
  [][\A o \in Orders : Closed(o) /\ forced[o] => ~Active(o)']_vars

-----------------------------------------------------------------------------
(* Refinement: an order is a transport of the ledger. *)

Phase(o) == IF forced[o] THEN "overridden"
            ELSE IF status[o] = "none" THEN "free"
            ELSE IF Active(o) THEN "open" ELSE "closed"
Job(o) == IF remote[o] = "none" THEN "none"
          ELSE IF remote[o] \in RemoteLive THEN "live" ELSE "over"

Ledger == INSTANCE TransportLedger WITH
  Transports <- Orders,
  phase <- [o \in Orders |-> Phase(o)],
  job <- [o \in Orders |-> Job(o)],
  rack <- rackOf,
  cell <- dst

\* Every step of the detailed specification is a step of the ledger or none:
\* orders are opened exclusively, sent once, and closed only after their task.
LedgerSpec == Ledger!Spec

-----------------------------------------------------------------------------
(* Liveness *)

\* What the TaskMonitor thread does with an answer it has.
MonitorStep ==
  \/ Record(Monitor) \/ ApplyIgnored(Monitor)
  \/ \E o \in Orders :
       \/ ApplyProgress(Monitor, o) \/ ApplyEndedWithoutMove(Monitor, o)
       \/ ApplyFailedCancellation(Monitor, o) \/ ApplyCompletedDespiteCancel(Monitor, o)
       \/ ApplyCompleted(Monitor, o) \/ CompleteMove(Monitor, o) \/ MoveRejected(Monitor, o)
       \/ CloseCompleted(Monitor, o)
       \/ ApplyReturned(Monitor, o) \/ ReturnHeld(Monitor, o)
       \/ \E c \in Cells : CloseReturned(Monitor, o, c)

(* The thread goes on with what it began and queries every eligible order    *)
(* every three seconds; a busy database or a failed position query does not  *)
(* recur for ever.  No fairness for users, administrators or the RCS.        *)
MonitorFairness ==
  /\ WF_vars(MonitorStep)
  /\ \A o \in Orders :
       /\ SF_vars(Observe(Monitor, o))
       /\ SF_vars(CompleteMove(Monitor, o))
       /\ SF_vars(\E c \in Cells : CloseReturned(Monitor, o, c))

FairSpec == Spec /\ MonitorFairness

\* What the local inventory must allow for an ended task to be closed.
Reconcilable(o) ==
  /\ status[o] \in Movable /\ remote[o] = "completed" => MovePossible(o)
  /\ status[o] = "cancel_requested_undo" => \E c \in Cells : ReturnCellFree(o, c)

\* An order whose task was completed or cancelled in the RCS is closed in the
\* end, through failed moves, failed position queries, cancellations and
\* restarts, unless the inventory forbids it for good or it is closed by hand.
EndedTaskCloses ==
  \A o \in Orders :
    (InForce(o) /\ task[o] /\ remote[o] \in {"completed", "cancelled"})
      ~> (Closed(o) \/ forced[o] \/ ~Reconcilable(o))
=============================================================================
