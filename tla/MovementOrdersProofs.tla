------------------------ MODULE MovementOrdersProofs ------------------------
(***************************************************************************)
(* Proofs, for any number of orders, racks, cells, observers,              *)
(* cancellations, overrides and restarts, that the movement orders keep    *)
(* their types, hold their rack and destination exclusively, find their    *)
(* rack reserved and their route as it was claimed, never orphan a task,   *)
(* request its creation once, and stay closed.                             *)
(***************************************************************************)
EXTENDS MovementOrders, TLAPS

Busy(w) == observer[w].pc # "idle"

\* A final answer stays true, an order under observation keeps its task, and
\* an order whose completion is being applied was not closed by anything else.
ObservationInv(w) ==
  Busy(w) =>
    LET o == observer[w].order
        seen == observer[w].seen
    IN /\ task[o]
       /\ seen \in RemoteDone => remote[o] = seen
       /\ observer[w].pc = "move" =>
            /\ seen = "completed"
            /\ forced[o] \/ Active(o) \/ status[o] = "completed"
       /\ observer[w].pc = "close" => seen = "completed" /\ status[o] = "completed"
       /\ observer[w].pc = "position" => seen \in {"completed", "cancelled"}
ObserverInv == \A w \in Observers : ObservationInv(w)

\* What dispatch_status says of the task and of its createTask request.
SendInv(o) ==
  /\ status[o] = "none" => dispatch[o] = "not_sent" /\ sender[o] = "idle" /\ ~forced[o]
  /\ task[o] => remote[o] \in RemoteTask
  /\ sender[o] \in {"claimed", "waiting"} => dispatch[o] = "uncertain" /\ ~task[o]
  /\ sender[o] = "claimed" =>
       remote[o] = "none" /\ createPosts[o] = 0 /\ (forced[o] \/ Active(o))
  /\ dispatch[o] = "not_sent" => remote[o] = "none" /\ createPosts[o] = 0
  /\ dispatch[o] = "error" /\ ~task[o] => remote[o] \in {"none", "refused"}
  /\ dispatch[o] = "success" => task[o]
DispatchInv == \A o \in Orders : SendInv(o)

Safe ==
  /\ OneActivePerRack
  /\ DestinationExclusive
  /\ NoOrphanTask
  /\ CreatePostedOnce

IInv == TypeOK /\ ObserverInv /\ DispatchInv /\ Safe

USE DEF orderVars, routeVars, floorVars, wireVars, procVars, envVars,
        Movable, CancelRequested, ReservationActive, TerminalLocal, Statuses,
        RemoteDone, RemoteTask, RemoteLive, RemoteStates, Answers

-----------------------------------------------------------------------------
(* Helpers: what an observer holds, and what a close by hand does. *)

Phases == {"record", "apply", "move", "close", "position"}

\* A busy observer holds a well-formed observation.
LEMMA ObserverType ==
  ASSUME TypeOK, NEW w \in Observers, Busy(w)
  PROVE  /\ observer[w] \in Observations
         /\ observer[w].order \in Orders
         /\ observer[w].seen \in Answers
         /\ observer[w].pc \in Phases
BY DEF TypeOK, Busy, Observations, IdleObserver, Phases

\* Moving on keeps the order and the answer, and touches no other observer.
LEMMA ProceedEffect ==
  ASSUME TypeOK, NEW w \in Observers, Busy(w), NEW pc \in Phases, Proceed(w, pc)
  PROVE  /\ observer' \in [Observers -> {IdleObserver} \cup Observations]
         /\ observer'[w] = [observer[w] EXCEPT !.pc = pc]
         /\ observer'[w].pc = pc
         /\ observer'[w].order = observer[w].order
         /\ observer'[w].seen = observer[w].seen
         /\ \A v \in Observers \ {w} : observer'[v] = observer[v]
<1>1. observer[w] \in Observations
  BY ObserverType
<1>2. observer' = [observer EXCEPT ![w] = [observer[w] EXCEPT !.pc = pc]]
  BY DEF Proceed
<1>3. [observer[w] EXCEPT !.pc = pc] \in Observations
  BY <1>1 DEF Observations, Phases
<1>4. observer \in [Observers -> {IdleObserver} \cup Observations]
  BY DEF TypeOK
<1>5. observer'[w] = [observer[w] EXCEPT !.pc = pc]
  BY <1>2, <1>4
<1>6. observer' \in [Observers -> {IdleObserver} \cup Observations]
  BY <1>2, <1>3, <1>4
<1>7. \A v \in Observers \ {w} : observer'[v] = observer[v]
  BY <1>2, <1>4
<1>8. /\ [observer[w] EXCEPT !.pc = pc].pc = pc
      /\ [observer[w] EXCEPT !.pc = pc].order = observer[w].order
      /\ [observer[w] EXCEPT !.pc = pc].seen = observer[w].seen
  BY <1>1 DEF Observations
<1>9. QED
  BY <1>5, <1>6, <1>7, <1>8

\* Finishing leaves one observer idle and the others alone.
LEMMA FinishEffect ==
  ASSUME TypeOK, NEW w \in Observers, Finish(w)
  PROVE  /\ observer' \in [Observers -> {IdleObserver} \cup Observations]
         /\ observer'[w].pc = "idle"
         /\ \A v \in Observers \ {w} : observer'[v] = observer[v]
BY DEF TypeOK, Finish, IdleObserver

\* A close by hand ends the active orders it names and no other.
LEMMA CloseByHandEffect ==
  ASSUME TypeOK, NEW S \in SUBSET {p \in Orders : Active(p)},
         NEW final \in [S -> TerminalLocal], CloseByHand(final)
  PROVE  /\ status' \in [Orders -> Statuses]
         /\ forced' \in [Orders -> BOOLEAN]
         /\ \A p \in S : status'[p] \in TerminalLocal /\ forced'[p]
         /\ \A p \in Orders \ S : status'[p] = status[p] /\ forced'[p] = forced[p]
<1>1. DOMAIN final = S /\ \A p \in S : final[p] \in TerminalLocal
  OBVIOUS
<1>2. status \in [Orders -> Statuses] /\ forced \in [Orders -> BOOLEAN]
  BY DEF TypeOK
<1>3. status' = [p \in Orders |-> IF p \in S THEN final[p] ELSE status[p]]
  BY <1>1 DEF CloseByHand
<1>4. forced' = [p \in Orders |-> forced[p] \/ p \in S]
  BY <1>1 DEF CloseByHand
<1>0. TerminalLocal \subseteq Statuses
  OBVIOUS
<1> HIDE DEF Statuses, TerminalLocal
<1>5. status' \in [Orders -> Statuses]
  BY <1>0, <1>1, <1>2, <1>3
<1>6. forced' \in [Orders -> BOOLEAN]
  BY <1>4
<1>7. /\ \A p \in S : status'[p] \in TerminalLocal /\ forced'[p]
      /\ \A p \in Orders \ S : status'[p] = status[p]
  BY <1>1, <1>3, <1>4
<1>8. \A p \in Orders \ S : forced'[p] = forced[p]
  BY <1>2, <1>4
<1>9. QED
  BY <1>5, <1>6, <1>7, <1>8

\* The status of a close by hand is a final one.
LEMMA ForcedStatusType ==
  ASSUME TypeOK, NEW o \in Orders
  PROVE  ForcedStatus(o) \in TerminalLocal
BY DEF TypeOK, ForcedStatus, Evidence

\* An administrator may close orders by hand, and leaves their tasks alone.
LEMMA RecoveryEffect ==
  ASSUME TypeOK, RecoveryNext
  PROVE  /\ status' \in [Orders -> Statuses]
         /\ forced' \in [Orders -> BOOLEAN]
         /\ \A p \in Orders : \/ Active(p) /\ status'[p] \in TerminalLocal /\ forced'[p]
                              \/ status'[p] = status[p] /\ forced'[p] = forced[p]
         /\ UNCHANGED <<dispatch, rcs, recon, task, routeVars, wireVars, procVars, crashes>>
<1> DEFINE Goal == /\ status' \in [Orders -> Statuses]
                   /\ forced' \in [Orders -> BOOLEAN]
                   /\ \A p \in Orders : \/ Active(p) /\ status'[p] \in TerminalLocal /\ forced'[p]
                                        \/ status'[p] = status[p] /\ forced'[p] = forced[p]
                   /\ UNCHANGED <<dispatch, rcs, recon, task, routeVars, wireVars, procVars,
                      crashes>>
<1>1. ASSUME NEW o \in Orders, ForceClose(o) PROVE Goal
  <2>0. {o} \in SUBSET {p \in Orders : Active(p)}
    BY <1>1 DEF ForceClose
  <2>1. PICK final \in {"forced_local_closed",
     ForcedStatus(o)} : CloseByHand([p \in {o} |-> final])
    BY <1>1 DEF ForceClose
  <2>2. [p \in {o} |-> final] \in [{o} -> TerminalLocal]
    BY ForcedStatusType
  <2>3. /\ status' \in [Orders -> Statuses] /\ forced' \in [Orders -> BOOLEAN]
        /\ status'[o] \in TerminalLocal /\ forced'[o]
        /\ \A p \in Orders \ {o} : status'[p] = status[p] /\ forced'[p] = forced[p]
    BY <2>0, <2>1, <2>2, CloseByHandEffect
  <2>4. QED
    BY <1>1, <2>0, <2>3 DEF ForceClose
<1>2. ASSUME NEW o \in Orders, CleanupClose(o) PROVE Goal
  <2>0. {o} \in SUBSET {p \in Orders : Active(p)}
    BY <1>2 DEF CleanupClose, CleanupEligible
  <2>1. [p \in {o} |-> IF rcs[p] = "failed" THEN "failed" ELSE "cancelled"] \in [{o} -> TerminalLocal]
    OBVIOUS
  <2>2. /\ status' \in [Orders -> Statuses] /\ forced' \in [Orders -> BOOLEAN]
        /\ status'[o] \in TerminalLocal /\ forced'[o]
        /\ \A p \in Orders \ {o} : status'[p] = status[p] /\ forced'[p] = forced[p]
    BY <1>2, <2>0, <2>1, CloseByHandEffect DEF CleanupClose
  <2>3. QED
    BY <1>2, <2>0, <2>2 DEF CleanupClose
<1>3. ASSUME NEW o \in Orders, SimulateComplete(o) PROVE Goal
  <2>0. {o} \in SUBSET {p \in Orders : Active(p)}
    BY <1>3 DEF SimulateComplete, MovePossible, Active
  <2>1. [p \in {o} |-> "simulated_completed"] \in [{o} -> TerminalLocal]
    OBVIOUS
  <2>2. /\ status' \in [Orders -> Statuses] /\ forced' \in [Orders -> BOOLEAN]
        /\ status'[o] \in TerminalLocal /\ forced'[o]
        /\ \A p \in Orders \ {o} : status'[p] = status[p] /\ forced'[p] = forced[p]
    BY <1>3, <2>0, <2>1, CloseByHandEffect DEF SimulateComplete
  <2>3. QED
    BY <1>3, <2>0, <2>2 DEF SimulateComplete
<1>4. ASSUME NEW r \in Racks, ReleaseByHand(r) PROVE Goal
  <2>1. ActiveOrdersOf(r) \in SUBSET {p \in Orders : Active(p)}
    BY DEF ActiveOrdersOf
  <2>2. [p \in ActiveOrdersOf(r) |-> ForcedStatus(p)] \in [ActiveOrdersOf(r) -> TerminalLocal]
    BY <2>1, ForcedStatusType
  <2>3. QED
    BY <1>4, <2>1, <2>2, CloseByHandEffect DEF ReleaseByHand
<1>5. ASSUME NEW r \in Racks, ReserveByHand(r) PROVE Goal
  BY <1>5 DEF ReserveByHand, TypeOK
<1>6. ASSUME NEW r \in Racks, NEW c \in Cells, PlaceByHand(r, c) PROVE Goal
  BY <1>6 DEF PlaceByHand, TypeOK
<1>7. QED
  BY <1>1, <1>2, <1>3, <1>4, <1>5, <1>6 DEF RecoveryNext

\* Releasing a rack keeps the type of racks.status.
LEMMA ReleaseRackType ==
  ASSUME TypeOK, NEW o \in Orders, ReleaseRack(o)
  PROVE  rackStatus' \in [Racks -> {"available", "reserved"}]
BY DEF TypeOK, ReleaseRack

\* Placing a rack keeps the type of locations.rack_id.
LEMMA PlaceRackType ==
  ASSUME TypeOK, NEW r \in Racks \cup {NoRack}, NEW c \in Cells, PlaceRack(r, c)
  PROVE  cellRack' \in [Cells -> Racks \cup {NoRack}]
BY DEF TypeOK, PlaceRack

\* So does the move that completes an order.
LEMMA MoveRackType ==
  ASSUME TypeOK, NEW o \in Orders, MoveRack(o)
  PROVE  /\ rackStatus' \in [Racks -> {"available", "reserved"}]
         /\ cellRack' \in [Cells -> Racks \cup {NoRack}]
<1>1. rackStatus' \in [Racks -> {"available", "reserved"}]
  <2>1. (IF OtherActive(o) THEN "reserved" ELSE "available") \in {"available", "reserved"}
    OBVIOUS
  <2>2. QED
    BY <2>1 DEF TypeOK, MoveRack
<1>2. cellRack' \in [Cells -> Racks \cup {NoRack}]
  BY DEF TypeOK, MoveRack, PlaceRack
<1>3. QED
  BY <1>1, <1>2

-----------------------------------------------------------------------------
(* Types *)

\* Creation, dispatch, compensation and the RCS keep the types.
LEMMA DispatchType == TypeOK /\ DispatchNext => TypeOK'
<1>1. ASSUME TypeOK, NEW o \in Orders, NEW r \in Racks, NEW s \in Cells, NEW d \in Cells,
             CreateOrder(o, r, s, d)
      PROVE  TypeOK'
  BY <1>1 DEF TypeOK, CreateOrder
<1>2. ASSUME TypeOK, NEW o \in Orders, ClaimDispatch(o)
      PROVE  TypeOK'
  BY <1>2 DEF TypeOK, ClaimDispatch
<1>3. ASSUME TypeOK, NEW o \in Orders, SendCreate(o)
      PROVE  TypeOK'
  BY <1>3 DEF TypeOK, SendCreate
<1>4. ASSUME TypeOK, NEW o \in Orders, CreateNotSent(o)
      PROVE  TypeOK'
  BY <1>4 DEF TypeOK, CreateNotSent, StoreOutcome
<1>5. ASSUME TypeOK, NEW o \in Orders, CreateAccepted(o)
      PROVE  TypeOK'
  BY <1>5 DEF TypeOK, CreateAccepted, StoreOutcome
<1>6. ASSUME TypeOK, NEW o \in Orders, CreateRejected(o)
      PROVE  TypeOK'
  BY <1>6 DEF TypeOK, CreateRejected, StoreOutcome
<1>7. ASSUME TypeOK, NEW o \in Orders, CreateUncertain(o)
      PROVE  TypeOK'
  BY <1>7 DEF TypeOK, CreateUncertain, StoreOutcome, Unsettled
<1>8. ASSUME TypeOK, NEW o \in Orders, Rollback(o)
      PROVE  TypeOK'
  <2>1. CASE CompensationDue(o)
    <3>1. rackStatus' \in [Racks -> {"available", "reserved"}]
      BY <1>8, <2>1, ReleaseRackType DEF Rollback, Compensate
    <3>2. /\ status' = [status EXCEPT ![o] = "dispatch_error"]
          /\ dispatch' = [dispatch EXCEPT ![o] = "error"]
          /\ rcs' = [rcs EXCEPT ![o] = "other"]
          /\ recon' = [recon EXCEPT ![o] = FALSE]
      BY <1>8, <2>1 DEF Rollback, Compensate
    <3>3. QED
      BY <1>8, <3>1, <3>2 DEF TypeOK, Rollback
  <2>2. CASE ~CompensationDue(o)
    BY <1>8, <2>2 DEF TypeOK, Rollback
  <2>3. QED
    BY <2>1, <2>2
<1>9. ASSUME TypeOK, NEW o \in Orders, ManualRollback(o)
      PROVE  TypeOK'
  BY <1>9, ReleaseRackType DEF TypeOK, ManualRollback, Compensate
<1>10. ASSUME TypeOK, NEW o \in Orders, RcsReceives(o)
      PROVE  TypeOK'
  BY <1>10 DEF TypeOK, RcsReceives, RcsStep
<1>11. ASSUME TypeOK, NEW o \in Orders, RcsStarts(o)
      PROVE  TypeOK'
  BY <1>11 DEF TypeOK, RcsStarts, RcsStep
<1>12. ASSUME TypeOK, NEW o \in Orders, RcsEnds(o)
      PROVE  TypeOK'
  BY <1>12 DEF TypeOK, RcsEnds, RcsStep
<1>13. QED BY <1>1, <1>2, <1>3, <1>4, <1>5, <1>6, <1>7, <1>8, <1>9, <1>10, <1>11,
     <1>12 DEF DispatchNext

\* Cancellations and position polls keep the types.
LEMMA CancelType == TypeOK /\ CancelNext => TypeOK'
<1>1. ASSUME TypeOK, NEW o \in Orders, NEW kind \in CancelKinds, ClaimCancel(o, kind)
      PROVE  TypeOK'
  BY <1>1 DEF TypeOK, ClaimCancel, CancelStatus
<1>2. ASSUME TypeOK, NEW o \in Orders, SendCancel(o)
      PROVE  TypeOK'
  BY <1>2 DEF TypeOK, SendCancel
<1>3. ASSUME TypeOK, NEW o \in Orders, CancelAccepted(o)
      PROVE  TypeOK'
  BY <1>3 DEF TypeOK, CancelAccepted, StoreReply, ReserveRack
<1>4. ASSUME TypeOK, NEW o \in Orders, CancelUnconfirmed(o)
      PROVE  TypeOK'
  BY <1>4 DEF TypeOK, CancelUnconfirmed, StoreReply
<1>5. ASSUME TypeOK, NEW o \in Orders, PollQuery(o)
      PROVE  TypeOK'
  BY <1>5 DEF TypeOK, PollQuery, PollStep
<1>6. ASSUME TypeOK, NEW o \in Orders, PollMiss(o)
      PROVE  TypeOK'
  BY <1>6 DEF TypeOK, PollMiss, PollStep
<1>7. ASSUME TypeOK, NEW o \in Orders, PollTimeout(o)
      PROVE  TypeOK'
  BY <1>7 DEF TypeOK, PollTimeout, PollStep
<1>8. ASSUME TypeOK, NEW o \in Orders, NEW c \in Cells, PollPosition(o, c)
      PROVE  TypeOK'
  BY <1>8 DEF TypeOK, PollPosition, PollStep, PlaceRack, ReleaseRack
<1>9. QED BY <1>1, <1>2, <1>3, <1>4, <1>5, <1>6, <1>7, <1>8 DEF CancelNext

\* Status queries keep the types, given what an observer holds.
LEMMA MonitorType == TypeOK /\ ObserverInv /\ DispatchInv /\ MonitorNext => TypeOK'
<1>1. ASSUME TypeOK /\ ObserverInv /\ DispatchInv, NEW w \in Observers, Record(w)
      PROVE  TypeOK'
  <2>1. Busy(w)
    BY <1>1 DEF Record, Busy
  <2>2. observer' \in [Observers -> {IdleObserver} \cup Observations]
    BY <1>1, <2>1, ProceedEffect DEF Record, Phases
  <2>3. dispatch' \in [Orders -> {"not_sent", "uncertain", "success", "error"}]
    BY <1>1 DEF TypeOK, Record
  <2>4. rcs' \in [Orders -> {"other"} \cup RemoteDone]
    BY <1>1 DEF TypeOK, Record, RcsValue
  <2>5. recon' \in [Orders -> BOOLEAN]
    <3>1. \E b \in BOOLEAN : recon' \in {recon, [recon EXCEPT ![observer[w].order] = b]}
      BY <1>1, Zenon DEF Record
    <3>2. PICK b \in BOOLEAN : recon' \in {recon, [recon EXCEPT ![observer[w].order] = b]}
      BY <3>1
    <3>3. QED
      BY <1>1, <3>2 DEF TypeOK
  <2>6. QED
    BY <1>1, <2>2, <2>3, <2>4, <2>5 DEF TypeOK, Record
<1>2. ASSUME TypeOK /\ ObserverInv /\ DispatchInv, NEW w \in Observers, ApplyIgnored(w)
      PROVE  TypeOK'
  BY <1>2 DEF TypeOK, Observations, IdleObserver, ApplyIgnored, Finish
<1>3. ASSUME TypeOK /\ ObserverInv /\ DispatchInv, NEW w \in Observers, NEW o \in Orders,
             Observe(w, o)
      PROVE  TypeOK'
  <2>1. Answer(o) \in Answers
    BY <1>3 DEF Observe, Answer, DispatchInv, SendInv
  <2>2. [pc |-> "record", order |-> o, seen |-> Answer(o)] \in Observations
    BY <2>1 DEF Observations
  <2>3. QED
    BY <1>3, <2>2 DEF TypeOK, Observe
<1>4. ASSUME TypeOK /\ ObserverInv /\ DispatchInv, NEW w \in Observers, NEW o \in Orders,
             ApplyProgress(w, o)
      PROVE  TypeOK'
  BY <1>4 DEF TypeOK, Observations, IdleObserver, ApplyProgress, Applying, Finish
<1>5. ASSUME TypeOK /\ ObserverInv /\ DispatchInv, NEW w \in Observers, NEW o \in Orders,
             ApplyEndedWithoutMove(w, o)
      PROVE  TypeOK'
  BY <1>5 DEF TypeOK, Observations, IdleObserver, ApplyEndedWithoutMove, Applying, Finish,
     ReleaseRack
<1>6. ASSUME TypeOK /\ ObserverInv /\ DispatchInv, NEW w \in Observers, NEW o \in Orders,
             ApplyFailedCancellation(w, o)
      PROVE  TypeOK'
  BY <1>6 DEF TypeOK, Observations, IdleObserver, ApplyFailedCancellation, Applying, Finish
<1>7. ASSUME TypeOK /\ ObserverInv /\ DispatchInv, NEW w \in Observers, NEW o \in Orders,
             ApplyCompletedDespiteCancel(w, o)
      PROVE  TypeOK'
  BY <1>7 DEF TypeOK, Observations, IdleObserver, ApplyCompletedDespiteCancel, Applying, Finish,
     ReleaseRack
<1>8. ASSUME TypeOK /\ ObserverInv /\ DispatchInv, NEW w \in Observers, NEW o \in Orders,
             ApplyCompleted(w, o)
      PROVE  TypeOK'
  <2>1. observer' \in [Observers -> {IdleObserver} \cup Observations]
    BY <1>8, ProceedEffect DEF ApplyCompleted, Applying, Busy, Phases
  <2>2. QED
    BY <1>8, <2>1 DEF TypeOK, ApplyCompleted, Applying, ReserveRack
<1>9. ASSUME TypeOK /\ ObserverInv /\ DispatchInv, NEW w \in Observers, NEW o \in Orders,
             CompleteMove(w, o)
      PROVE  TypeOK'
  <2>1. observer' \in [Observers -> {IdleObserver} \cup Observations]
    BY <1>9, ProceedEffect DEF CompleteMove, Busy, Phases
  <2>2. QED
    BY <1>9, <2>1, MoveRackType DEF TypeOK, CompleteMove
<1>10. ASSUME TypeOK /\ ObserverInv /\ DispatchInv, NEW w \in Observers, NEW o \in Orders,
              MoveRejected(w, o)
      PROVE  TypeOK'
  <2>1. observer' \in [Observers -> {IdleObserver} \cup Observations]
    BY <1>10, FinishEffect DEF MoveRejected
  <2>2. CASE AlreadyCompleted(o)
    <3>1. rackStatus' \in [Racks -> {"available", "reserved"}]
      BY <1>10, <2>2, ReleaseRackType DEF MoveRejected
    <3>2. status' = status /\ rcs' = rcs /\ recon' = [recon EXCEPT ![o] = FALSE]
      BY <1>10, <2>2 DEF MoveRejected
    <3>3. QED
      BY <1>10, <2>1, <3>1, <3>2 DEF TypeOK, MoveRejected
  <2>3. CASE ~AlreadyCompleted(o)
    <3>1. /\ status' = [status EXCEPT ![o] = "in_progress"]
          /\ rcs' = [rcs EXCEPT ![o] = "completed"]
          /\ recon' = [recon EXCEPT ![o] = TRUE]
          /\ rackStatus' = [rackStatus EXCEPT ![rackOf[o]] = "reserved"]
      BY <1>10, <2>3 DEF MoveRejected, ReserveRack
    <3>2. QED
      BY <1>10, <2>1, <3>1 DEF TypeOK, MoveRejected
  <2>4. QED
    BY <2>2, <2>3
<1>11. ASSUME TypeOK /\ ObserverInv /\ DispatchInv, NEW w \in Observers, NEW o \in Orders,
              ApplyReturned(w, o)
      PROVE  TypeOK'
  <2>1. observer' \in [Observers -> {IdleObserver} \cup Observations]
    BY <1>11, ProceedEffect DEF ApplyReturned, Applying, Busy, Phases
  <2>2. QED
    BY <1>11, <2>1 DEF TypeOK, ApplyReturned, Applying, ReserveRack
<1>12. ASSUME TypeOK /\ ObserverInv /\ DispatchInv, NEW w \in Observers, NEW o \in Orders,
              NEW c \in Cells, CloseReturned(w, o, c)
      PROVE  TypeOK'
  <2>1. observer' \in [Observers -> {IdleObserver} \cup Observations]
    BY <1>12, FinishEffect DEF CloseReturned
  <2>2. observer[w].seen \in {"completed", "cancelled"}
    BY <1>12 DEF CloseReturned, ObserverInv, ObservationInv, Busy
  <2>3. rackStatus' \in [Racks -> {"available", "reserved"}]
    BY <1>12, ReleaseRackType DEF CloseReturned
  <2>4. cellRack' \in [Cells -> Racks \cup {NoRack}]
    BY <1>12 DEF TypeOK, CloseReturned, PlaceRack
  <2>5. QED
    BY <1>12, <2>1, <2>2, <2>3, <2>4 DEF TypeOK, CloseReturned
<1>13. ASSUME TypeOK /\ ObserverInv /\ DispatchInv, NEW w \in Observers, NEW o \in Orders,
              ReturnHeld(w, o)
      PROVE  TypeOK'
  BY <1>13 DEF TypeOK, Observations, IdleObserver, ReturnHeld, Finish
<1>14. ASSUME TypeOK /\ ObserverInv /\ DispatchInv, NEW w \in Observers, NEW o \in Orders,
              CloseCompleted(w, o)
      PROVE  TypeOK'
  <2>1. observer' \in [Observers -> {IdleObserver} \cup Observations]
    BY <1>14, FinishEffect DEF CloseCompleted
  <2>2. QED
    BY <1>14, <2>1, ReleaseRackType DEF TypeOK, CloseCompleted
<1>15. QED BY <1>1, <1>2, <1>3, <1>4, <1>5, <1>6, <1>7, <1>8, <1>9, <1>10, <1>11, <1>12, <1>13,
     <1>14 DEF MonitorNext

\* Administrators keep the types.
LEMMA RecoveryType == TypeOK /\ RecoveryNext => TypeOK'
<1>1. ASSUME TypeOK, RecoveryNext
      PROVE  /\ rackStatus' \in [Racks -> {"available", "reserved"}]
             /\ cellRack' \in [Cells -> Racks \cup {NoRack}]
             /\ overrides' \in Nat
  <2>1. CASE \E o \in Orders : ForceClose(o) \/ CleanupClose(o)
    BY <1>1, <2>1, ReleaseRackType DEF ForceClose, CleanupClose, TypeOK
  <2>2. CASE \E o \in Orders : SimulateComplete(o)
    BY <1>1, <2>2, MoveRackType DEF SimulateComplete, TypeOK
  <2>3. CASE \E r \in Racks : ReleaseByHand(r) \/ ReserveByHand(r)
    BY <1>1, <2>3 DEF ReleaseByHand, ReserveByHand, TypeOK
  <2>4. CASE \E r \in Racks, c \in Cells : PlaceByHand(r, c)
    BY <1>1, <2>4 DEF PlaceByHand, PlaceRack, TypeOK
  <2>5. QED
    BY <1>1, <2>1, <2>2, <2>3, <2>4 DEF RecoveryNext
<1>2. QED
  BY <1>1, RecoveryEffect DEF TypeOK

-----------------------------------------------------------------------------
(* What one step may do to an order. *)

\* It is created, alone in the step, with a rack and a destination nobody holds.
Created(o) ==
  /\ status[o] = "none"
  /\ status' = [status EXCEPT ![o] = "pending_dispatch"]
  /\ rackOf'[o] \in Racks /\ dst'[o] \in Cells
  /\ \A p \in Orders : Active(p) => rackOf[p] # rackOf'[o] /\ dst[p] # dst'[o]

\* It is created, goes on, ends as its task did, is compensated because the RCS
\* has no task for it, or is in the hands of an administrator.
StatusStep(o) ==
  \/ status'[o] = status[o]
  \/ Created(o)
  \/ Active(o) /\ Active(o)'
  \/ Active(o) /\ remote[o] \in RemoteDone /\ status'[o] = remote[o]
  \/ /\ ~task[o] /\ dispatch[o] # "uncertain" /\ status[o] # "none"
     /\ status'[o] = "dispatch_error"
  \/ Active(o) /\ Closed(o)' /\ forced'[o]
  \/ forced[o] /\ status[o] # "completed" /\ status'[o] # "none"

\* Its task moves forward, and is requested only under the dispatch claim.
TaskStep(o) ==
  \/ remote'[o] = remote[o]
  \/ /\ status'[o] = status[o] /\ forced'[o] = forced[o]
     /\ \/ remote[o] = "none" /\ remote'[o] = "inflight" /\ sender[o] = "claimed"
        \/ remote[o] = "inflight" /\ remote'[o] \in {"created", "refused"}
        \/ remote[o] \in {"created", "running"} /\ remote'[o] \in RemoteTask

OrderStep(o) ==
  /\ StatusStep(o)
  /\ TaskStep(o)
  /\ \/ createPosts'[o] = createPosts[o]
     \/ sender[o] = "claimed" /\ createPosts'[o] = createPosts[o] + 1
  /\ Created(o) \/ UNCHANGED <<rackOf[o], dst[o]>>
  /\ task[o] => task'[o]
  /\ forced'[o] = forced[o] \/ (forced'[o] /\ Active(o))

\* A step of the dispatch, or of the RCS, is an order step.
LEMMA DispatchOrderStep == IInv /\ DispatchNext => \A p \in Orders : OrderStep(p)
<1>1. ASSUME IInv, NEW o \in Orders, NEW r \in Racks, NEW s \in Cells, NEW d \in Cells,
             CreateOrder(o, r, s, d)
      PROVE  \A p \in Orders : OrderStep(p)
  <2>1. Created(o)
    BY <1>1 DEF Created, CreateOrder, IInv, TypeOK, RackClaimable, ActiveOrdersOf,
       ReservedDestinations
  <2>2. OrderStep(o)
    BY <1>1, <2>1 DEF OrderStep, StatusStep, TaskStep, CreateOrder
  <2>3. \A p \in Orders \ {o} : OrderStep(p)
    BY <1>1 DEF IInv, TypeOK, OrderStep, StatusStep, TaskStep, CreateOrder
  <2>4. QED
    BY <2>2, <2>3
<1>2. ASSUME IInv, NEW o \in Orders, ClaimDispatch(o)
      PROVE  \A p \in Orders : OrderStep(p)
  BY <1>2 DEF IInv, TypeOK, OrderStep, StatusStep, TaskStep, Active, ClaimDispatch
<1>3. ASSUME IInv, NEW o \in Orders, SendCreate(o)
      PROVE  \A p \in Orders : OrderStep(p)
  BY <1>3 DEF IInv, TypeOK, OrderStep, StatusStep, TaskStep, Active, SendCreate
<1>4. ASSUME IInv, NEW o \in Orders, CreateNotSent(o)
      PROVE  \A p \in Orders : OrderStep(p)
  BY <1>4 DEF IInv, TypeOK, OrderStep, StatusStep, TaskStep, Active, CreateNotSent, StoreOutcome
<1>5. ASSUME IInv, NEW o \in Orders, CreateAccepted(o)
      PROVE  \A p \in Orders : OrderStep(p)
  BY <1>5 DEF IInv, TypeOK, OrderStep, StatusStep, TaskStep, Active, CreateAccepted, StoreOutcome
<1>6. ASSUME IInv, NEW o \in Orders, CreateRejected(o)
      PROVE  \A p \in Orders : OrderStep(p)
  BY <1>6 DEF IInv, TypeOK, OrderStep, StatusStep, TaskStep, Active, CreateRejected, StoreOutcome
<1>7. ASSUME IInv, NEW o \in Orders, CreateUncertain(o)
      PROVE  \A p \in Orders : OrderStep(p)
  BY <1>7 DEF IInv, TypeOK, OrderStep, StatusStep, TaskStep, Active, CreateUncertain,
     StoreOutcome, Unsettled
<1>8. ASSUME IInv, NEW o \in Orders, Rollback(o)
      PROVE  \A p \in Orders : OrderStep(p)
  BY <1>8 DEF IInv, TypeOK, OrderStep, StatusStep, TaskStep, Active, DispatchInv, SendInv,
     Rollback, Compensate, CompensationDue
<1>9. ASSUME IInv, NEW o \in Orders, ManualRollback(o)
      PROVE  \A p \in Orders : OrderStep(p)
  BY <1>9 DEF IInv, TypeOK, OrderStep, StatusStep, TaskStep, Active, DispatchInv, SendInv,
     ManualRollback, Compensate, CompensationDue
<1>10. ASSUME IInv, NEW o \in Orders, RcsReceives(o)
      PROVE  \A p \in Orders : OrderStep(p)
  BY <1>10 DEF IInv, TypeOK, OrderStep, StatusStep, TaskStep, Active, RcsReceives, RcsStep
<1>11. ASSUME IInv, NEW o \in Orders, RcsStarts(o)
      PROVE  \A p \in Orders : OrderStep(p)
  BY <1>11 DEF IInv, TypeOK, OrderStep, StatusStep, TaskStep, Active, RcsStarts, RcsStep
<1>12. ASSUME IInv, NEW o \in Orders, RcsEnds(o)
      PROVE  \A p \in Orders : OrderStep(p)
  BY <1>12 DEF IInv, TypeOK, OrderStep, StatusStep, TaskStep, Active, RcsEnds, RcsStep
<1>13. QED BY <1>1, <1>2, <1>3, <1>4, <1>5, <1>6, <1>7, <1>8, <1>9, <1>10, <1>11,
     <1>12 DEF DispatchNext

\* A step of a cancellation is an order step.
LEMMA CancelOrderStep == IInv /\ CancelNext => \A p \in Orders : OrderStep(p)
<1>1. ASSUME IInv, NEW o \in Orders, NEW kind \in CancelKinds, ClaimCancel(o, kind)
      PROVE  \A p \in Orders : OrderStep(p)
  BY <1>1 DEF IInv, TypeOK, OrderStep, StatusStep, TaskStep, Active, ClaimCancel, CancelStatus
<1>2. ASSUME IInv, NEW o \in Orders, SendCancel(o)
      PROVE  \A p \in Orders : OrderStep(p)
  BY <1>2 DEF IInv, TypeOK, OrderStep, StatusStep, TaskStep, Active, SendCancel
<1>3. ASSUME IInv, NEW o \in Orders, CancelAccepted(o)
      PROVE  \A p \in Orders : OrderStep(p)
  BY <1>3 DEF IInv, TypeOK, OrderStep, StatusStep, TaskStep, Active, CancelAccepted, StoreReply
<1>4. ASSUME IInv, NEW o \in Orders, CancelUnconfirmed(o)
      PROVE  \A p \in Orders : OrderStep(p)
  BY <1>4 DEF IInv, TypeOK, OrderStep, StatusStep, TaskStep, Active, CancelUnconfirmed, StoreReply
<1>5. ASSUME IInv, NEW o \in Orders, PollQuery(o)
      PROVE  \A p \in Orders : OrderStep(p)
  BY <1>5 DEF IInv, TypeOK, OrderStep, StatusStep, TaskStep, Active, PollQuery
<1>6. ASSUME IInv, NEW o \in Orders, PollMiss(o)
      PROVE  \A p \in Orders : OrderStep(p)
  BY <1>6 DEF IInv, TypeOK, OrderStep, StatusStep, TaskStep, Active, PollMiss
<1>7. ASSUME IInv, NEW o \in Orders, PollTimeout(o)
      PROVE  \A p \in Orders : OrderStep(p)
  BY <1>7 DEF IInv, TypeOK, OrderStep, StatusStep, TaskStep, Active, PollTimeout
<1>8. ASSUME IInv, NEW o \in Orders, NEW c \in Cells, PollPosition(o, c)
      PROVE  \A p \in Orders : OrderStep(p)
  BY <1>8 DEF IInv, TypeOK, OrderStep, StatusStep, TaskStep, Active, PollPosition
<1>9. QED BY <1>1, <1>2, <1>3, <1>4, <1>5, <1>6, <1>7, <1>8 DEF CancelNext

\* A step of an observer is an order step, since answers are never refuted.
LEMMA MonitorOrderStep == IInv /\ MonitorNext => \A p \in Orders : OrderStep(p)
<1>1. ASSUME IInv, NEW w \in Observers, Record(w)
      PROVE  \A p \in Orders : OrderStep(p)
  BY <1>1 DEF IInv, TypeOK, OrderStep, StatusStep, TaskStep, Active, Record
<1>2. ASSUME IInv, NEW w \in Observers, ApplyIgnored(w)
      PROVE  \A p \in Orders : OrderStep(p)
  BY <1>2 DEF IInv, TypeOK, OrderStep, StatusStep, TaskStep, Active, ApplyIgnored
<1>3. ASSUME IInv, NEW w \in Observers, NEW o \in Orders, Observe(w, o)
      PROVE  \A p \in Orders : OrderStep(p)
  BY <1>3 DEF IInv, TypeOK, OrderStep, StatusStep, TaskStep, Active, Observe
<1>4. ASSUME IInv, NEW w \in Observers, NEW o \in Orders, ApplyProgress(w, o)
      PROVE  \A p \in Orders : OrderStep(p)
  BY <1>4 DEF IInv, TypeOK, OrderStep, StatusStep, TaskStep, Active, ApplyProgress, Applying
<1>5. ASSUME IInv, NEW w \in Observers, NEW o \in Orders, ApplyEndedWithoutMove(w, o)
      PROVE  \A p \in Orders : OrderStep(p)
  BY <1>5 DEF IInv, TypeOK, OrderStep, StatusStep, TaskStep, Active,
     ObserverInv, ObservationInv, Busy, ApplyEndedWithoutMove, Applying
<1>6. ASSUME IInv, NEW w \in Observers, NEW o \in Orders, ApplyFailedCancellation(w, o)
      PROVE  \A p \in Orders : OrderStep(p)
  BY <1>6 DEF IInv, TypeOK, OrderStep, StatusStep, TaskStep, Active, ApplyFailedCancellation,
     Applying
<1>7. ASSUME IInv, NEW w \in Observers, NEW o \in Orders, ApplyCompletedDespiteCancel(w, o)
      PROVE  \A p \in Orders : OrderStep(p)
  BY <1>7 DEF IInv, TypeOK, OrderStep, StatusStep, TaskStep, Active,
     ObserverInv, ObservationInv, Busy, ApplyCompletedDespiteCancel, Applying
<1>8. ASSUME IInv, NEW w \in Observers, NEW o \in Orders, ApplyCompleted(w, o)
      PROVE  \A p \in Orders : OrderStep(p)
  BY <1>8 DEF IInv, TypeOK, OrderStep, StatusStep, TaskStep, Active, ApplyCompleted, Applying
<1>9. ASSUME IInv, NEW w \in Observers, NEW o \in Orders, CompleteMove(w, o)
      PROVE  \A p \in Orders : OrderStep(p)
  BY <1>9 DEF IInv, TypeOK, OrderStep, StatusStep, TaskStep, Active,
     ObserverInv, ObservationInv, Busy, CompleteMove, MovePossible
<1>10. ASSUME IInv, NEW w \in Observers, NEW o \in Orders, MoveRejected(w, o)
      PROVE  \A p \in Orders : OrderStep(p)
  BY <1>10 DEF IInv, TypeOK, OrderStep, StatusStep, TaskStep, Active,
     ObserverInv, ObservationInv, Busy, MoveRejected, AlreadyCompleted
<1>11. ASSUME IInv, NEW w \in Observers, NEW o \in Orders, ApplyReturned(w, o)
      PROVE  \A p \in Orders : OrderStep(p)
  BY <1>11 DEF IInv, TypeOK, OrderStep, StatusStep, TaskStep, Active, ApplyReturned, Applying
<1>12. ASSUME IInv, NEW w \in Observers, NEW o \in Orders, NEW c \in Cells, CloseReturned(w, o, c)
      PROVE  \A p \in Orders : OrderStep(p)
  BY <1>12 DEF IInv, TypeOK, OrderStep, StatusStep, TaskStep, Active,
     ObserverInv, ObservationInv, Busy, CloseReturned
<1>13. ASSUME IInv, NEW w \in Observers, NEW o \in Orders, ReturnHeld(w, o)
      PROVE  \A p \in Orders : OrderStep(p)
  BY <1>13 DEF IInv, TypeOK, OrderStep, StatusStep, TaskStep, Active, ReturnHeld
<1>14. ASSUME IInv, NEW w \in Observers, NEW o \in Orders, CloseCompleted(w, o)
      PROVE  \A p \in Orders : OrderStep(p)
  BY <1>14 DEF IInv, TypeOK, OrderStep, StatusStep, TaskStep, Active,
     ObserverInv, ObservationInv, Busy, CloseCompleted
<1>15. QED BY <1>1, <1>2, <1>3, <1>4, <1>5, <1>6, <1>7, <1>8, <1>9, <1>10, <1>11, <1>12, <1>13,
     <1>14 DEF MonitorNext

\* A step of an administrator is an order step.
LEMMA RecoveryOrderStep == IInv /\ RecoveryNext => \A p \in Orders : OrderStep(p)
BY RecoveryEffect DEF IInv, OrderStep, StatusStep, TaskStep, Active, Closed

-----------------------------------------------------------------------------
(* DispatchInv *)

\* A cancellation touches neither tasks nor observers.
LEMMA CancelEffect ==
  CancelNext => UNCHANGED <<dispatch, task, forced, routeVars, remote, createPosts, sender,
     observer>>
BY DEF CancelNext, ClaimCancel, SendCancel, CancelAccepted, CancelUnconfirmed, StoreReply,
       PollQuery, PollMiss, PollTimeout, PollPosition, PollStep

\* Status queries only learn of a task that is known already.
LEMMA MonitorEffect ==
  ASSUME IInv, MonitorNext
  PROVE  /\ UNCHANGED <<task, forced, routeVars, wireVars, sender>>
         /\ \A p \in Orders : dispatch'[p] # dispatch[p] => dispatch'[p] = "success" /\ task[p]
<1>1. CASE \E w \in Observers : Record(w)
  <2>1. PICK w \in Observers : Record(w)
    BY <1>1
  <2>2. task[observer[w].order]
    BY <2>1 DEF IInv, ObserverInv, ObservationInv, Busy, Record
  <2>3. QED
    BY <2>1, <2>2 DEF IInv, TypeOK, Record
<1>2. CASE ~\E w \in Observers : Record(w)
  BY <1>2 DEF MonitorNext, Observe, ApplyIgnored, ApplyProgress, ApplyEndedWithoutMove,
     ApplyFailedCancellation, ApplyCompletedDespiteCancel, ApplyCompleted, CompleteMove,
     MoveRejected, CloseCompleted, ApplyReturned, CloseReturned, ReturnHeld
<1>3. QED
  BY <1>1, <1>2

\* Whoever leaves tasks and senders alone keeps what dispatch_status says.
LEMMA DispatchInvKept ==
  ASSUME IInv, UNCHANGED <<task, remote, createPosts>>,
         \A p \in Orders : sender'[p] \in {sender[p], "idle"},
         \A p \in Orders : OrderStep(p),
         \A p \in Orders : dispatch'[p] # dispatch[p] => dispatch'[p] = "success" /\ task[p]
  PROVE  DispatchInv'
<1> SUFFICES ASSUME NEW p \in Orders PROVE SendInv(p)'
  BY DEF DispatchInv
<1>1. SendInv(p) /\ OrderStep(p) /\ sender[p] \in {"idle", "claimed", "waiting", "rejected"}
  BY DEF IInv, TypeOK, DispatchInv
<1>2. status'[p] = "none" => status[p] = "none"
  BY <1>1 DEF OrderStep, StatusStep, Created, Active, Closed, IInv, TypeOK
<1>3. status'[p] = "none" => dispatch'[p] = "not_sent" /\ sender'[p] = "idle" /\ ~forced'[p]
  BY <1>1, <1>2 DEF SendInv, OrderStep, Active
<1>4. sender'[p] = "claimed" => forced'[p] \/ Active(p)'
  <2>1. SUFFICES ASSUME sender[p] = "claimed" PROVE forced'[p] \/ Active(p)'
    BY <1>1
  <2>2. remote[p] = "none" /\ dispatch[p] = "uncertain" /\ (forced[p] \/ Active(p))
    BY <1>1, <2>1 DEF SendInv
  <2>3. QED
    BY <1>1, <2>2 DEF OrderStep, StatusStep, Created, Active
<1>5. QED
  BY <1>1, <1>3, <1>4 DEF SendInv

\* The dispatch keeps what dispatch_status says.
LEMMA DispatchDispatchInv == IInv /\ DispatchNext => DispatchInv'
<1>1. ASSUME IInv, NEW o \in Orders, NEW r \in Racks, NEW s \in Cells, NEW d \in Cells,
             CreateOrder(o, r, s, d)
      PROVE  DispatchInv'
  BY <1>1 DEF IInv, TypeOK, DispatchInv, SendInv, Active, CreateOrder
<1>2. ASSUME IInv, NEW o \in Orders, ClaimDispatch(o)
      PROVE  DispatchInv'
  <2>1. SendInv(o) /\ \A p \in Orders \ {o} : SendInv(p)
    BY <1>2 DEF IInv, DispatchInv
  <2>2. /\ dispatch'[o] = "uncertain" /\ sender'[o] = "claimed"
        /\ status[o] = "pending_dispatch" /\ dispatch[o] = "not_sent" /\ ~task[o]
        /\ UNCHANGED <<status, forced, task, remote, createPosts>>
    BY <1>2 DEF IInv, TypeOK, ClaimDispatch, NeverAttempted
  <2>3. SendInv(o)'
    BY <2>1, <2>2 DEF SendInv, Active
  <2>4. \A p \in Orders \ {o} : SendInv(p)'
    BY <1>2, <2>1 DEF IInv, TypeOK, SendInv, Active, ClaimDispatch
  <2>5. QED
    BY <2>3, <2>4 DEF DispatchInv
<1>3. ASSUME IInv, NEW o \in Orders, SendCreate(o)
      PROVE  DispatchInv'
  BY <1>3 DEF IInv, TypeOK, DispatchInv, SendInv, Active, SendCreate
<1>4. ASSUME IInv, NEW o \in Orders, CreateNotSent(o)
      PROVE  DispatchInv'
  BY <1>4 DEF IInv, TypeOK, DispatchInv, SendInv, Active, CreateNotSent, StoreOutcome
<1>5. ASSUME IInv, NEW o \in Orders, CreateAccepted(o)
      PROVE  DispatchInv'
  <2>1. SendInv(o) /\ \A p \in Orders \ {o} : SendInv(p)
    BY <1>5 DEF IInv, DispatchInv
  <2>2. /\ dispatch'[o] = "success" /\ task'[o] /\ sender'[o] = "idle"
        /\ sender[o] = "waiting" /\ remote[o] \in RemoteTask
        /\ status'[o] = "none" => status[o] = "none"
        /\ UNCHANGED <<forced, remote, createPosts>>
    BY <1>5 DEF IInv, TypeOK, CreateAccepted, StoreOutcome
  <2>3. SendInv(o)'
    BY <2>1, <2>2 DEF SendInv
  <2>4. \A p \in Orders \ {o} : SendInv(p)'
    BY <1>5, <2>1 DEF IInv, TypeOK, SendInv, Active, CreateAccepted, StoreOutcome
  <2>5. QED
    BY <2>3, <2>4 DEF DispatchInv
<1>6. ASSUME IInv, NEW o \in Orders, CreateRejected(o)
      PROVE  DispatchInv'
  BY <1>6 DEF IInv, TypeOK, DispatchInv, SendInv, Active, CreateRejected, StoreOutcome
<1>7. ASSUME IInv, NEW o \in Orders, CreateUncertain(o)
      PROVE  DispatchInv'
  <2>1. SendInv(o) /\ \A p \in Orders \ {o} : SendInv(p)
    BY <1>7 DEF IInv, DispatchInv
  <2>2. /\ dispatch'[o] = "uncertain" /\ sender'[o] = "idle"
        /\ task'[o] => task[o] \/ remote[o] \in RemoteTask
        /\ sender[o] = "waiting" /\ UNCHANGED <<status, remote, createPosts>>
    <3>1. PICK known \in {FALSE, remote[o] \in RemoteTask} : StoreOutcome(o, Unsettled, known,
       "idle")
      BY <1>7 DEF CreateUncertain
    <3>2. known => remote[o] \in RemoteTask
      BY <3>1, Zenon
    <3>3. task' = [task EXCEPT ![o] = task[o] \/ known]
      BY <3>1 DEF StoreOutcome
    <3>4. task'[o] = (task[o] \/ known)
      BY <1>7, <3>3, Zenon DEF IInv, TypeOK
    <3>5. task'[o] => task[o] \/ remote[o] \in RemoteTask
      BY <3>2, <3>4, Zenon
    <3>6. dispatch'[o] = "uncertain" /\ sender'[o] = "idle"
      BY <1>7, <3>1 DEF IInv, TypeOK, StoreOutcome, Unsettled
    <3>7. QED
      BY <1>7, <3>5, <3>6 DEF CreateUncertain
  <2>3. SendInv(o)'
    BY <2>1, <2>2 DEF SendInv
  <2>4. \A p \in Orders \ {o} : SendInv(p)'
    BY <1>7, <2>1 DEF IInv, TypeOK, SendInv, Active, CreateUncertain, StoreOutcome
  <2>5. QED
    BY <2>3, <2>4 DEF DispatchInv
<1>8. ASSUME IInv, NEW o \in Orders, Rollback(o)
      PROVE  DispatchInv'
  BY <1>8 DEF IInv, TypeOK, DispatchInv, SendInv, Active, Rollback, Compensate, CompensationDue
<1>9. ASSUME IInv, NEW o \in Orders, ManualRollback(o)
      PROVE  DispatchInv'
  BY <1>9 DEF IInv, TypeOK, DispatchInv, SendInv, Active, ManualRollback, Compensate,
     CompensationDue
<1>10. ASSUME IInv, NEW o \in Orders, RcsReceives(o)
      PROVE  DispatchInv'
  BY <1>10 DEF IInv, TypeOK, DispatchInv, SendInv, Active, RcsReceives, RcsStep
<1>11. ASSUME IInv, NEW o \in Orders, RcsStarts(o)
      PROVE  DispatchInv'
  BY <1>11 DEF IInv, TypeOK, DispatchInv, SendInv, Active, RcsStarts, RcsStep
<1>12. ASSUME IInv, NEW o \in Orders, RcsEnds(o)
      PROVE  DispatchInv'
  BY <1>12 DEF IInv, TypeOK, DispatchInv, SendInv, Active, RcsEnds, RcsStep
<1>13. QED BY <1>1, <1>2, <1>3, <1>4, <1>5, <1>6, <1>7, <1>8, <1>9, <1>10, <1>11,
     <1>12 DEF DispatchNext

\* Every step keeps what dispatch_status says.
LEMMA DispatchInvStep == IInv /\ [Next]_vars => DispatchInv'
<1>1. CASE DispatchNext /\ IInv
  BY <1>1, DispatchDispatchInv
<1>2. CASE MonitorNext /\ IInv
  BY <1>2, MonitorEffect, MonitorOrderStep, DispatchInvKept
<1>3. CASE CancelNext /\ IInv
  BY <1>3, CancelEffect, CancelOrderStep, DispatchInvKept
<1>4. CASE RecoveryNext /\ IInv
  BY <1>4, RecoveryEffect, RecoveryOrderStep, DispatchInvKept DEF IInv
<1>5. CASE (Restart \/ UNCHANGED vars) /\ IInv
  BY <1>5 DEF Restart, vars, IInv, TypeOK, DispatchInv, SendInv, Active
<1>6. QED
  BY <1>1, <1>2, <1>3, <1>4, <1>5 DEF Next

-----------------------------------------------------------------------------
(* ObserverInv *)

\* Whatever others do meanwhile, what an observer holds of an order stays true.
LEMMA ObservationKept ==
  ASSUME IInv, \A p \in Orders : OrderStep(p), NEW w \in Observers, Busy(w),
         observer'[w].order = observer[w].order, observer'[w].seen = observer[w].seen,
         observer'[w].pc = "move" =>
           \/ observer[w].pc = "move"
           \/ observer[w].seen = "completed" /\ Active(observer[w].order),
         observer'[w].pc = "close" =>
           \/ observer[w].pc = "close"
           \/ observer[w].seen = "completed" /\ status'[observer[w].order] = "completed",
         observer'[w].pc = "position" => observer[w].seen \in {"completed", "cancelled"}
  PROVE  ObservationInv(w)'
<1> DEFINE o == observer[w].order
           seen == observer[w].seen
<1>1. o \in Orders /\ OrderStep(o) /\ ObservationInv(w)
  BY ObserverType DEF IInv, ObserverInv
<1>2. task[o] /\ (seen \in RemoteDone => remote[o] = seen)
  BY <1>1 DEF ObservationInv
<1>3. task'[o] /\ (seen \in RemoteDone => remote'[o] = seen)
  BY <1>1, <1>2 DEF OrderStep, TaskStep
<1>4. ASSUME observer'[w].pc = "move"
      PROVE  seen = "completed" /\ (forced'[o] \/ Active(o)' \/ status'[o] = "completed")
  <2>1. seen = "completed" /\ remote[o] = "completed"
    BY <1>1, <1>2, <1>4 DEF ObservationInv
  <2>2. forced[o] \/ Active(o) \/ status[o] = "completed"
    BY <1>1, <1>4 DEF ObservationInv
  <2>3. QED
    BY <1>1, <1>2, <2>1, <2>2 DEF OrderStep, StatusStep, Created, Active
<1>5. ASSUME observer'[w].pc = "close"
      PROVE  seen = "completed" /\ status'[o] = "completed"
  BY <1>1, <1>2, <1>5 DEF ObservationInv, OrderStep, StatusStep, Created, Active
<1>6. QED
  BY <1>3, <1>4, <1>5 DEF ObservationInv, Active

\* In particular for an observer the step does not touch.
LEMMA ObserverUntouched ==
  ASSUME IInv, \A p \in Orders : OrderStep(p), NEW w \in Observers, observer'[w] = observer[w]
  PROVE  ObservationInv(w)'
<1>1. CASE Busy(w)
  BY <1>1, ObservationKept DEF IInv, ObserverInv, ObservationInv
<1>2. CASE ~Busy(w)
  BY <1>2 DEF ObservationInv, Busy
<1>3. QED
  BY <1>1, <1>2

\* An observer that finishes keeps ObserverInv.
LEMMA FinishInv ==
  ASSUME IInv, \A p \in Orders : OrderStep(p), NEW w \in Observers, Finish(w)
  PROVE  ObserverInv'
<1>1. ObservationInv(w)'
  BY FinishEffect DEF IInv, ObservationInv, Busy
<1>2. \A v \in Observers \ {w} : ObservationInv(v)'
  BY FinishEffect, ObserverUntouched DEF IInv
<1>3. QED
  BY <1>1, <1>2 DEF ObserverInv

\* So does one that moves on to a phase it is entitled to.
LEMMA ProceedInv ==
  ASSUME IInv, \A p \in Orders : OrderStep(p), NEW w \in Observers, Busy(w),
         NEW pc \in Phases, Proceed(w, pc),
         pc = "move" => observer[w].seen = "completed" /\ Active(observer[w].order),
         pc = "close" =>
           observer[w].seen = "completed" /\ status'[observer[w].order] = "completed",
         pc = "position" => observer[w].seen \in {"completed", "cancelled"}
  PROVE  ObserverInv'
<1>1. ObservationInv(w)'
  BY ProceedEffect, ObservationKept DEF IInv
<1>2. \A v \in Observers \ {w} : ObservationInv(v)'
  BY ProceedEffect, ObserverUntouched DEF IInv
<1>3. QED
  BY <1>1, <1>2 DEF ObserverInv

\* So does every step of an observer.
LEMMA MonitorObserverInv == IInv /\ MonitorNext => ObserverInv'
<1> SUFFICES ASSUME IInv, MonitorNext, \A p \in Orders : OrderStep(p)
             PROVE  ObserverInv'
  BY MonitorOrderStep
<1>1. ASSUME NEW w \in Observers, Record(w)
      PROVE  ObserverInv'
  BY <1>1, ProceedInv DEF Record, Busy, Phases
<1>2. ASSUME NEW w \in Observers, NEW o \in Orders, Observe(w, o)
      PROVE  ObserverInv'
  <2>1. observer'[w] = [pc |-> "record", order |-> o, seen |-> Answer(o)]
    BY <1>2 DEF IInv, TypeOK, Observe
  <2>2. Answer(o) \in RemoteDone => remote[o] = Answer(o)
    BY DEF Answer
  <2>3. task'[o] /\ remote'[o] = remote[o]
    BY <1>2 DEF Observe
  <2>4. ObservationInv(w)'
    BY <2>1, <2>2, <2>3 DEF ObservationInv
  <2>5. \A v \in Observers \ {w} : ObservationInv(v)'
    BY <1>2, ObserverUntouched DEF IInv, TypeOK, Observe
  <2>6. QED
    BY <2>4, <2>5 DEF ObserverInv
<1>3. ASSUME NEW w \in Observers, NEW o \in Orders, ApplyCompleted(w, o)
      PROVE  ObserverInv'
  BY <1>3, ProceedInv DEF ApplyCompleted, Applying, Busy, Phases, Active
<1>4. ASSUME NEW w \in Observers, NEW o \in Orders, ApplyReturned(w, o)
      PROVE  ObserverInv'
  BY <1>4, ProceedInv DEF ApplyReturned, Applying, Busy, Phases
<1>5. ASSUME NEW w \in Observers, Finish(w)
      PROVE  ObserverInv'
  BY <1>5, FinishInv
<1>6. ASSUME NEW w \in Observers, NEW o \in Orders, CompleteMove(w, o)
      PROVE  ObserverInv'
  <2>1. observer[w].seen = "completed"
    BY <1>6 DEF IInv, ObserverInv, ObservationInv, Busy, CompleteMove
  <2>2. status'[o] = "completed"
    BY <1>6 DEF IInv, TypeOK, CompleteMove
  <2>3. QED
    BY <1>6, <2>1, <2>2, ProceedInv DEF CompleteMove, Busy, Phases
<1>7. \/ \E w \in Observers : Record(w) \/ Finish(w)
      \/ \E w \in Observers, o \in Orders :
           Observe(w, o) \/ ApplyCompleted(w, o) \/ ApplyReturned(w, o) \/ CompleteMove(w, o)
  BY DEF MonitorNext, ApplyIgnored, ApplyProgress, ApplyEndedWithoutMove,
     ApplyFailedCancellation, ApplyCompletedDespiteCancel,
     MoveRejected, CloseCompleted, CloseReturned, ReturnHeld
<1>8. QED
  BY <1>1, <1>2, <1>3, <1>4, <1>5, <1>6, <1>7

\* Every step of the specification is an order step of every order.
LEMMA OrderStepStep == IInv /\ [Next]_vars => \A p \in Orders : OrderStep(p)
<1>1. CASE Restart \/ UNCHANGED vars
  BY <1>1 DEF Restart, vars, OrderStep, StatusStep, TaskStep
<1>2. QED
  BY <1>1, DispatchOrderStep, MonitorOrderStep, CancelOrderStep, RecoveryOrderStep DEF Next

\* Neither the dispatch nor the RCS touches observers or overrides.
LEMMA DispatchEffect == DispatchNext => UNCHANGED <<forced, observer, canceller, poller, cancelPosts>>
<1>1. ASSUME NEW o \in Orders, NEW r \in Racks, NEW s \in Cells, NEW d \in Cells,
             CreateOrder(o, r, s, d)
      PROVE  UNCHANGED <<forced, observer, canceller, poller, cancelPosts>>
  BY <1>1 DEF CreateOrder
<1>2. ASSUME NEW o \in Orders, ClaimDispatch(o) \/ SendCreate(o)
      PROVE  UNCHANGED <<forced, observer, canceller, poller, cancelPosts>>
  BY <1>2 DEF ClaimDispatch, SendCreate
<1>3. ASSUME NEW o \in Orders,
             CreateNotSent(o) \/ CreateAccepted(o) \/ CreateRejected(o) \/ CreateUncertain(o)
      PROVE  UNCHANGED <<forced, observer, canceller, poller, cancelPosts>>
  BY <1>3 DEF CreateNotSent, CreateAccepted, CreateRejected, CreateUncertain
<1>4. ASSUME NEW o \in Orders, Rollback(o) \/ ManualRollback(o)
      PROVE  UNCHANGED <<forced, observer, canceller, poller, cancelPosts>>
  BY <1>4 DEF Rollback, ManualRollback
<1>5. ASSUME NEW o \in Orders, RcsReceives(o) \/ RcsStarts(o) \/ RcsEnds(o)
      PROVE  UNCHANGED <<forced, observer, canceller, poller, cancelPosts>>
  BY <1>5 DEF RcsReceives, RcsStarts, RcsEnds, RcsStep
<1>6. QED
  BY <1>1, <1>2, <1>3, <1>4, <1>5 DEF DispatchNext

\* Every step keeps ObserverInv.
LEMMA ObserverInvStep == IInv /\ [Next]_vars => ObserverInv'
<1> SUFFICES ASSUME IInv, [Next]_vars, \A p \in Orders : OrderStep(p)
             PROVE  ObserverInv'
  BY OrderStepStep
<1>1. CASE MonitorNext
  BY <1>1, MonitorObserverInv
<1>2. CASE Restart
  BY <1>2 DEF Restart, ObserverInv, ObservationInv, Busy, IdleObserver
<1>3. CASE DispatchNext \/ CancelNext \/ RecoveryNext \/ UNCHANGED vars
  <2>1. UNCHANGED observer
    BY <1>3, DispatchEffect, CancelEffect, RecoveryEffect DEF IInv, vars
  <2>2. QED
    BY <2>1, ObserverUntouched DEF ObserverInv
<1>4. QED
  BY <1>1, <1>2, <1>3 DEF Next

-----------------------------------------------------------------------------
(* Safety *)

\* An order is in force after a step only if it was before or is created by it.
LEMMA InForceStep ==
  ASSUME IInv, NEW p \in Orders, OrderStep(p), InForce(p)'
  PROVE  Created(p) \/ (InForce(p) /\ rackOf'[p] = rackOf[p] /\ dst'[p] = dst[p])
<1>1. Active(p)' /\ ~forced'[p] /\ ~forced[p]
  BY DEF InForce, OrderStep
<1>2. Created(p) \/ Active(p)
  BY <1>1 DEF OrderStep, StatusStep, Active
<1>3. Created(p) \/ (rackOf'[p] = rackOf[p] /\ dst'[p] = dst[p])
  BY DEF OrderStep
<1>4. QED
  BY <1>1, <1>2, <1>3 DEF InForce

\* The order a step creates shares nothing with an order in force.
LEMMA CreatedAlone ==
  ASSUME IInv, NEW o \in Orders, NEW p \in Orders \ {o}, Created(o), OrderStep(p), InForce(p)'
  PROVE  rackOf'[p] # rackOf'[o] /\ dst'[p] # dst'[o]
<1>1. status'[p] = status[p]
  BY DEF Created, IInv, TypeOK
<1>2. ~Created(p)
  BY <1>1 DEF Created, IInv, TypeOK
<1>3. QED
  BY <1>2, InForceStep DEF Created, InForce

\* Racks and destinations stay exclusive.
LEMMA ExclusiveStep == IInv /\ [Next]_vars => OneActivePerRack' /\ DestinationExclusive'
<1> SUFFICES ASSUME IInv, \A p \in Orders : OrderStep(p),
                    NEW o \in Orders, NEW p \in Orders \ {o}, InForce(o)', InForce(p)'
             PROVE  rackOf'[o] # rackOf'[p] /\ dst'[o] # dst'[p]
  BY OrderStepStep DEF OneActivePerRack, DestinationExclusive
<1>1. CASE Created(o)
  BY <1>1, CreatedAlone
<1>2. CASE Created(p)
  BY <1>2, CreatedAlone
<1>3. CASE ~Created(o) /\ ~Created(p)
  BY <1>3, InForceStep DEF IInv, Safe, OneActivePerRack, DestinationExclusive
<1>4. QED
  BY <1>1, <1>2, <1>3

\* No order is closed over a live task.
LEMMA NoOrphanStep == IInv /\ [Next]_vars => NoOrphanTask'
<1> SUFFICES ASSUME IInv, NEW p \in Orders, OrderStep(p), remote'[p] \in RemoteLive, ~forced'[p]
             PROVE  Active(p)'
  BY OrderStepStep DEF NoOrphanTask
<1>1. CASE remote[p] \in RemoteLive
  <2>1. Active(p)
    BY <1>1 DEF IInv, Safe, NoOrphanTask, OrderStep
  <2>2. task[p] \/ dispatch[p] = "uncertain"
    BY <1>1 DEF IInv, TypeOK, DispatchInv, SendInv
  <2>3. QED
    BY <1>1, <2>1, <2>2 DEF OrderStep, StatusStep, Created, Active
<1>2. CASE remote[p] \notin RemoteLive
  BY <1>2 DEF OrderStep, TaskStep, IInv, DispatchInv, SendInv, Active
<1>3. QED
  BY <1>1, <1>2

\* No createTask request is sent twice.
LEMMA PostedOnceStep == IInv /\ [Next]_vars => CreatePostedOnce'
<1> SUFFICES ASSUME IInv, NEW p \in Orders, OrderStep(p)
             PROVE  createPosts'[p] <= 1
  BY OrderStepStep DEF CreatePostedOnce
<1>1. QED
  BY DEF IInv, Safe, CreatePostedOnce, OrderStep, DispatchInv, SendInv

\* Every step keeps the types.
LEMMA TypeStep == IInv /\ [Next]_vars => TypeOK'
<1>1. CASE IInv /\ (Restart \/ UNCHANGED vars)
  BY <1>1 DEF Restart, vars, IInv, TypeOK, IdleObserver
<1>2. QED
  BY <1>1, DispatchType, MonitorType, CancelType, RecoveryType DEF IInv, Next

\* The inductive invariant holds initially.
LEMMA InitIInv == Init => IInv
<1> SUFFICES ASSUME Init PROVE IInv
  OBVIOUS
<1>1. TypeOK
  BY DEF Init, TypeOK
<1>2. ObserverInv /\ DispatchInv
  BY DEF Init, ObserverInv, ObservationInv, Busy, IdleObserver, DispatchInv, SendInv
<1>3. Safe
  BY DEF Init, Safe, OneActivePerRack, DestinationExclusive, NoOrphanTask, CreatePostedOnce,
     InForce, Active
<1>4. QED
  BY <1>1, <1>2, <1>3 DEF IInv

\* Every step keeps it.
LEMMA IInvStep == IInv /\ [Next]_vars => IInv'
BY TypeStep, ObserverInvStep, DispatchInvStep, ExclusiveStep, NoOrphanStep, PostedOnceStep
   DEF IInv, Safe

\* The inductive invariant holds always.
THEOREM Inductive == Spec => []IInv
BY InitIInv, IInvStep, PTL DEF Spec

\* Every handler keeps the vocabularies of the columns, whatever it reads.
THEOREM Types == Spec => []TypeOK
BY Inductive, PTL DEF IInv

\* Orders in force never share a rack or a destination.
THEOREM Exclusive == Spec => [](OneActivePerRack /\ DestinationExclusive)
BY Inductive, PTL DEF IInv, Safe

\* No two orders in force have the same destination cell.
THEOREM Destinations == Spec => []DestinationExclusive
BY Exclusive, PTL

\* No order is closed, but by hand, while its task or its request may live.
THEOREM NoOrphan == Spec => []NoOrphanTask
BY Inductive, PTL DEF IInv, Safe

\* createTask is requested once.
THEOREM PostedOnce == Spec => []CreatePostedOnce
BY Inductive, PTL DEF IInv, Safe

\* An order closed by the RCS or a compensation is never active again.
THEOREM Final == Spec => ClosedIsFinal
<1>1. IInv /\ [Next]_vars => [\A o \in Orders : Closed(o) /\ ~forced[o] => ~Active(o)']_vars
  <2> SUFFICES ASSUME IInv, NEW o \in Orders, OrderStep(o), Closed(o), ~forced[o], Active(o)',
                      [Next]_vars
               PROVE  FALSE
    BY OrderStepStep
  <2>1. QED
    BY DEF OrderStep, StatusStep, Created, Active, Closed, IInv
<1>2. QED
  BY Inductive, <1>1, PTL DEF Spec, ClosedIsFinal

-----------------------------------------------------------------------------
(* The floor: racks held and routes kept.                                  *)

\* An order that was inserted has a rack and two cells.
RowInv ==
  \A o \in Orders : status[o] # "none" => rackOf[o] \in Racks /\ src[o] \in Cells /\ dst[o] \in Cells

\* A position poll follows a cancellation with return that was sent.
PollInv ==
  \A o \in Orders :
    /\ poller[o] # "off" => ReturnSent(o)
    /\ canceller[o] = "waiting" => cancelPosts[o] > 0
    /\ status[o] = "cancel_requested_undo" => "undo" \in CancelKinds

\* An order that goes on after a close by hand has a task.
ReopenInv == \A o \in Orders : forced[o] /\ (Active(o) \/ status[o] = "completed") => task[o]

\* The rack of every active order is reserved, one closed by hand and reopened included.
Held(o) == rackStatus[rackOf[o]] = "reserved"
HeldInv == \A o \in Orders : Active(o) /\ ~ReturnSent(o) => Held(o)

\* The route of an order in force stands.
Undisturbed == \A p \in Orders : cancelPosts[p] = 0 /\ ~CompletedLate(p)
Ready(o) == cellRack[src[o]] = rackOf[o] /\ (cellRack[dst[o]] = NoRack \/ dst[o] = src[o])
ReadyInv == Undisturbed => \A o \in Orders : InForce(o) => Ready(o)

FloorInv == RowInv /\ PollInv /\ ReopenInv /\ HeldInv /\ ReadyInv

\* Only a creation writes the route of an order.
LEMMA RouteEffect ==
  ASSUME IInv, [Next]_vars
  PROVE  \/ UNCHANGED routeVars
         \/ \E o \in Orders, r \in Racks, s, d \in Cells : CreateOrder(o, r, s, d)
<1>1. CASE DispatchNext
  BY <1>1 DEF DispatchNext, ClaimDispatch, SendCreate, CreateNotSent, CreateAccepted, CreateRejected,
     CreateUncertain, Rollback, ManualRollback, RcsReceives, RcsStarts, RcsEnds, RcsStep
<1>2. CASE Restart \/ UNCHANGED vars
  BY <1>2 DEF Restart, vars
<1>3. QED
  BY <1>1, <1>2, MonitorEffect, CancelEffect, RecoveryEffect DEF Next, IInv

\* A creation inserts one row.
LEMMA CreateEffect ==
  ASSUME TypeOK, NEW o \in Orders, NEW r \in Racks, NEW s \in Cells, NEW d \in Cells,
         CreateOrder(o, r, s, d)
  PROVE  /\ status[o] = "none" /\ status'[o] = "pending_dispatch"
         /\ rackOf'[o] = r /\ src'[o] = s /\ dst'[o] = d
         /\ rackStatus'[r] = "reserved"
         /\ \A q \in Racks \ {r} : rackStatus'[q] = rackStatus[q]
         /\ \A p \in Orders \ {o} : /\ status'[p] = status[p] /\ rackOf'[p] = rackOf[p]
                                    /\ src'[p] = src[p] /\ dst'[p] = dst[p]
         /\ UNCHANGED <<cellRack, forced, task, cancelPosts>>
BY DEF CreateOrder, TypeOK

\* A row that was not inserted is neither forced nor has it a task.
LEMMA FreeRow ==
  ASSUME IInv, NEW o \in Orders, status[o] = "none"
  PROVE  ~forced[o] /\ ~task[o] /\ ~Active(o)
BY DEF IInv, DispatchInv, SendInv, Active

\* A status query changes the status of an order with a task only.
LEMMA MonitorTask ==
  ASSUME IInv, MonitorNext, NEW p \in Orders, status'[p] # status[p]
  PROVE  task[p]
<1> DEFINE Ends(w, o) ==
             \/ ApplyProgress(w, o) \/ ApplyEndedWithoutMove(w, o) \/ ApplyCompletedDespiteCancel(w, o)
             \/ CompleteMove(w, o) \/ MoveRejected(w, o) \/ CloseCompleted(w, o)
             \/ \E c \in Cells : CloseReturned(w, o, c)
<1>1. \E w \in Observers, o \in Orders : Ends(w, o)
  <2>1. ASSUME NEW w \in Observers, Record(w) \/ ApplyIgnored(w) PROVE FALSE
    BY <2>1 DEF Record, ApplyIgnored
  <2>2. ASSUME NEW w \in Observers, NEW o \in Orders,
               \/ Observe(w, o) \/ ApplyFailedCancellation(w, o) \/ ApplyCompleted(w, o)
               \/ ApplyReturned(w, o) \/ ReturnHeld(w, o)
        PROVE  FALSE
    BY <2>2 DEF Observe, ApplyFailedCancellation, ApplyCompleted, ApplyReturned, ReturnHeld
  <2> QED BY <2>1, <2>2 DEF MonitorNext
<1>2. PICK w \in Observers, o \in Orders : Ends(w, o)
  BY <1>1
<1>0. Busy(w) /\ o = observer[w].order
  BY <1>2 DEF ApplyProgress, ApplyEndedWithoutMove, ApplyCompletedDespiteCancel, CompleteMove,
     MoveRejected, CloseCompleted, CloseReturned, Applying, Busy
<1>3. task[o]
  BY <1>0 DEF IInv, ObserverInv, ObservationInv
<1>4. \A q \in Orders \ {o} : status'[q] = status[q]
  BY <1>2 DEF IInv, TypeOK, ApplyProgress, ApplyEndedWithoutMove, ApplyCompletedDespiteCancel,
     CompleteMove, MoveRejected, CloseCompleted, CloseReturned
<1> QED BY <1>3, <1>4

\* A free row is inserted by a creation.
LEMMA InsertStep ==
  ASSUME IInv, [Next]_vars, NEW p \in Orders, status[p] = "none", status'[p] # "none"
  PROVE  \E r \in Racks, s, d \in Cells : CreateOrder(p, r, s, d)
<1>0. status[p] # status'[p] /\ ~forced[p] /\ ~task[p] /\ ~Active(p) /\ dispatch[p] = "not_sent" /\ sender[p] = "idle"
  BY FreeRow DEF IInv, DispatchInv, SendInv
<1>1. CASE DispatchNext
  <2>1. PICK o \in Orders : \/ \E r \in Racks, s, d \in Cells : CreateOrder(o, r, s, d)
                            \/ CreateAccepted(o) \/ Rollback(o) \/ ManualRollback(o)
    BY <1>0, <1>1 DEF DispatchNext, ClaimDispatch, SendCreate, CreateNotSent, CreateRejected,
       CreateUncertain, RcsReceives, RcsStarts, RcsEnds, RcsStep
  <2>2. \A q \in Orders \ {o} : status'[q] = status[q]
    <3>1. CASE CreateAccepted(o) \/ Rollback(o) \/ ManualRollback(o)
      BY <3>1 DEF CreateAccepted, Rollback, ManualRollback, Compensate, IInv, TypeOK
    <3> QED BY <2>1, <3>1, CreateEffect DEF IInv
  <2>3. p = o
    BY <1>0, <2>2
  <2> QED BY <1>0, <2>1, <2>3 DEF CreateAccepted, Rollback, ManualRollback
<1>2. CASE MonitorNext
  BY <1>0, <1>2, MonitorTask
<1>3. CASE CancelNext
  BY <1>0, <1>3 DEF CancelNext, ClaimCancel, SendCancel, CancelAccepted, CancelUnconfirmed,
     PollQuery, PollMiss, PollTimeout, PollPosition, IInv, TypeOK
<1>4. CASE RecoveryNext
  BY <1>0, <1>4, RecoveryEffect DEF IInv
<1>5. CASE Restart \/ UNCHANGED vars
  BY <1>0, <1>5 DEF Restart, vars
<1> QED BY <1>1, <1>2, <1>3, <1>4, <1>5 DEF Next

\* Rows keep their racks and cells.
LEMMA RowStep == IInv /\ RowInv /\ [Next]_vars => RowInv'
<1> SUFFICES ASSUME IInv, RowInv, [Next]_vars PROVE RowInv'
  OBVIOUS
<1>1. ASSUME NEW o \in Orders, NEW r \in Racks, NEW s \in Cells, NEW d \in Cells,
             CreateOrder(o, r, s, d)
      PROVE  RowInv'
  BY <1>1, CreateEffect DEF RowInv, IInv
<1>2. CASE ~\E o \in Orders, r \in Racks, s, d \in Cells : CreateOrder(o, r, s, d)
  BY <1>2, InsertStep, RouteEffect DEF RowInv
<1> QED BY <1>1, <1>2

\* The statuses that the dispatch gives.
LEMMA DispatchStatus ==
  ASSUME TypeOK, DispatchNext, NEW p \in Orders
  PROVE  status'[p] \in {status[p], "pending_dispatch", "dispatched", "dispatch_error"}
<1>1. ASSUME NEW o \in Orders, NEW r \in Racks, NEW s \in Cells, NEW d \in Cells,
             CreateOrder(o, r, s, d)
      PROVE  status'[p] \in {status[p], "pending_dispatch"}
  BY <1>1, CreateEffect
<1>2. ASSUME NEW o \in Orders, CreateAccepted(o)
      PROVE  status'[p] \in {status[p], "dispatched"}
  BY <1>2 DEF CreateAccepted, TypeOK
<1>3. ASSUME NEW o \in Orders, Rollback(o) \/ ManualRollback(o)
      PROVE  status'[p] \in {status[p], "dispatch_error"}
  BY <1>3 DEF Rollback, ManualRollback, Compensate, TypeOK
<1>4. ASSUME NEW o \in Orders,
             \/ ClaimDispatch(o) \/ SendCreate(o) \/ CreateNotSent(o) \/ CreateRejected(o)
             \/ CreateUncertain(o) \/ RcsReceives(o) \/ RcsStarts(o) \/ RcsEnds(o)
      PROVE  status'[p] = status[p]
  BY <1>4 DEF ClaimDispatch, SendCreate, CreateNotSent, CreateRejected, CreateUncertain,
     RcsReceives, RcsStarts, RcsEnds, RcsStep
<1> QED BY <1>1, <1>2, <1>3, <1>4 DEF DispatchNext

\* A request that was sent stays sent.
LEMMA PostsStep ==
  ASSUME IInv, [Next]_vars, NEW p \in Orders
  PROVE  cancelPosts'[p] \in Nat /\ cancelPosts[p] <= cancelPosts'[p]
<1>1. cancelPosts \in [Orders -> Nat]
  BY DEF IInv, TypeOK
<1>2. UNCHANGED cancelPosts \/ \E o \in Orders : cancelPosts' = [cancelPosts EXCEPT ![o] = @ + 1]
  <2>1. CASE DispatchNext
    BY <2>1, DispatchEffect
  <2>2. CASE CancelNext
    BY <2>2 DEF CancelNext, ClaimCancel, SendCancel, CancelAccepted, CancelUnconfirmed,
       PollQuery, PollMiss, PollTimeout, PollPosition
  <2>3. CASE Restart \/ UNCHANGED vars
    BY <2>3 DEF Restart, vars
  <2> QED BY <2>1, <2>2, <2>3, MonitorEffect, RecoveryEffect DEF Next, IInv
<1> QED BY <1>1, <1>2

\* Polls follow cancellations that were sent.
LEMMA PollInvStep == IInv /\ PollInv /\ [Next]_vars => PollInv'
<1> SUFFICES ASSUME IInv, PollInv, [Next]_vars, NEW p \in Orders
             PROVE  /\ poller'[p] # "off" => ReturnSent(p)'
                    /\ canceller'[p] = "waiting" => cancelPosts'[p] > 0
                    /\ status'[p] = "cancel_requested_undo" => "undo" \in CancelKinds
  BY DEF PollInv
<1>1. /\ poller[p] # "off" => ReturnSent(p)
      /\ canceller[p] = "waiting" => cancelPosts[p] > 0
      /\ status[p] = "cancel_requested_undo" => "undo" \in CancelKinds
      /\ cancelPosts[p] \in Nat /\ cancelPosts'[p] \in Nat /\ cancelPosts[p] <= cancelPosts'[p]
  BY PostsStep DEF PollInv, IInv, TypeOK
<1>2. CASE UNCHANGED <<poller, canceller>> /\ status'[p] \in {status[p]} \cup (Statuses \ {"cancel_requested_undo"})
  BY <1>1, <1>2 DEF ReturnSent
<1>3. CASE DispatchNext
  <2>1. UNCHANGED <<poller, canceller>>
    BY <1>3, DispatchEffect
  <2>2. status'[p] \in {status[p], "pending_dispatch", "dispatched", "dispatch_error"}
    BY <1>3, DispatchStatus DEF IInv
  <2> QED BY <1>2, <2>1, <2>2
<1>4. CASE MonitorNext
  <2>1. UNCHANGED <<poller, canceller>>
    BY <1>4 DEF MonitorNext, Record, ApplyIgnored, Observe, ApplyFailedCancellation, ApplyCompleted,
       ApplyReturned, ReturnHeld, ApplyProgress, ApplyEndedWithoutMove, ApplyCompletedDespiteCancel,
       CompleteMove, MoveRejected, CloseCompleted, CloseReturned
  <2>2. status'[p] # "cancel_requested_undo" \/ status'[p] = status[p]
    BY <1>4 DEF MonitorNext, Record, ApplyIgnored, Observe, ApplyFailedCancellation, ApplyCompleted,
       ApplyReturned, ReturnHeld, ApplyProgress, ApplyEndedWithoutMove, ApplyCompletedDespiteCancel,
       CompleteMove, MoveRejected, CloseCompleted, CloseReturned, Applying, IInv, TypeOK, ObserverInv,
       ObservationInv, Busy
  <2> QED BY <1>1, <2>1, <2>2 DEF ReturnSent
<1>5. CASE RecoveryNext
  <2>1. UNCHANGED <<poller, canceller>> /\ (status'[p] = status[p] \/ status'[p] \in TerminalLocal)
    BY <1>5, RecoveryEffect DEF IInv
  <2> QED BY <1>2, <2>1
<1>6. CASE Restart \/ UNCHANGED vars
  BY <1>1, <1>6 DEF Restart, vars, ReturnSent
<1>7. CASE CancelNext
  <2> SUFFICES ASSUME NEW o \in Orders,
                      \/ \E kind \in CancelKinds : ClaimCancel(o, kind)
                      \/ SendCancel(o) \/ CancelAccepted(o) \/ CancelUnconfirmed(o)
                      \/ PollQuery(o) \/ PollMiss(o) \/ PollTimeout(o)
                      \/ \E c \in Cells : PollPosition(o, c)
               PROVE  /\ poller'[p] # "off" => ReturnSent(p)'
                      /\ canceller'[p] = "waiting" => cancelPosts'[p] > 0
                      /\ status'[p] = "cancel_requested_undo" => "undo" \in CancelKinds
    BY <1>7 DEF CancelNext
  <2>1. ASSUME NEW kind \in CancelKinds, ClaimCancel(o, kind), p = o
        PROVE  /\ UNCHANGED poller /\ canceller'[p] = "claimed"
               /\ status'[p] = "cancel_requested_undo" => "undo" \in CancelKinds
    BY <2>1, CancelKindsAssumption DEF ClaimCancel, CancelStatus, IInv, TypeOK
  <2>2. CASE p = o /\ \E kind \in CancelKinds : ClaimCancel(o, kind)
    BY <1>1, <2>1, <2>2 DEF ReturnSent
  <2>3. CASE p = o /\ SendCancel(o)
    BY <1>1, <2>3 DEF SendCancel, ReturnSent, IInv, TypeOK
  <2>4. CASE p = o /\ CancelAccepted(o)
    BY <1>1, <2>4 DEF CancelAccepted, StoreReply, ReturnSent, IInv, TypeOK
  <2>5. CASE p = o /\ CancelUnconfirmed(o)
    BY <1>1, <2>5 DEF CancelUnconfirmed, StoreReply, ReturnSent, IInv, TypeOK
  <2>6. CASE p = o /\ (PollQuery(o) \/ PollMiss(o) \/ PollTimeout(o) \/ \E c \in Cells : PollPosition(o, c))
    BY <1>1, <2>6 DEF PollQuery, PollMiss, PollTimeout, PollPosition, PollStep, ReturnSent
  <2>7. CASE p # o
    <3>1. poller'[p] = poller[p] /\ canceller'[p] = canceller[p] /\ status'[p] = status[p]
      BY <2>7 DEF ClaimCancel, SendCancel, CancelAccepted, CancelUnconfirmed, StoreReply,
         PollQuery, PollMiss, PollTimeout, PollPosition, PollStep, IInv, TypeOK
    <3> QED BY <1>1, <3>1 DEF ReturnSent
  <2> QED BY <2>2, <2>3, <2>4, <2>5, <2>6, <2>7
<1> QED BY <1>3, <1>4, <1>5, <1>6, <1>7 DEF Next

\* A close by hand completes no order.
LEMMA ByHandStatus ==
  ASSUME IInv, RecoveryNext, NEW p \in Orders, status'[p] # status[p]
  PROVE  status'[p] \in TerminalLocal \ {"completed"}
<1>0. /\ \A o \in Orders : ForcedStatus(o) \in TerminalLocal \ {"completed"}
      /\ status'[p] \in TerminalLocal
  BY RecoveryEffect DEF IInv, TypeOK, ForcedStatus, Evidence
<1>1. PICK final : /\ DOMAIN final \subseteq Orders /\ CloseByHand(final)
                   /\ \A o \in DOMAIN final : final[o] # "completed"
  <2>1. ASSUME NEW o \in Orders, NEW v \in TerminalLocal \ {"completed"}, CloseByHand([q \in {o} |-> v])
        PROVE  \E final : /\ DOMAIN final \subseteq Orders /\ CloseByHand(final)
                          /\ \A q \in DOMAIN final : final[q] # "completed"
    <3>1. /\ DOMAIN [q \in {o} |-> v] \subseteq Orders
          /\ \A q \in DOMAIN [q \in {o} |-> v] : [q1 \in {o} |-> v][q] # "completed"
      OBVIOUS
    <3> QED BY <2>1, <3>1
  <2>2. ASSUME NEW o \in Orders, ForceClose(o)
        PROVE  \E v \in TerminalLocal \ {"completed"} : CloseByHand([q \in {o} |-> v])
    <3>1. PICK v \in {"forced_local_closed", ForcedStatus(o)} : CloseByHand([q \in {o} |-> v])
      BY <2>2 DEF ForceClose
    <3>2. v \in TerminalLocal \ {"completed"}
      BY <1>0
    <3> QED BY <3>1, <3>2
  <2>3. ASSUME NEW o \in Orders, CleanupClose(o)
        PROVE  \E v \in TerminalLocal \ {"completed"} : CloseByHand([q \in {o} |-> v])
    <3> DEFINE v == IF rcs[o] = "failed" THEN "failed" ELSE "cancelled"
    <3>1. [q \in {o} |-> IF rcs[q] = "failed" THEN "failed" ELSE "cancelled"] = [q \in {o} |-> v]
      OBVIOUS
    <3>2. CloseByHand([q \in {o} |-> v])
      BY <2>3, <3>1 DEF CleanupClose
    <3>3. v \in TerminalLocal \ {"completed"}
      OBVIOUS
    <3> HIDE DEF v
    <3> QED BY <3>2, <3>3
  <2>4. ASSUME NEW o \in Orders, SimulateComplete(o)
        PROVE  \E v \in TerminalLocal \ {"completed"} : CloseByHand([q \in {o} |-> v])
    BY <2>4 DEF SimulateComplete
  <2>5. ASSUME NEW r \in Racks, ReleaseByHand(r)
        PROVE  \E final : /\ DOMAIN final \subseteq Orders /\ CloseByHand(final)
                          /\ \A q \in DOMAIN final : final[q] # "completed"
    <3> DEFINE final == [q \in ActiveOrdersOf(r) |-> ForcedStatus(q)]
    <3>1. DOMAIN final \subseteq Orders /\ \A q \in DOMAIN final : final[q] # "completed"
      BY <1>0 DEF ActiveOrdersOf
    <3>2. CloseByHand(final)
      BY <2>5 DEF ReleaseByHand
    <3> HIDE DEF final
    <3> QED BY <3>1, <3>2
  <2>6. ASSUME NEW r \in Racks, ReserveByHand(r) \/ \E c \in Cells : PlaceByHand(r, c) PROVE FALSE
    BY <2>6 DEF ReserveByHand, PlaceByHand
  <2> QED BY <2>1, <2>2, <2>3, <2>4, <2>5, <2>6 DEF RecoveryNext
<1>2. status'[p] = final[p] /\ p \in DOMAIN final
  BY <1>1 DEF CloseByHand
<1> QED BY <1>0, <1>1, <1>2

\* The dispatch makes an order active only by a creation.
LEMMA Opened ==
  ASSUME IInv, DispatchNext, NEW p \in Orders, status[p] # "none", status'[p] # status[p],
         status'[p] \in {"pending_dispatch", "dispatched"}
  PROVE  Active(p)
<1>1. PICK o \in Orders : \/ \E r \in Racks, s, d \in Cells : CreateOrder(o, r, s, d)
                          \/ CreateAccepted(o) \/ Rollback(o) \/ ManualRollback(o)
  BY DEF DispatchNext, ClaimDispatch, SendCreate, CreateNotSent, CreateRejected,
     CreateUncertain, RcsReceives, RcsStarts, RcsEnds, RcsStep
<1>2. CASE \E r \in Racks, s, d \in Cells : CreateOrder(o, r, s, d)
  BY <1>2, CreateEffect DEF IInv
<1>3. CASE CreateAccepted(o)
  BY <1>3 DEF CreateAccepted, Active, IInv, TypeOK
<1>4. CASE Rollback(o) \/ ManualRollback(o)
  BY <1>4 DEF Rollback, ManualRollback, Compensate, IInv, TypeOK
<1> QED BY <1>1, <1>2, <1>3, <1>4

\* What goes on after a close by hand has a task.
LEMMA ReopenStep == IInv /\ ReopenInv /\ [Next]_vars => ReopenInv'
<1> SUFFICES ASSUME IInv, ReopenInv, [Next]_vars, NEW p \in Orders, OrderStep(p),
                    forced'[p], Active(p)' \/ status'[p] = "completed"
             PROVE  task'[p]
  BY OrderStepStep DEF ReopenInv
<1>1. task[p] => task'[p]
  BY DEF OrderStep
<1>2. CASE forced[p] /\ status'[p] = status[p]
  BY <1>1, <1>2 DEF ReopenInv, Active
<1>3. CASE DispatchNext
  <2>1. forced[p] /\ status[p] # "none"
    BY <1>3, DispatchEffect, FreeRow
  <2>2. status'[p] = status[p] \/ (Active(p) /\ Active(p)')
    <3>1. status'[p] \in {status[p], "pending_dispatch", "dispatched", "dispatch_error"}
      BY <1>3, DispatchStatus DEF IInv
    <3>2. status'[p] # "dispatch_error" \/ status'[p] = status[p]
      BY <3>1 DEF Active
    <3> QED BY <1>3, <2>1, <3>1, <3>2, Opened
  <2> QED BY <1>1, <1>2, <2>1, <2>2 DEF ReopenInv
<1>4. CASE MonitorNext
  <2>1. forced[p]
    BY <1>4, MonitorEffect
  <2> QED BY <1>1, <1>2, <1>4, <2>1, MonitorTask
<1>5. CASE CancelNext
  <2>1. forced[p]
    BY <1>5, CancelEffect
  <2>2. status'[p] = status[p] \/ (Active(p) /\ Active(p)')
    BY <1>5 DEF CancelNext, ClaimCancel, CancelStatus, SendCancel, CancelAccepted, CancelUnconfirmed,
       PollQuery, PollMiss, PollTimeout, PollPosition, Active, IInv, TypeOK
  <2> QED BY <1>1, <2>1, <2>2 DEF ReopenInv, Active
<1>6. CASE RecoveryNext
  <2>1. status'[p] = status[p]
    BY <1>6, ByHandStatus DEF Active
  <2>2. forced'[p] = forced[p]
    BY <1>6, <2>1, RecoveryEffect DEF IInv, Active
  <2> QED BY <1>2, <2>1, <2>2
<1>7. CASE Restart \/ UNCHANGED vars
  BY <1>2, <1>7 DEF Restart, vars
<1> QED BY <1>3, <1>4, <1>5, <1>6, <1>7 DEF Next

\* An order completed late stays so, and no cancellation is forgotten.
LEMMA UndisturbedBefore ==
  ASSUME IInv, ReopenInv, [Next]_vars, Undisturbed'
  PROVE  Undisturbed
<1> SUFFICES ASSUME NEW p \in Orders PROVE cancelPosts[p] = 0 /\ ~CompletedLate(p)
  BY DEF Undisturbed
<1>1. cancelPosts[p] = 0
  BY PostsStep DEF Undisturbed, IInv, TypeOK
<1>2. CompletedLate(p) => CompletedLate(p)'
  <2> SUFFICES ASSUME CompletedLate(p), OrderStep(p) PROVE CompletedLate(p)'
    BY OrderStepStep
  <2>1. task[p] /\ forced[p] /\ status[p] = "completed"
    BY DEF ReopenInv, CompletedLate
  <2> QED BY <2>1 DEF OrderStep, StatusStep, Created, Active, CompletedLate
<1> QED BY <1>1, <1>2 DEF Undisturbed

\* Who releases a rack leaves it to the other active orders.
LEMMA ReleaseHeld ==
  ASSUME TypeOK, NEW o \in Orders, NEW p \in Orders \ {o}, Active(p), Held(p), rackOf[p] \in Racks,
         ReleaseRack(o), UNCHANGED rackOf
  PROVE  Held(p)'
<1>1. CASE rackOf[p] = rackOf[o]
  <2>1. OtherActive(o)
    BY <1>1 DEF OtherActive, ActiveOrdersOf
  <2> QED BY <1>1, <2>1 DEF ReleaseRack, Held, TypeOK
<1>2. CASE rackOf[p] # rackOf[o]
  BY <1>2 DEF ReleaseRack, Held, TypeOK
<1> QED BY <1>1, <1>2

\* So does who moves it.
LEMMA MoveHeld ==
  ASSUME TypeOK, NEW o \in Orders, NEW p \in Orders \ {o}, Active(p), Held(p), rackOf[p] \in Racks,
         MoveRack(o), UNCHANGED rackOf
  PROVE  Held(p)'
<1>1. CASE rackOf[p] = rackOf[o]
  <2>1. OtherActive(o)
    BY <1>1 DEF OtherActive, ActiveOrdersOf
  <2> QED BY <1>1, <2>1 DEF MoveRack, Held, TypeOK
<1>2. CASE rackOf[p] # rackOf[o]
  BY <1>2 DEF MoveRack, Held, TypeOK
<1> QED BY <1>1, <1>2

\* A step about one order: the others keep their racks.
LEMMA OneHeld ==
  ASSUME IInv, RowInv, HeldInv, [Next]_vars, NEW o \in Orders, UNCHANGED routeVars,
         \A p \in Orders \ {o} : status'[p] = status[p],
         ReleaseRack(o) \/ ReserveRack(o) \/ MoveRack(o) \/ UNCHANGED rackStatus,
         Active(o)' /\ ~ReturnSent(o)' => Held(o)'
  PROVE  HeldInv'
<1> SUFFICES ASSUME NEW p \in Orders \ {o}, Active(p)', ~ReturnSent(p)' PROVE Held(p)'
  BY DEF HeldInv
<1>1. Active(p)
  BY DEF Active
<1>2. ~ReturnSent(p)
  BY PostsStep DEF ReturnSent, IInv, TypeOK
<1>3. rackOf[p] \in Racks /\ Held(p)
  BY <1>1, <1>2 DEF RowInv, HeldInv, Active
<1>4. CASE ReleaseRack(o) BY <1>1, <1>3, <1>4, ReleaseHeld DEF IInv
<1>5. CASE MoveRack(o) BY <1>1, <1>3, <1>5, MoveHeld DEF IInv
<1>6. CASE ReserveRack(o) \/ UNCHANGED rackStatus
  BY <1>3, <1>6 DEF ReserveRack, Held, IInv, TypeOK
<1> QED BY <1>4, <1>5, <1>6

\* A step that touches no rack, and makes no order active.
LEMMA NobodyHeld ==
  ASSUME IInv, HeldInv, [Next]_vars, UNCHANGED <<routeVars, rackStatus>>,
         \A p \in Orders : Active(p)' => Active(p)
  PROVE  HeldInv'
<1> SUFFICES ASSUME NEW p \in Orders, Active(p)', ~ReturnSent(p)' PROVE Held(p)'
  BY DEF HeldInv
<1>1. Active(p)
  OBVIOUS
<1>2. ~ReturnSent(p)
  BY PostsStep DEF ReturnSent, IInv, TypeOK
<1> QED BY <1>1, <1>2 DEF HeldInv, Held

\* Racks stay held through creations and dispatches.
LEMMA DispatchHeld == IInv /\ FloorInv /\ DispatchNext => HeldInv'
<1> SUFFICES ASSUME IInv, RowInv, HeldInv, DispatchNext PROVE HeldInv'
  BY DEF FloorInv
<1>0. [Next]_vars
  BY DEF Next
<1>1. ASSUME NEW o \in Orders, NEW r \in Racks, NEW s \in Cells, NEW d \in Cells,
             CreateOrder(o, r, s, d)
      PROVE  HeldInv'
  <2> SUFFICES ASSUME NEW p \in Orders, Active(p)', ~ReturnSent(p)' PROVE Held(p)'
    BY DEF HeldInv
  <2>1. CASE p = o
    BY <1>1, <2>1, CreateEffect DEF Held, IInv
  <2>2. CASE p # o
    <3>1. Active(p) /\ ~ReturnSent(p) /\ rackOf'[p] = rackOf[p]
      BY <1>1, <2>2, CreateEffect DEF Active, ReturnSent, IInv
    <3>2. rackOf[p] \in Racks /\ Held(p)
      BY <3>1 DEF RowInv, HeldInv, Active
    <3> QED BY <1>1, <3>1, <3>2, CreateEffect DEF Held, IInv
  <2> QED BY <2>1, <2>2
<1>2. ASSUME NEW o \in Orders, Rollback(o) \/ ManualRollback(o)
      PROVE  HeldInv'
  <2>1. CASE Compensate(o)
    <3>1. ReleaseRack(o) /\ ~Active(o)' /\ \A p \in Orders \ {o} : status'[p] = status[p]
      BY <2>1 DEF Compensate, Active, IInv, TypeOK
    <3>2. UNCHANGED routeVars
      BY <1>2 DEF Rollback, ManualRollback
    <3> QED BY <1>0, <3>1, <3>2, OneHeld
  <2>2. CASE ~Compensate(o)
    BY <1>0, <1>2, <2>2, NobodyHeld DEF Rollback, ManualRollback, Active
  <2> QED BY <2>1, <2>2
<1>3. ASSUME NEW o \in Orders, CreateAccepted(o)
      PROVE  HeldInv'
  <2>1. \A p \in Orders : Active(p)' => Active(p)
    BY <1>3 DEF CreateAccepted, Active, IInv, TypeOK
  <2>2. UNCHANGED <<routeVars, rackStatus>>
    BY <1>3 DEF CreateAccepted
  <2> QED BY <1>0, <2>1, <2>2, NobodyHeld
<1>4. ASSUME NEW o \in Orders,
             \/ ClaimDispatch(o) \/ SendCreate(o) \/ CreateNotSent(o) \/ CreateRejected(o)
             \/ CreateUncertain(o) \/ RcsReceives(o) \/ RcsStarts(o) \/ RcsEnds(o)
      PROVE  HeldInv'
  <2>1. UNCHANGED <<routeVars, rackStatus, status>>
    BY <1>4 DEF ClaimDispatch, SendCreate, CreateNotSent, CreateRejected, CreateUncertain,
       RcsReceives, RcsStarts, RcsEnds, RcsStep
  <2> QED BY <1>0, <2>1, NobodyHeld DEF Active
<1> QED BY <1>1, <1>2, <1>3, <1>4 DEF DispatchNext

\* Through status queries: an order that is put back in progress reserves its rack again.
LEMMA MonitorHeld == IInv /\ FloorInv /\ MonitorNext => HeldInv'
<1> SUFFICES ASSUME IInv, RowInv, HeldInv, MonitorNext PROVE HeldInv'
  BY DEF FloorInv
<1>0. [Next]_vars /\ UNCHANGED routeVars
  BY MonitorEffect DEF Next
<1>1. ASSUME NEW w \in Observers, Record(w) \/ ApplyIgnored(w)
      PROVE  HeldInv'
  BY <1>0, <1>1, NobodyHeld DEF Record, ApplyIgnored, Active
<1>2. ASSUME NEW w \in Observers, NEW o \in Orders,
             Observe(w, o) \/ ApplyFailedCancellation(w, o) \/ ReturnHeld(w, o)
      PROVE  HeldInv'
  BY <1>0, <1>2, NobodyHeld DEF Observe, ApplyFailedCancellation, ReturnHeld, Active
<1>3. ASSUME NEW w \in Observers, NEW o \in Orders, ApplyProgress(w, o)
      PROVE  HeldInv'
  <2>1. \A p \in Orders : Active(p)' => Active(p)
    BY <1>3 DEF ApplyProgress, Active, IInv, TypeOK
  <2>2. UNCHANGED rackStatus
    BY <1>3 DEF ApplyProgress
  <2> QED BY <1>0, <2>1, <2>2, NobodyHeld
<1>4. ASSUME NEW w \in Observers, NEW o \in Orders, NEW v \in TerminalLocal,
             status' = [status EXCEPT ![o] = v], ReleaseRack(o) \/ MoveRack(o)
      PROVE  HeldInv'
  <2>1. ~Active(o)' /\ \A p \in Orders \ {o} : status'[p] = status[p]
    BY <1>4 DEF Active, IInv, TypeOK
  <2> QED BY <1>0, <1>4, <2>1, OneHeld
<1>5. ASSUME NEW w \in Observers, NEW o \in Orders, Busy(w), o = observer[w].order,
             \/ ApplyEndedWithoutMove(w, o) \/ ApplyCompletedDespiteCancel(w, o)
             \/ CompleteMove(w, o) \/ CloseCompleted(w, o) \/ \E c \in Cells : CloseReturned(w, o, c)
      PROVE  HeldInv'
  <2>1. CASE ApplyEndedWithoutMove(w, o)
    BY <1>4, <2>1 DEF ApplyEndedWithoutMove, Applying
  <2>2. CASE ApplyCompletedDespiteCancel(w, o) \/ CompleteMove(w, o) \/ CloseCompleted(w, o)
    BY <1>4, <2>2 DEF ApplyCompletedDespiteCancel, CompleteMove, CloseCompleted
  <2>3. ASSUME NEW c \in Cells, CloseReturned(w, o, c) PROVE HeldInv'
    <3>1. observer[w].seen \in TerminalLocal
      BY <1>5, <2>3 DEF CloseReturned, IInv, ObserverInv, ObservationInv
    <3> QED BY <1>4, <2>3, <3>1 DEF CloseReturned
  <2> QED BY <1>5, <2>1, <2>2, <2>3
<1>6. ASSUME NEW w \in Observers, NEW o \in Orders, ReserveRack(o),
             \A p \in Orders \ {o} : status'[p] = status[p], status[o] # "none"
      PROVE  HeldInv'
  <2>1. Held(o)'
    BY <1>0, <1>6 DEF ReserveRack, Held, RowInv, IInv, TypeOK
  <2> QED BY <1>0, <1>6, <2>1, OneHeld
<1>7. ASSUME NEW w \in Observers, NEW o \in Orders, ApplyCompleted(w, o) \/ ApplyReturned(w, o)
      PROVE  HeldInv'
  BY <1>6, <1>7 DEF ApplyCompleted, ApplyReturned
<1>8. ASSUME NEW w \in Observers, NEW o \in Orders, Busy(w), o = observer[w].order, MoveRejected(w, o)
      PROVE  HeldInv'
  <2>1. CASE AlreadyCompleted(o)
    <3>1. ReleaseRack(o) /\ status' = status
      BY <1>8, <2>1 DEF MoveRejected
    <3>2. ~Active(o)'
      BY <2>1, <3>1 DEF AlreadyCompleted, Active
    <3> QED BY <1>0, <3>1, <3>2, OneHeld
  <2>2. CASE ~AlreadyCompleted(o)
    <3>1. ReserveRack(o) /\ status' = [status EXCEPT ![o] = "in_progress"]
      BY <1>8, <2>2 DEF MoveRejected
    <3>2. status[o] # "none"
      BY <1>8, FreeRow DEF IInv, ObserverInv, ObservationInv
    <3>3. \A p \in Orders \ {o} : status'[p] = status[p]
      BY <3>1 DEF IInv, TypeOK
    <3> QED BY <1>6, <1>8, <3>1, <3>2, <3>3
  <2> QED BY <2>1, <2>2
<1>9. ASSUME NEW w \in Observers, NEW o \in Orders,
             \/ ApplyEndedWithoutMove(w, o) \/ ApplyCompletedDespiteCancel(w, o)
             \/ CompleteMove(w, o) \/ CloseCompleted(w, o) \/ \E c \in Cells : CloseReturned(w, o, c)
             \/ MoveRejected(w, o)
      PROVE  Busy(w) /\ o = observer[w].order
  BY <1>9 DEF ApplyEndedWithoutMove, ApplyCompletedDespiteCancel, CompleteMove, CloseCompleted,
     CloseReturned, MoveRejected, Applying, Busy
<1> QED BY <1>1, <1>2, <1>3, <1>5, <1>7, <1>8, <1>9 DEF MonitorNext

\* Through cancellations: the poll alone releases a rack.
LEMMA CancelHeld == IInv /\ FloorInv /\ CancelNext => HeldInv'
<1> SUFFICES ASSUME IInv, RowInv, PollInv, HeldInv, CancelNext PROVE HeldInv'
  BY DEF FloorInv
<1>0. [Next]_vars /\ UNCHANGED routeVars
  BY CancelEffect DEF Next
<1>1. ASSUME NEW o \in Orders, NEW kind \in CancelKinds, ClaimCancel(o, kind)
      PROVE  HeldInv'
  <2>1. \A p \in Orders : Active(p)' => Active(p)
    BY <1>1 DEF ClaimCancel, Active, IInv, TypeOK
  <2> QED BY <1>0, <1>1, <2>1, NobodyHeld DEF ClaimCancel
<1>2. ASSUME NEW o \in Orders,
             SendCancel(o) \/ CancelUnconfirmed(o) \/ PollQuery(o) \/ PollMiss(o) \/ PollTimeout(o)
      PROVE  HeldInv'
  <2>1. UNCHANGED <<status, rackStatus>>
    BY <1>2 DEF SendCancel, CancelUnconfirmed, PollQuery, PollMiss, PollTimeout
  <2> QED BY <1>0, <2>1, NobodyHeld DEF Active
<1>3. ASSUME NEW o \in Orders, CancelAccepted(o)
      PROVE  HeldInv'
  <2>1. UNCHANGED status /\ (ReserveRack(o) \/ UNCHANGED rackStatus)
    BY <1>3 DEF CancelAccepted
  <2>2. Active(o)' /\ ~ReturnSent(o)' => Held(o)'
    <3> SUFFICES ASSUME Active(o), ~ReturnSent(o)' PROVE Held(o)'
      BY <2>1 DEF Active
    <3>1. ~ReturnSent(o)
      BY <1>0, PostsStep DEF ReturnSent, IInv, TypeOK
    <3>2. Held(o) /\ rackOf[o] \in Racks
      BY <3>1 DEF HeldInv, RowInv, Active
    <3> QED BY <1>0, <2>1, <3>2 DEF ReserveRack, Held, IInv, TypeOK
  <2> QED BY <1>0, <2>1, <2>2, OneHeld
<1>4. ASSUME NEW o \in Orders, NEW c \in Cells, PollPosition(o, c)
      PROVE  HeldInv'
  <2>1. UNCHANGED status /\ (ReleaseRack(o) \/ UNCHANGED rackStatus)
    BY <1>4 DEF PollPosition
  <2>2. ReturnSent(o)'
    BY <1>4 DEF PollPosition, PollStep, PollInv, ReturnSent
  <2> QED BY <1>0, <2>1, <2>2, OneHeld
<1> QED BY <1>1, <1>2, <1>3, <1>4 DEF CancelNext

\* A close by hand of one order.
LEMMA ClosedOne ==
  ASSUME IInv, NEW o \in Orders, ForceClose(o) \/ CleanupClose(o) \/ SimulateComplete(o)
  PROVE  ~Active(o)'
<1>1. CASE ForceClose(o)
  <2>1. PICK v \in {"forced_local_closed", ForcedStatus(o)} : CloseByHand([q \in {o} |-> v])
    BY <1>1 DEF ForceClose
  <2>2. v \in TerminalLocal
    BY ForcedStatusType DEF IInv
  <2>3. status'[o] = v
    BY <2>1 DEF CloseByHand
  <2> QED BY <2>2, <2>3 DEF Active
<1>2. CASE CleanupClose(o)
  BY <1>2 DEF CleanupClose, CloseByHand, Active
<1>3. CASE SimulateComplete(o)
  BY <1>3 DEF SimulateComplete, CloseByHand, Active
<1> QED BY <1>1, <1>2, <1>3

\* Through what an administrator does.
LEMMA RecoveryHeld == IInv /\ FloorInv /\ RecoveryNext => HeldInv'
<1> SUFFICES ASSUME IInv, RowInv, HeldInv, RecoveryNext PROVE HeldInv'
  BY DEF FloorInv
<1>0. [Next]_vars /\ UNCHANGED <<routeVars, cancelPosts>>
  BY RecoveryEffect DEF Next, IInv
<1>1. ASSUME NEW o \in Orders, ForceClose(o) \/ CleanupClose(o) \/ SimulateComplete(o)
      PROVE  HeldInv'
  <2>1. ReleaseRack(o) \/ MoveRack(o)
    BY <1>1 DEF ForceClose, CleanupClose, SimulateComplete
  <2>2. \A p \in Orders \ {o} : status'[p] = status[p]
    BY <1>1 DEF ForceClose, CleanupClose, SimulateComplete, CloseByHand
  <2>3. ~Active(o)'
    BY <1>1, ClosedOne
  <2> QED BY <1>0, <2>1, <2>2, <2>3, OneHeld
<1>2. ASSUME NEW r \in Racks, ReleaseByHand(r)
      PROVE  HeldInv'
  <2> SUFFICES ASSUME NEW p \in Orders, Active(p)', ~ReturnSent(p)' PROVE Held(p)'
    BY DEF HeldInv
  <2>1. Active(p) /\ status'[p] = status[p]
    BY ByHandStatus DEF Active
  <2>2. p \notin ActiveOrdersOf(r)
    <3>1. p \in ActiveOrdersOf(r) => status'[p] = ForcedStatus(p)
      BY <1>2 DEF ReleaseByHand, CloseByHand
    <3> QED BY <3>1, ForcedStatusType DEF Active, IInv
  <2>3. rackOf[p] # r /\ Held(p) /\ rackOf[p] \in Racks
    BY <1>0, <2>1, <2>2 DEF ActiveOrdersOf, HeldInv, RowInv, ReturnSent, Active
  <2> QED BY <1>0, <1>2, <2>3 DEF ReleaseByHand, Held, IInv, TypeOK
<1>3. ASSUME NEW r \in Racks, ReserveByHand(r)
      PROVE  HeldInv'
  BY <1>0, <1>3 DEF ReserveByHand, HeldInv, Held, RowInv, ReturnSent, Active, IInv, TypeOK
<1>4. ASSUME NEW r \in Racks, NEW c \in Cells, PlaceByHand(r, c)
      PROVE  HeldInv'
  <2> SUFFICES ASSUME NEW p \in Orders, Active(p), ~ReturnSent(p) PROVE Held(p)'
    BY <1>0, <1>4 DEF PlaceByHand, HeldInv, ReturnSent, Active
  <2>1. rackOf[p] # r /\ Held(p) /\ rackOf[p] \in Racks
    BY <1>4 DEF PlaceByHand, NotProtected, HeldInv, RowInv, Active
  <2> QED BY <1>0, <1>4, <2>1 DEF PlaceByHand, Held, IInv, TypeOK
<1> QED BY <1>1, <1>2, <1>3, <1>4 DEF RecoveryNext

\* Every step keeps the racks of active orders.
LEMMA HeldStep == IInv /\ FloorInv /\ [Next]_vars => HeldInv'
<1>1. CASE Restart \/ UNCHANGED vars
  BY <1>1 DEF Restart, vars, FloorInv, HeldInv, Held, ReturnSent, Active
<1> QED BY <1>1, DispatchHeld, MonitorHeld, CancelHeld, RecoveryHeld DEF Next

\* A rack that is placed disturbs no route of another rack whose cells it spares.
LEMMA PlaceReady ==
  ASSUME TypeOK, NEW p \in Orders, NEW r, NEW c \in Cells, PlaceRack(r, c), Ready(p),
         src[p] \in Cells, dst[p] \in Cells, src[p] # c, dst[p] # c, rackOf[p] # r, UNCHANGED routeVars
  PROVE  Ready(p)'
BY DEF PlaceRack, Ready

\* A move spares the routes of all other orders in force.
LEMMA MoveReady ==
  ASSUME IInv, RowInv, NEW o \in Orders, InForce(o), MovePossible(o), MoveRack(o), UNCHANGED routeVars,
         NEW p \in Orders \ {o}, InForce(p), Ready(p), Ready(o)
  PROVE  Ready(p)'
<1>1. /\ rackOf[p] # rackOf[o] /\ dst[p] # dst[o]
      /\ rackOf[p] \in Racks /\ src[p] \in Cells /\ dst[p] \in Cells /\ dst[o] \in Cells
  BY DEF RowInv, InForce, Active, IInv, Safe, OneActivePerRack, DestinationExclusive
<1>2. src[p] # dst[o]
  BY <1>1, NoRackAssumption DEF Ready
<1> QED BY <1>1, <1>2, PlaceReady DEF MoveRack, IInv

\* No order is created by the step.
NoCreation == ~\E o \in Orders, r \in Racks, s, d \in Cells : CreateOrder(o, r, s, d)

\* An order that a step leaves in force was in force, with its route.
LEMMA StillInForce ==
  ASSUME IInv, FloorInv, [Next]_vars, NoCreation, Undisturbed', NEW p \in Orders, InForce(p)'
  PROVE  /\ InForce(p) /\ Ready(p) /\ UNCHANGED routeVars
         /\ rackOf[p] \in Racks /\ src[p] \in Cells /\ dst[p] \in Cells
<1>1. Undisturbed
  BY UndisturbedBefore DEF FloorInv
<1>2. ~Created(p)
  BY InsertStep DEF Created, NoCreation, IInv, TypeOK
<1>3. InForce(p)
  BY <1>2, InForceStep, OrderStepStep
<1>4. UNCHANGED routeVars
  BY RouteEffect DEF NoCreation
<1> QED BY <1>1, <1>3, <1>4 DEF FloorInv, ReadyInv, RowInv, InForce, Active

\* Who places racks.
LEMMA CellEffect ==
  ASSUME IInv, [Next]_vars
  PROVE  \/ UNCHANGED cellRack
         \/ \E w \in Observers, o \in Orders :
              CompleteMove(w, o) \/ \E c \in Cells : CloseReturned(w, o, c)
         \/ \E o \in Orders : SimulateComplete(o) \/ \E c \in Cells : PollPosition(o, c)
         \/ \E r \in Racks, c \in Cells : PlaceByHand(r, c)
<1>1. CASE DispatchNext
  <2>1. ASSUME NEW o \in Orders, NEW r \in Racks, NEW s \in Cells, NEW d \in Cells, CreateOrder(o, r, s, d)
        PROVE  UNCHANGED cellRack
    BY <2>1 DEF CreateOrder
  <2>2. ASSUME NEW o \in Orders,
               \/ ClaimDispatch(o) \/ SendCreate(o) \/ CreateNotSent(o) \/ CreateAccepted(o)
               \/ CreateRejected(o) \/ CreateUncertain(o) \/ Rollback(o) \/ ManualRollback(o)
               \/ RcsReceives(o) \/ RcsStarts(o) \/ RcsEnds(o)
        PROVE  UNCHANGED cellRack
    BY <2>2 DEF ClaimDispatch, SendCreate, CreateNotSent, CreateAccepted, CreateRejected,
       CreateUncertain, Rollback, ManualRollback, RcsReceives, RcsStarts, RcsEnds, RcsStep
  <2> QED BY <1>1, <2>1, <2>2 DEF DispatchNext
<1>2. CASE MonitorNext
  <2>1. ASSUME NEW w \in Observers, Record(w) \/ ApplyIgnored(w) PROVE UNCHANGED cellRack
    BY <2>1 DEF Record, ApplyIgnored
  <2>2. ASSUME NEW w \in Observers, NEW o \in Orders,
               \/ Observe(w, o) \/ ApplyProgress(w, o) \/ ApplyEndedWithoutMove(w, o)
               \/ ApplyFailedCancellation(w, o) \/ ApplyCompletedDespiteCancel(w, o)
               \/ ApplyCompleted(w, o) \/ MoveRejected(w, o) \/ CloseCompleted(w, o)
               \/ ApplyReturned(w, o) \/ ReturnHeld(w, o)
        PROVE  UNCHANGED cellRack
    BY <2>2 DEF Observe, ApplyProgress, ApplyEndedWithoutMove, ApplyFailedCancellation,
       ApplyCompletedDespiteCancel, ApplyCompleted, MoveRejected, CloseCompleted, ApplyReturned, ReturnHeld
  <2> QED BY <1>2, <2>1, <2>2 DEF MonitorNext
<1>3. CASE CancelNext
  <2>1. ASSUME NEW o \in Orders,
               \/ \E kind \in CancelKinds : ClaimCancel(o, kind)
               \/ SendCancel(o) \/ CancelAccepted(o) \/ CancelUnconfirmed(o)
               \/ PollQuery(o) \/ PollMiss(o) \/ PollTimeout(o)
        PROVE  UNCHANGED cellRack
    BY <2>1 DEF ClaimCancel, SendCancel, CancelAccepted, CancelUnconfirmed, PollQuery, PollMiss,
       PollTimeout
  <2> QED BY <1>3, <2>1 DEF CancelNext
<1>4. CASE RecoveryNext
  <2>1. ASSUME NEW o \in Orders, ForceClose(o) \/ CleanupClose(o) PROVE UNCHANGED cellRack
    BY <2>1 DEF ForceClose, CleanupClose
  <2>2. ASSUME NEW r \in Racks, ReleaseByHand(r) \/ ReserveByHand(r) PROVE UNCHANGED cellRack
    BY <2>2 DEF ReleaseByHand, ReserveByHand
  <2> QED BY <1>4, <2>1, <2>2 DEF RecoveryNext
<1>5. CASE Restart \/ UNCHANGED vars
  BY <1>5 DEF Restart, vars
<1> QED BY <1>1, <1>2, <1>3, <1>4, <1>5 DEF Next

\* Every step that creates no order keeps the routes of those in force.
LEMMA RouteKeptStep ==
  ASSUME IInv, FloorInv, [Next]_vars, NoCreation, Undisturbed', NEW p \in Orders, InForce(p)'
  PROVE  Ready(p)'
<1>1. /\ InForce(p) /\ Ready(p) /\ UNCHANGED routeVars
      /\ rackOf[p] \in Racks /\ src[p] \in Cells /\ dst[p] \in Cells
  BY StillInForce
<1>0. Undisturbed
  BY UndisturbedBefore DEF FloorInv
<1>2. CASE UNCHANGED cellRack
  BY <1>1, <1>2 DEF Ready
<1>3. ASSUME NEW o \in Orders, MoveRack(o), MovePossible(o), ~forced[o], ~InForce(o)'
      PROVE  Ready(p)'
  <2>1. InForce(o) /\ p # o
    BY <1>3 DEF MovePossible, InForce, Active
  <2> QED BY <1>0, <1>1, <1>3, <2>1, MoveReady DEF FloorInv, ReadyInv
<1>4. ASSUME NEW w \in Observers, NEW o \in Orders, CompleteMove(w, o)
      PROVE  Ready(p)'
  <2>1. status'[o] = "completed" /\ UNCHANGED forced /\ MoveRack(o) /\ MovePossible(o)
    BY <1>4 DEF CompleteMove, IInv, TypeOK
  <2>2. ~forced[o]
    BY <2>1 DEF Undisturbed, CompletedLate
  <2> QED BY <1>3, <2>1, <2>2 DEF InForce, Active
<1>5. ASSUME NEW w \in Observers, NEW o \in Orders, NEW c \in Cells, CloseReturned(w, o, c)
      PROVE  Ready(p)'
  <2>1. observer[w].seen \in {"completed", "cancelled"}
    BY <1>5 DEF CloseReturned, IInv, ObserverInv, ObservationInv, Busy
  <2>2. status'[o] = observer[w].seen
    BY <1>5 DEF CloseReturned, IInv, TypeOK
  <2>3. p # o
    BY <2>1, <2>2 DEF InForce, Active
  <2>4. rackOf[p] # rackOf[o] /\ src[p] # c /\ dst[p] # c
    BY <1>1, <1>5, <2>3 DEF CloseReturned, ReturnCellFree, InForce
  <2> QED BY <1>1, <1>5, <2>4, PlaceReady DEF CloseReturned, IInv
<1>6. ASSUME NEW o \in Orders, NEW c \in Cells, PollPosition(o, c)
      PROVE  Ready(p)'
  BY <1>0, <1>6 DEF PollPosition, PollStep, FloorInv, PollInv, ReturnSent, Undisturbed
<1>7. ASSUME NEW o \in Orders, SimulateComplete(o)
      PROVE  Ready(p)'
  <2>1. ~forced[o]
    BY <1>7 DEF SimulateComplete, MovePossible, Active, FloorInv, ReopenInv
  <2>2. ~InForce(o)'
    BY <1>7, ClosedOne DEF InForce
  <2> QED BY <1>3, <1>7, <2>1, <2>2 DEF SimulateComplete
<1>8. ASSUME NEW r \in Racks, NEW c \in Cells, PlaceByHand(r, c)
      PROVE  Ready(p)'
  <2>1. rackOf[p] # r /\ src[p] # c /\ dst[p] # c
    BY <1>1, <1>8 DEF PlaceByHand, NotProtected, InForce
  <2> QED BY <1>1, <1>8, <2>1, PlaceReady DEF PlaceByHand, IInv
<1> QED BY <1>2, <1>4, <1>5, <1>6, <1>7, <1>8, CellEffect

\* An order is created on a route that stands.
LEMMA CreatedReady ==
  ASSUME IInv, FloorInv, [Next]_vars, NEW o \in Orders, NEW r \in Racks, NEW s \in Cells, NEW d \in Cells,
         CreateOrder(o, r, s, d), Undisturbed', NEW p \in Orders, InForce(p)'
  PROVE  Ready(p)'
<1>1. CASE p = o
  <2>1. rackOf'[o] = r /\ src'[o] = s /\ dst'[o] = d /\ cellRack' = cellRack
    BY CreateEffect DEF IInv
  <2>2. cellRack[s] = r /\ (cellRack[d] = NoRack \/ d = s)
    BY DEF CreateOrder
  <2> QED BY <1>1, <2>1, <2>2 DEF Ready
<1>2. CASE p # o
  <2>1. InForce(p) /\ rackOf'[p] = rackOf[p] /\ src'[p] = src[p] /\ dst'[p] = dst[p] /\ cellRack' = cellRack
    BY <1>2, CreateEffect DEF InForce, Active, IInv
  <2>2. Ready(p)
    BY <2>1, UndisturbedBefore DEF FloorInv, ReadyInv
  <2> QED BY <2>1, <2>2 DEF Ready
<1> QED BY <1>1, <1>2

\* Every step keeps the floor.
LEMMA FloorStep == IInv /\ FloorInv /\ [Next]_vars => FloorInv'
<1> SUFFICES ASSUME IInv, FloorInv, [Next]_vars PROVE FloorInv'
  OBVIOUS
<1>1. RowInv' /\ PollInv' /\ ReopenInv' /\ HeldInv'
  BY RowStep, PollInvStep, ReopenStep, HeldStep DEF FloorInv
<1>2. ReadyInv'
  BY RouteKeptStep, CreatedReady DEF ReadyInv, NoCreation
<1> QED BY <1>1, <1>2 DEF FloorInv

\* The floor is in order at the start.
LEMMA InitFloor == Init => FloorInv
BY DEF Init, FloorInv, RowInv, PollInv, ReopenInv, HeldInv, ReadyInv, Active, InForce

\* The floor stays in order.
THEOREM FloorKept == Spec => []FloorInv
<1>1. IInv /\ FloorInv /\ [Next]_vars => IInv' /\ FloorInv'
  BY IInvStep, FloorStep
<1> QED BY InitIInv, InitFloor, <1>1, PTL DEF Spec

\* The rack of an order in force is reserved, unless a cancellation with return was
\* sent for the order: the claims, the compensations, the releases of other orders
\* and those by hand leave it alone.
THEOREM RackHeld == Spec => []RackHeldWhileActive
<1>1. FloorInv => RackHeldWhileActive
  BY DEF FloorInv, HeldInv, Held, RackHeldWhileActive, InForce
<1> QED BY FloorKept, <1>1, PTL

\* The route of an order in force stands as it was claimed, while nothing was
\* cancelled or completed late: every completion, simulation, return and position
\* query of others spares it.
THEOREM RoutesReady == Spec => []RouteReady
<1>1. FloorInv => RouteReady
  BY DEF FloorInv, ReadyInv, Ready, Undisturbed, RouteReady
<1> QED BY FloorKept, <1>1, PTL
=============================================================================
