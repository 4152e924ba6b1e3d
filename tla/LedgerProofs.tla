---------------------------- MODULE LedgerProofs ----------------------------
(***************************************************************************)
(* Proof that the movement orders implement the ledger of transports, for  *)
(* any number of orders, racks and cells.                                  *)
(***************************************************************************)
EXTENDS MovementOrdersProofs

USE DEF orderVars, routeVars, floorVars, wireVars, procVars, envVars,
        Movable, CancelRequested, ReservationActive, TerminalLocal, Statuses,
        RemoteDone, RemoteTask, RemoteLive, RemoteStates, Answers

\* What one step shows of an order in the ledger.
Same(o) ==
  /\ Phase(o)' = Phase(o) /\ Job(o)' = Job(o)
  /\ rackOf'[o] = rackOf[o] /\ dst'[o] = dst[o]
Opens(o) ==
  /\ Phase(o) = "free" /\ Phase(o)' = "open" /\ Job(o)' = Job(o)
  /\ rackOf'[o] \in Racks /\ dst'[o] \in Cells
  /\ \A p \in Orders : Phase(p) = "open" => rackOf[p] # rackOf'[o] /\ dst[p] # dst'[o]
Moves(o) ==
  /\ Phase(o)' = Phase(o) /\ rackOf'[o] = rackOf[o] /\ dst'[o] = dst[o]
  /\ \/ Phase(o) \in {"open", "overridden"} /\ Job(o) = "none" /\ Job(o)' = "live"
     \/ Job(o) = "live" /\ Job(o)' = "over"
Closes(o) ==
  /\ Phase(o) = "open" /\ Job(o)' = Job(o) /\ rackOf'[o] = rackOf[o] /\ dst'[o] = dst[o]
  /\ \/ Phase(o)' = "overridden"
     \/ Phase(o)' = "closed" /\ Job(o) # "live"

\* What a step does to an order is something the ledger allows.
LEMMA OrderInLedger ==
  ASSUME IInv, NEW o \in Orders, OrderStep(o)
  PROVE  Same(o) \/ Opens(o) \/ Moves(o) \/ Closes(o)
<1>1. /\ SendInv(o) /\ status[o] \in Statuses /\ remote[o] \in RemoteStates
      /\ dispatch[o] \in {"not_sent", "uncertain", "success", "error"}
  BY DEF IInv, TypeOK, DispatchInv
<1>2. CASE Created(o)
  <2>1. remote'[o] = remote[o] \/ sender[o] = "claimed" \/ remote[o] # "none"
    BY <1>2 DEF OrderStep, TaskStep
  <2>2. status'[o] = "pending_dispatch" /\ status[o] = "none"
    BY <1>2 DEF Created, IInv, TypeOK
  <2>3. remote'[o] = remote[o] /\ ~forced[o] /\ ~forced'[o]
    BY <1>1, <2>2 DEF OrderStep, TaskStep, SendInv, Active
  <2>4. QED
    BY <1>2, <2>2, <2>3 DEF Created, Opens, Phase, Job, Active
<1>3. CASE remote'[o] # remote[o]
  <2>1. /\ status'[o] = status[o] /\ forced'[o] = forced[o]
        /\ \/ remote[o] = "none" /\ remote'[o] = "inflight" /\ sender[o] = "claimed"
           \/ remote[o] = "inflight" /\ remote'[o] \in {"created", "refused"}
           \/ remote[o] \in {"created", "running"} /\ remote'[o] \in RemoteTask
    BY <1>3 DEF OrderStep, TaskStep
  <2>2. ~Created(o)
    BY <2>1 DEF Created, IInv, TypeOK
  <2>3. Phase(o)' = Phase(o) /\ rackOf'[o] = rackOf[o] /\ dst'[o] = dst[o]
    BY <2>1, <2>2 DEF OrderStep, Phase, Active
  <2>4. sender[o] = "claimed" => Phase(o) \in {"open", "overridden"}
    BY <1>1 DEF SendInv, Phase, Active
  <2>5. QED
    BY <2>1, <2>3, <2>4 DEF Same, Moves, Job
<1>4. CASE ~Created(o) /\ remote'[o] = remote[o]
  <2>1. Job(o)' = Job(o) /\ rackOf'[o] = rackOf[o] /\ dst'[o] = dst[o]
    BY <1>4 DEF OrderStep, Job
  <2>2. Phase(o)' # Phase(o) => Phase(o) = "open"
    BY <1>1, <1>4 DEF OrderStep, StatusStep, SendInv, Phase, Active, Closed
  <2>3. Phase(o)' # Phase(o) => Phase(o)' \in {"overridden", "closed"}
    BY <1>1, <1>4 DEF OrderStep, StatusStep, SendInv, Phase, Active, Closed
  <2>4. Phase(o)' = "closed" /\ Phase(o) = "open" => Job(o) # "live"
    BY <1>1, <1>4 DEF OrderStep, StatusStep, SendInv, Phase, Job, Active, Closed
  <2>5. QED
    BY <2>1, <2>2, <2>3, <2>4 DEF Same, Closes
<1>5. QED
  BY <1>2, <1>3, <1>4

\* What another order's step leaves alone.
Untouched(p) ==
  /\ status'[p] = status[p] /\ forced'[p] = forced[p] /\ remote'[p] = remote[p]
  /\ rackOf'[p] = rackOf[p] /\ dst'[p] = dst[p]

\* An order the step does not touch looks the same in the ledger.
LEMMA UntouchedSame == \A p \in Orders : Untouched(p) => Same(p)
BY DEF Untouched, Same, Phase, Job, Active

\* A step changes one order at most, as the ledger sees it.
LEMMA OneOrderInLedger ==
  ASSUME IInv, [Next]_vars
  PROVE  (\A p \in Orders : Same(p)) \/ \E o \in Orders : \A p \in Orders \ {o} : Same(p)
<1> DEFINE Goal == (\A p \in Orders : Same(p)) \/ \E o \in Orders : \A p \in Orders \ {o} : Same(p)
<1>1. CASE DispatchNext
  <2>1. ASSUME NEW o \in Orders, NEW r \in Racks, NEW s \in Cells, NEW d \in Cells,
               CreateOrder(o, r, s, d)
        PROVE  \A p \in Orders \ {o} : Untouched(p)
    BY <2>1 DEF Untouched, CreateOrder, IInv, TypeOK
  <2>2. ASSUME NEW o \in Orders, ClaimDispatch(o) \/ SendCreate(o)
        PROVE  \A p \in Orders \ {o} : Untouched(p)
    BY <2>2 DEF Untouched, ClaimDispatch, SendCreate, IInv, TypeOK
  <2>3. ASSUME NEW o \in Orders,
               CreateNotSent(o) \/ CreateAccepted(o) \/ CreateRejected(o) \/ CreateUncertain(o)
        PROVE  \A p \in Orders \ {o} : Untouched(p)
    BY <2>3 DEF Untouched, CreateNotSent, CreateAccepted, CreateRejected, CreateUncertain, IInv,
       TypeOK
  <2>4. ASSUME NEW o \in Orders, Rollback(o) \/ ManualRollback(o)
        PROVE  \A p \in Orders \ {o} : Untouched(p)
    BY <2>4 DEF Untouched, Rollback, ManualRollback, Compensate, IInv, TypeOK
  <2>5. ASSUME NEW o \in Orders, RcsReceives(o) \/ RcsStarts(o) \/ RcsEnds(o)
        PROVE  \A p \in Orders \ {o} : Untouched(p)
    BY <2>5 DEF Untouched, RcsReceives, RcsStarts, RcsEnds, RcsStep, IInv, TypeOK
  <2>6. QED
    BY <1>1, <2>1, <2>2, <2>3, <2>4, <2>5, UntouchedSame DEF DispatchNext
<1>2. CASE MonitorNext
  <2>1. ASSUME NEW w \in Observers, NEW o \in Orders,
               \/ Observe(w, o) \/ ApplyFailedCancellation(w, o) \/ ApplyCompleted(w, o)
               \/ ApplyReturned(w, o) \/ ReturnHeld(w, o)
        PROVE  \A p \in Orders \ {o} : Untouched(p)
    BY <2>1 DEF Untouched, Observe, ApplyFailedCancellation, ApplyCompleted, ApplyReturned,
       ReturnHeld
  <2>2. ASSUME NEW w \in Observers, NEW o \in Orders,
               \/ ApplyProgress(w, o) \/ ApplyEndedWithoutMove(w, o)
               \/ ApplyCompletedDespiteCancel(w, o)
        PROVE  \A p \in Orders \ {o} : Untouched(p)
    BY <2>2 DEF Untouched, ApplyProgress, ApplyEndedWithoutMove, ApplyCompletedDespiteCancel,
       IInv, TypeOK
  <2>3. ASSUME NEW w \in Observers, NEW o \in Orders,
               CompleteMove(w, o) \/ MoveRejected(w, o) \/ CloseCompleted(w, o)
        PROVE  \A p \in Orders \ {o} : Untouched(p)
    BY <2>3 DEF Untouched, CompleteMove, MoveRejected, CloseCompleted, IInv, TypeOK
  <2>4. ASSUME NEW w \in Observers, NEW o \in Orders, NEW c \in Cells, CloseReturned(w, o, c)
        PROVE  \A p \in Orders \ {o} : Untouched(p)
    BY <2>4 DEF Untouched, CloseReturned, IInv, TypeOK
  <2>5. ASSUME NEW w \in Observers, Record(w) \/ ApplyIgnored(w)
        PROVE  \A p \in Orders : Untouched(p)
    BY <2>5 DEF Untouched, Record, ApplyIgnored
  <2>6. QED
    BY <1>2, <2>1, <2>2, <2>3, <2>4, <2>5, UntouchedSame DEF MonitorNext
<1>3. CASE CancelNext
  <2>1. ASSUME NEW o \in Orders, NEW kind \in CancelKinds, ClaimCancel(o, kind)
        PROVE  \A p \in Orders \ {o} : Untouched(p)
    BY <2>1, CancelEffect, <1>3 DEF Untouched, ClaimCancel, IInv, TypeOK
  <2>2. ASSUME NEW o \in Orders,
               \/ SendCancel(o) \/ CancelAccepted(o) \/ CancelUnconfirmed(o)
               \/ PollQuery(o) \/ PollMiss(o) \/ PollTimeout(o)
        PROVE  \A p \in Orders \ {o} : Untouched(p)
    BY <2>2 DEF Untouched, SendCancel, CancelAccepted, CancelUnconfirmed, PollQuery, PollMiss,
       PollTimeout
  <2>3. ASSUME NEW o \in Orders, NEW c \in Cells, PollPosition(o, c)
        PROVE  \A p \in Orders \ {o} : Untouched(p)
    BY <2>3 DEF Untouched, PollPosition
  <2>4. QED
    BY <1>3, <2>1, <2>2, <2>3, UntouchedSame DEF CancelNext
<1>4. CASE RecoveryNext
  <2>1. ASSUME NEW o \in Orders, ForceClose(o) \/ CleanupClose(o) \/ SimulateComplete(o)
        PROVE  \A p \in Orders \ {o} : Untouched(p)
    BY <2>1 DEF Untouched, ForceClose, CleanupClose, SimulateComplete, CloseByHand, IInv, TypeOK
  <2>2. ASSUME NEW r \in Racks, ReleaseByHand(r)
        PROVE  Goal
    <3>1. /\ ActiveOrdersOf(r) \in SUBSET {p \in Orders : Active(p)}
          /\ [p \in ActiveOrdersOf(r) |-> ForcedStatus(p)] \in [ActiveOrdersOf(r) -> TerminalLocal]
      BY ForcedStatusType DEF ActiveOrdersOf, IInv
    <3>2. /\ \A p \in ActiveOrdersOf(r) : forced'[p]
          /\ \A p \in Orders \ ActiveOrdersOf(r) : status'[p] = status[p] /\ forced'[p] = forced[p]
      BY <2>2, <3>1, CloseByHandEffect DEF ReleaseByHand, IInv
    <3>3. \A o, p \in ActiveOrdersOf(r) : ~forced[o] /\ ~forced[p] => o = p
      BY DEF ActiveOrdersOf, IInv, Safe, OneActivePerRack, InForce
    <3>4. \A p \in Orders \ ActiveOrdersOf(r) : Same(p)
      BY <2>2, <3>2 DEF ReleaseByHand, Same, Phase, Job, Active
    <3>5. \A p \in ActiveOrdersOf(r) : forced[p] => Same(p)
      BY <2>2, <3>2 DEF ReleaseByHand, Same, Phase, Job, Active
    <3>6. CASE \E o \in ActiveOrdersOf(r) : ~forced[o]
      BY <3>3, <3>4, <3>5, <3>6 DEF ActiveOrdersOf
    <3>7. CASE \A o \in ActiveOrdersOf(r) : forced[o]
      BY <3>4, <3>5, <3>7
    <3>8. QED
      BY <3>6, <3>7
  <2>3. ASSUME NEW r \in Racks, ReserveByHand(r) \/ \E c \in Cells : PlaceByHand(r, c)
        PROVE  \A p \in Orders : Untouched(p)
    BY <2>3 DEF Untouched, ReserveByHand, PlaceByHand
  <2>4. QED
    BY <1>4, <2>1, <2>2, <2>3, UntouchedSame DEF RecoveryNext
<1>5. CASE Restart \/ UNCHANGED vars
  <2>1. \A p \in Orders : Untouched(p)
    BY <1>5 DEF Untouched, Restart, vars
  <2>2. QED
    BY <2>1, UntouchedSame
<1>6. QED
  BY <1>1, <1>2, <1>3, <1>4, <1>5, UntouchedSame DEF Next

\* A step of the specification is a step of the ledger or none.
LEMMA LedgerStep == IInv /\ [Next]_vars => [Ledger!Next]_Ledger!vars
<1> SUFFICES ASSUME IInv, [Next]_vars
             PROVE  [Ledger!Next]_Ledger!vars
  OBVIOUS
<1>1. /\ rackOf = [p \in Orders |-> rackOf[p]] /\ rackOf' = [p \in Orders |-> rackOf'[p]]
      /\ dst = [p \in Orders |-> dst[p]] /\ dst' = [p \in Orders |-> dst'[p]]
  <2>1. TypeOK /\ TypeOK'
    BY TypeStep DEF IInv
  <2>2. QED
    BY <2>1 DEF TypeOK
<1>2. CASE \A p \in Orders : Same(p)
  <2>1. rackOf' = rackOf /\ dst' = dst
    BY <1>1, <1>2 DEF Same
  <2>2. [p \in Orders |-> Phase(p)]' = [p \in Orders |-> Phase(p)]
    BY <1>2 DEF Same
  <2>3. [p \in Orders |-> Job(p)]' = [p \in Orders |-> Job(p)]
    BY <1>2 DEF Same
  <2>4. QED
    BY <2>1, <2>2, <2>3 DEF Ledger!vars
<1>3. ASSUME NEW o \in Orders, \A p \in Orders \ {o} : Same(p), ~Same(o)
      PROVE  Ledger!Next
  <2> DEFINE phases == [p \in Orders |-> Phase(p)]
             jobs == [p \in Orders |-> Job(p)]
  <2>1. phases' = [phases EXCEPT ![o] = Phase(o)']
    BY <1>3 DEF Same
  <2>2. jobs' = [jobs EXCEPT ![o] = Job(o)']
    BY <1>3 DEF Same
  <2>3. (Phase(o)' = Phase(o) => phases' = phases) /\ (Job(o)' = Job(o) => jobs' = jobs)
    BY <1>3 DEF Same
  <2>4. rackOf' = [rackOf EXCEPT ![o] = rackOf'[o]] /\ dst' = [dst EXCEPT ![o] = dst'[o]]
    BY <1>1, <1>3 DEF Same
  <2>5. (rackOf'[o] = rackOf[o] => rackOf' = rackOf) /\ (dst'[o] = dst[o] => dst' = dst)
    BY <1>1, <1>3 DEF Same
  <2>6. \A p \in Orders : phases[p] = Phase(p) /\ jobs[p] = Job(p)
    OBVIOUS
  <2>7. Opens(o) \/ Moves(o) \/ Closes(o)
    BY <1>3, OrderInLedger, OrderStepStep
  <2> HIDE DEF phases, jobs
  <2>8. CASE Opens(o)
    <3>1. PICK r \in Racks, c \in Cells : r = rackOf'[o] /\ c = dst'[o]
      BY <2>8 DEF Opens
    <3>2. Ledger!Open(o, r, c)
      BY <2>1, <2>3, <2>4, <2>6, <2>8, <3>1 DEF Opens, Ledger!Open, phases, jobs
    <3>3. QED
      BY <3>2 DEF Ledger!Next
  <2>9. CASE Moves(o)
    <3>1. Ledger!Start(o) \/ Ledger!End(o)
      BY <2>2, <2>3, <2>5, <2>6, <2>9 DEF Moves, Ledger!Start, Ledger!End, phases, jobs
    <3>2. QED
      BY <3>1 DEF Ledger!Next
  <2>10. CASE Closes(o)
    <3>1. Ledger!Close(o) \/ Ledger!Override(o)
      BY <2>1, <2>3, <2>5, <2>6, <2>10 DEF Closes, Ledger!Close, Ledger!Override, phases, jobs
    <3>2. QED
      BY <3>1 DEF Ledger!Next
  <2>11. QED
    BY <2>7, <2>8, <2>9, <2>10
<1>4. QED
  BY <1>2, <1>3, OneOrderInLedger

\* The initial states map to the ledger's initial state.
LEMMA LedgerInit == Init => Ledger!Init
BY DEF Init, Ledger!Init, Phase, Job

\* The orders implement the ledger of transports.
THEOREM Refinement == Spec => LedgerSpec
<1>1. Ledger!Init /\ [][Ledger!Next]_Ledger!vars => LedgerSpec
  BY DEF LedgerSpec, Ledger!Spec
<1>2. QED
  BY Inductive, LedgerInit, LedgerStep, <1>1, PTL DEF Spec
=============================================================================
