----------------------------- MODULE GroupState -----------------------------
(***************************************************************************)
(* The orders of one group (fifo_chain_group_id), either a FIFO chain,     *)
(* whose steps are created one after the other, or an automatic-priority   *)
(* batch, whose legs are created together; how one of them is sent, and    *)
(* what the RCS, users and administrators do to it.  Racks and cells are   *)
(* OrderState's subject: here an active order stands for what it reserves. *)
(***************************************************************************)
EXTENDS Naturals, FiniteSets, FiniteSetsExt

CONSTANTS
  Steps,       \* fifo_chain_total_steps
  MaxOrders,   \* bound: rows the group may get
  Hooks,       \* threads that apply a completion and then run its hook
  Startup,     \* the recovery that runs before the server serves
  Policies,    \* subset of {"chain", "batch"}
  MaxFailures, \* bound: exceptions before a claim, selections that fail
  MaxVisits,   \* bound: visits of a completed order by another process
  MaxCrashes   \* bound: restarts of the server process

Orders == 1..MaxOrders
Workers == Hooks \cup {Startup}

ASSUME GroupAssumption ==
  /\ Steps \in Nat \ {0} /\ MaxOrders \in Nat /\ MaxOrders >= Steps
  /\ Startup \notin Hooks /\ Policies \subseteq {"chain", "batch"}
  /\ MaxFailures \in Nat /\ MaxVisits \in Nat /\ MaxCrashes \in Nat

VARIABLES
  policy,     \* fifo_chain_select_policy, one for the group
  step,       \* fifo_chain_step, 0 for a row not inserted yet
  status,     \* status
  dispatch,   \* dispatch_status; # "not_sent" iff dispatch_request_json is stored
              \* or the order was refused unsent
  task,       \* remote_task_code is stored
  mark,       \* fifo_chain_status
  remote,     \* the order's task in the RCS, and its createTask request
  posts,      \* createTask requests that left for this order
  sender,     \* the handler inside _dispatch_movement_order
  worker,     \* the hook of a completion, per thread
  batch,      \* the request inside execute_group
  missed,     \* completed orders whose hook raised: only a startup visits them again
  boot, todo, \* where on_startup is, and the completed orders it has yet to visit
  failures, visits, crashes

orderVars == <<policy, step, status, dispatch, task, mark>>
wireVars == <<remote, posts>>
bootVars == <<boot, todo, missed>>
envVars == <<failures, visits, crashes>>
vars == <<orderVars, wireVars, sender, worker, batch, bootVars, envVars>>

Movable == {"pending_dispatch", "dispatched"}
ActiveStatuses == Movable \cup {"cancel_requested"}
Statuses == {"none", "completed", "dispatch_error", "closed"} \cup ActiveStatuses
RemoteDone == {"completed", "ended"}
RemoteLive == {"inflight", "created"}
Marks == {"none", "active", "waiting_dispatch", "advanced", "dispatch_error",
          "dispatch_uncertain", "retry_needed", "completed", "cancelled",
          "batch_sending", "batch_sent", "batch_partial", "batch_uncertain",
          "batch_interrupted"}

Rows == {o \in Orders : step[o] > 0}
Active(o) == status[o] \in ActiveStatuses
Serving == boot = "serving"
IdleWorker == [pc |-> "idle", parent |-> 0, child |-> 0, verdict |-> "none"]
IdleBatch == [pc |-> "idle", leg |-> 0, result |-> "none"]

\* _chain_stopped: somebody stopped the group.  Mutant: nobody asks.
NobodyAsks   == FALSE
ChainStopped == \E o \in Rows : mark[o] = "cancelled"

\* stop_fifo_chain: in the transaction of a cancellation or a forced close.
StopGroup == mark' = [o \in Orders |-> IF o \in Rows THEN "cancelled" ELSE mark[o]]

-----------------------------------------------------------------------------
(* _dispatch_movement_order for an order of the group *)

\* The WHERE of its claim.
Unsent(o) == dispatch[o] = "not_sent" /\ ~task[o]
NeverAttempted(o) == status[o] = "pending_dispatch" /\ Unsent(o)

ClaimDispatch(o) ==
  /\ NeverAttempted(o)
  /\ dispatch' = [dispatch EXCEPT ![o] = "uncertain"]
  /\ sender' = [sender EXCEPT ![o] = "claimed"]

\* POST .../dispatch, and the request that created the first step; the legs of
\* a batch have a sender of their own.
ManualDispatch(o) ==
  /\ Serving /\ policy = "chain" /\ sender[o] = "idle"
  /\ ClaimDispatch(o)
  /\ UNCHANGED <<policy, step, status, task, mark, wireVars, worker, batch, bootVars, envVars>>

SendCreate(o) ==
  /\ sender[o] = "claimed"
  /\ sender' = [sender EXCEPT ![o] = "waiting"]
  /\ posts' = [posts EXCEPT ![o] = @ + 1]
  /\ remote' = [remote EXCEPT ![o] = IF @ = "none" THEN "inflight" ELSE @]
  /\ UNCHANGED <<orderVars, worker, batch, bootVars, envVars>>

Outcome(o, from, result, known, next) ==
  /\ sender[o] = from
  /\ dispatch' = [dispatch EXCEPT ![o] = result]
  /\ task' = [task EXCEPT ![o] = @ \/ known]
  /\ sender' = [sender EXCEPT ![o] = next]
  /\ UNCHANGED <<policy, step, mark, wireVars, worker, batch, bootVars, envVars>>

CreateNotSent(o)  == Outcome(o, "claimed", "error", FALSE, "refused") /\ UNCHANGED status
CreateRejected(o) == remote[o] = "refused" /\ Outcome(o, "waiting", "error", FALSE, "idle")
                     /\ UNCHANGED status
CreateAccepted(o) ==
  /\ remote[o] \in {"created"} \cup RemoteDone
  /\ Outcome(o, "waiting", "success", TRUE, "idle")
  /\ status' = [status EXCEPT ![o] = IF @ = "pending_dispatch" THEN "dispatched" ELSE @]

\* Mutant: a timeout taken for a refusal.
Refusal == "error"
Unsettled == "uncertain"
CreateUncertain(o) ==
  \E known \in {FALSE, remote[o] \in {"created"} \cup RemoteDone} :
    Outcome(o, "waiting", Unsettled, known, "idle") /\ UNCHANGED status

\* _rollback_unsuccessful_order_dispatch, for the orders R
CompensationDue(o) == status[o] # "dispatch_error" /\ dispatch[o] # "uncertain" /\ ~task[o]
Compensate(R) ==
  LET due == {o \in R : CompensationDue(o)} IN
  /\ status' = [o \in Orders |-> IF o \in due THEN "dispatch_error" ELSE status[o]]
  /\ dispatch' = [o \in Orders |-> IF o \in due THEN "error" ELSE dispatch[o]]

\* The dispatcher compensates a request that never left, its callers the others.
RollbackNotSent(o) ==
  /\ sender[o] = "refused"
  /\ sender' = [sender EXCEPT ![o] = "idle"]
  /\ Compensate({o})
  /\ UNCHANGED <<policy, step, task, mark, wireVars, worker, batch, bootVars, envVars>>

ManualRollback(o) ==
  /\ Serving /\ dispatch[o] = "error" /\ CompensationDue(o)
  /\ Compensate({o})
  /\ UNCHANGED <<policy, step, task, mark, wireVars, sender, worker, batch, bootVars, envVars>>

DispatchNext ==
  \E o \in Rows :
    \/ ManualDispatch(o) \/ ManualRollback(o) \/ RollbackNotSent(o)
    \/ SendCreate(o) \/ CreateNotSent(o)
    \/ CreateAccepted(o) \/ CreateRejected(o) \/ CreateUncertain(o)

-----------------------------------------------------------------------------
(* The RCS (external), and what ends an order *)

RcsStep(o) ==
  /\ \E to \in CASE remote[o] = "inflight" -> {"created", "refused"}
                 [] remote[o] = "created" -> RemoteDone
                 [] OTHER -> {} : remote' = [remote EXCEPT ![o] = to]
  /\ UNCHANGED <<orderVars, posts, sender, worker, batch, bootVars, envVars>>

\* simulate_order_completed refuses a leg while an earlier leg is not completed.
InTurn(o) == policy = "batch" => \A p \in Rows : step[p] < step[o] => status[p] = "completed"

\* A thread applies a completion; the hook of the chain runs next.
Complete(w, o) ==
  /\ Serving /\ worker[w] = IdleWorker
  /\ status[o] \in Movable /\ task[o] /\ remote[o] = "completed" /\ InTurn(o)
  /\ status' = [status EXCEPT ![o] = "completed"]
  /\ worker' = [worker EXCEPT ![w] = [IdleWorker EXCEPT !.pc = "trigger", !.parent = o]]
  /\ UNCHANGED <<policy, step, dispatch, task, mark, wireVars, sender, batch, bootVars, envVars>>

\* Every other end of a task, and a completion of an order that is being cancelled.
CloseEnded(o) ==
  /\ Serving /\ task[o]
  /\ \E final \in
       (IF remote[o] \in RemoteDone /\ status[o] = "cancel_requested" THEN {"closed"} ELSE {})
       \cup (IF remote[o] = "completed" /\ status[o] = "cancel_requested" THEN {"completed"} ELSE {})
       \cup (IF remote[o] = "ended" /\ status[o] \in Movable THEN {"closed"} ELSE {}) :
         status' = [status EXCEPT ![o] = final]
  /\ UNCHANGED <<policy, step, dispatch, task, mark, wireVars, sender, worker, batch, bootVars, envVars>>

\* _execute_cancel_for_order and _force_close_old_active_order stop the group.
Cancel(o) ==
  /\ Serving /\ status[o] \in Movable /\ task[o]
  /\ status' = [status EXCEPT ![o] = "cancel_requested"]
  /\ StopGroup
  /\ UNCHANGED <<policy, step, dispatch, task, wireVars, sender, worker, batch, bootVars, envVars>>

ForceClose(o) ==
  /\ Serving /\ Active(o)
  /\ status' = [status EXCEPT ![o] = "closed"]
  /\ StopGroup
  /\ UNCHANGED <<policy, step, dispatch, task, wireVars, sender, worker, batch, bootVars, envVars>>

OrderNext ==
  \E o \in Rows :
    \/ RcsStep(o) \/ CloseEnded(o) \/ Cancel(o) \/ ForceClose(o)
    \/ \E w \in Hooks : Complete(w, o)
=============================================================================
