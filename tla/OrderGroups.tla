----------------------------- MODULE OrderGroups -----------------------------
(***************************************************************************)
(* A group of orders from its first transaction on: a chain or a batch,    *)
(* its senders and hooks, cancellations, closings by hand, and restarts.   *)
(***************************************************************************)
EXTENDS FifoChain, PriorityBatch

\* The scanner has created the first step of a chain, or prepare_group has
\* reserved every leg of a batch and execute_group begins.
Init ==
  /\ policy \in Policies
  /\ step = [o \in Orders |-> IF o <= (IF policy = "chain" THEN 1 ELSE Steps) THEN o ELSE 0]
  /\ status = [o \in Orders |-> IF o \in Rows THEN "pending_dispatch" ELSE "none"]
  /\ dispatch = [o \in Orders |-> "not_sent"]
  /\ task = [o \in Orders |-> FALSE]
  /\ mark = [o \in Orders |-> IF o \notin Rows THEN "none"
                              ELSE IF policy = "chain" THEN "active" ELSE "batch_sending"]
  /\ remote = [o \in Orders |-> "none"] /\ posts = [o \in Orders |-> 0]
  /\ sender = [o \in Orders |-> "idle"]
  /\ worker = [w \in Workers |-> IdleWorker]
  /\ batch = IF policy = "chain" THEN IdleBatch
             ELSE [pc |-> "check", leg |-> 1, result |-> "batch_sent"]
  /\ boot = "serving" /\ todo = {} /\ missed = {}
  /\ failures = 0 /\ visits = 0 /\ crashes = 0

\* The process stops and starts again: on_startup recovers batches, then chains.
Restart ==
  /\ crashes < MaxCrashes
  /\ crashes' = crashes + 1
  /\ sender' = [o \in Orders |-> "idle"]
  /\ worker' = [w \in Workers |-> IdleWorker]
  /\ batch' = IdleBatch
  /\ boot' = "batches" /\ todo' = CompletedOrders /\ missed' = {}
  /\ UNCHANGED <<orderVars, wireVars, failures, visits>>

GroupStep == RecoverBatch \/ RecoverNext \/ BatchStep \/ \E w \in Workers : ChainStep(w)

VisitNext == \E w \in Hooks, p \in Rows : Visit(w, p)

Next == DispatchNext \/ OrderNext \/ GroupStep \/ VisitNext \/ Restart

Spec == Init /\ [][Next]_vars

-----------------------------------------------------------------------------
(* Safety *)

TypeOK ==
  /\ policy \in Policies
  /\ step \in [Orders -> 0..Steps]
  /\ status \in [Orders -> Statuses]
  /\ dispatch \in [Orders -> {"not_sent", "uncertain", "success", "error"}]
  /\ task \in [Orders -> BOOLEAN]
  /\ mark \in [Orders -> Marks]
  /\ remote \in [Orders -> {"none", "refused"} \cup RemoteLive \cup RemoteDone]
  /\ posts \in [Orders -> Nat]
  /\ sender \in [Orders -> {"idle", "claimed", "waiting", "refused"}]
  /\ worker \in [Workers -> [pc : {"idle", "trigger", "create", "finish", "sending", "settle", "mark"},
                             parent : Orders \cup {0}, child : Orders \cup {0}, verdict : Marks]]
  /\ batch \in [pc : {"idle", "check", "dispatch", "judge", "abort", "stop", "final"},
                leg : Legs \cup {0}, result : Marks]
  /\ boot \in {"serving", "batches", "chains"} /\ todo \subseteq Orders /\ missed \subseteq Orders
  /\ failures \in Nat /\ visits \in Nat /\ crashes \in Nat

\* A step of the group has one order: no hook, retry or restart creates the next
\* step of a chain again, whatever became of the first.
OneOrderPerStep == \A o, p \in Rows : step[o] = step[p] => o = p

\* The tasks of a group reach the RCS in order: a leg leaves only after the RCS
\* accepted the one before it, and createTask leaves once for each, through
\* timeouts, failed batches and restarts.
SentInOrder ==
  \A o \in Rows :
    /\ posts[o] <= 1
    /\ posts[o] = 1 => \A p \in Rows : step[p] < step[o] =>
         dispatch[p] = "success" /\ (policy = "chain" => status[p] = "completed")

\* A compensated order has no task that may still move its rack.
NoOrphanInGroup == \A o \in Rows : status[o] = "dispatch_error" => remote[o] \notin RemoteLive

Stopped == \E o \in Orders : mark[o] = "cancelled"

\* Once a chain is stopped no hook and no restart creates or claims an order
\* for it; only a user may still send the one that is left.
StopsHooks ==
  policy = "chain" /\ Stopped =>
    /\ step' = step
    /\ (\E w \in Workers : worker'[w] # worker[w]) =>
         \A o \in Orders : dispatch[o] = "not_sent" => dispatch'[o] # "uncertain"
StopObeyed == [][StopsHooks]_vars

\* The chain's end is not forgotten: a late verdict on the dispatch of the last
\* step does not overwrite its completion.
EndKept ==
  \A o \in Orders : mark[o] = "completed" => mark'[o] \in {"completed", "cancelled"}
EndRemembered == [][EndKept]_vars

\* While the server serves and nobody sends, no leg of a batch is left that was
\* never tried (automatic_priority_service.py:150).
NoUnsentLeg == Serving /\ policy = "batch" /\ batch = IdleBatch =>
                 \A o \in Rows : status[o] = "pending_dispatch" => ~Unsent(o)

\* The same for a batch that nobody stopped.
NoUnsentLegUnlessStopped == Stopped \/ NoUnsentLeg

-----------------------------------------------------------------------------
(* Liveness *)

\* Threads go on with what they began; startup and calls to the RCS end.  Users,
\* administrators and the RCS's own steps have no fairness.
Fairness ==
  /\ WF_vars(GroupStep)
  /\ \A w \in Workers : WF_vars(ChainStep(w))
  /\ \A o \in Orders : WF_vars(o \in Rows /\ (SendCreate(o) \/ CreateNotSent(o)
       \/ CreateAccepted(o) \/ CreateRejected(o) \/ CreateUncertain(o) \/ RollbackNotSent(o)))

FairSpec == Spec /\ Fairness

\* A chain goes on: after a completed step the next one is created and leaves, or
\* is refused, unless the chain is stopped, waits for a retry, or its hook raised;
\* a restart at any point in between changes nothing.
ChainContinues ==
  \A o \in Orders :
    (policy = "chain" /\ o \in Rows /\ status[o] = "completed" /\ dispatch[o] = "success"
       /\ ~LastStep(o))
      ~> (Stopped \/ mark[o] = "retry_needed" \/ o \in missed
          \/ \E c \in Rows : step[c] = step[o] + 1 /\ dispatch[c] # "not_sent")
=============================================================================
