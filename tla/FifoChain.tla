------------------------------ MODULE FifoChain ------------------------------
(***************************************************************************)
(* fifo_chain_service.py: the hook of a completion creates the next order  *)
(* of the chain and sends it.  The lock of the parent (a dummy UPDATE) is  *)
(* given up when the selection of a rack commits, and before the network.  *)
(***************************************************************************)
EXTENDS GroupState

Go(w, pc) == worker' = [worker EXCEPT ![w].pc = pc]
End(w)    == worker' = [worker EXCEPT ![w] = IdleWorker]

\* _existing_child.  Mutant: a child that is over no longer counts.
ActiveChildren(p)   == {c \in Rows : step[c] = step[p] + 1 /\ Active(c)}
ExistingChildren(p) == {c \in Rows : step[c] = step[p] + 1}

\* The checks of trigger_fifo_chain_next_step_if_needed and of _validate_parent.
Continues(p) ==
  /\ policy = "chain" /\ ~ChainStopped
  /\ status[p] = "completed" /\ dispatch[p] = "success"

\* trigger_fifo_chain_next_step_if_needed, up to the choice of resources
Skip(w, p) ==
  /\ ~Continues(p)
  /\ End(w)
  /\ UNCHANGED mark

\* Mutant: one step too many.
PastLastStep(p) == step[p] > Steps
LastStep(p)     == step[p] >= Steps

Conclude(w, p) ==
  /\ Continues(p) /\ LastStep(p)
  /\ mark' = [mark EXCEPT ![p] = "completed"]
  /\ End(w)

Resume(w, p) ==
  /\ Continues(p) /\ ~LastStep(p)
  /\ \E c \in ExistingChildren(p) :
       worker' = [worker EXCEPT ![w].pc = "finish", ![w].child = c]
  /\ UNCHANGED mark

Select(w, p) ==
  /\ Continues(p) /\ ~LastStep(p) /\ ExistingChildren(p) = {}
  /\ Go(w, "create")
  /\ UNCHANGED mark

Trigger(w) ==
  /\ worker[w].pc = "trigger"
  /\ LET p == worker[w].parent IN
       Skip(w, p) \/ Conclude(w, p) \/ Resume(w, p) \/ Select(w, p)
  /\ UNCHANGED <<policy, step, status, dispatch, task, wireVars, sender, batch, bootVars, envVars>>

\* create_fifo_chain_next_step, from the second lock on: the order is inserted
\* with the rack and the cell it claims.
Insert(w) ==
  LET p == worker[w].parent IN
  /\ worker[w].pc = "create"
  /\ Continues(p) /\ ExistingChildren(p) = {} /\ Rows # Orders
  /\ LET c == Min(Orders \ Rows) IN
       /\ step' = [step EXCEPT ![c] = step[p] + 1]
       /\ status' = [status EXCEPT ![c] = "pending_dispatch"]
       /\ mark' = [mark EXCEPT ![c] = "active", ![p] = "waiting_dispatch"]
       /\ worker' = [worker EXCEPT ![w].pc = "finish", ![w].child = c]
  /\ UNCHANGED <<policy, dispatch, task, wireVars, sender, batch, bootVars, envVars>>

\* Somebody stopped the chain, or created the child, since the first lock.
Recheck(w) ==
  LET p == worker[w].parent IN
  /\ worker[w].pc = "create"
  /\ \/ ~Continues(p) /\ End(w)
     \/ Continues(p) /\ \E c \in ExistingChildren(p) :
          worker' = [worker EXCEPT ![w].pc = "finish", ![w].child = c]
  /\ UNCHANGED <<orderVars, wireVars, sender, batch, bootVars, envVars>>

\* An exception that nobody records: the caller of the hook logs it.
HookFails(w) ==
  /\ worker[w].pc \in {"trigger", "create"} /\ failures < MaxFailures
  /\ failures' = failures + 1
  /\ missed' = missed \cup {worker[w].parent}
  /\ End(w)
  /\ UNCHANGED <<orderVars, wireVars, sender, batch, boot, todo, visits, crashes>>

\* No rack, no cell, or a claim that lost a race: the chain waits for a restart.
SelectionFails(w) ==
  LET p == worker[w].parent IN
  /\ worker[w].pc = "create" /\ failures < MaxFailures
  /\ failures' = failures + 1
  /\ mark' = [mark EXCEPT ![p] = IF ChainStopped THEN @ ELSE "retry_needed"]
  /\ End(w)
  /\ UNCHANGED <<policy, step, status, dispatch, task, wireVars, sender, batch, bootVars, visits, crashes>>

-----------------------------------------------------------------------------
(* _finish_chain_dispatch *)

\* The stop is looked for and createTask claimed under one lock.
FinishStopped(w) ==
  /\ worker[w].pc = "finish" /\ ChainStopped
  /\ End(w)
  /\ UNCHANGED <<orderVars, wireVars, sender, batch, bootVars, envVars>>

FinishClaims(w) ==
  LET c == worker[w].child IN
  /\ worker[w].pc = "finish" /\ ~ChainStopped
  /\ ClaimDispatch(c)
  /\ Go(w, "sending")
  /\ UNCHANGED <<policy, step, status, task, mark, wireVars, batch, bootVars, envVars>>

\* An exception before or after the check: an order that was never tried counts
\* as refused.
FinishFails(w) ==
  LET c == worker[w].child IN
  /\ worker[w].pc = "finish" /\ failures < MaxFailures
  /\ failures' = failures + 1
  /\ dispatch' = [dispatch EXCEPT ![c] = IF Unsent(c) THEN "error" ELSE @]
  /\ Go(w, "settle")
  /\ UNCHANGED <<policy, step, status, task, mark, wireVars, sender, batch, bootVars, visits, crashes>>

FinishAttempted(w) ==
  /\ worker[w].pc = "finish" /\ ~ChainStopped /\ ~NeverAttempted(worker[w].child)
  /\ Go(w, "settle")
  /\ UNCHANGED <<orderVars, wireVars, sender, batch, bootVars, envVars>>

\* What the dispatch came to; a refused child is compensated.
Verdict(c) ==
  CASE dispatch[c] = "error" /\ ~task[c] -> "dispatch_error"
    [] dispatch[c] = "uncertain" -> "dispatch_uncertain"
    [] dispatch[c] = "success" -> "advanced"
    [] OTHER -> "waiting_dispatch"

Settle(w) ==
  LET c == worker[w].child IN
  /\ worker[w].pc \in {"settle", "sending"}
  /\ worker[w].pc = "sending" => sender[c] = "idle"
  /\ worker' = [worker EXCEPT ![w].pc = "mark", ![w].verdict = Verdict(c)]
  /\ Compensate(IF Verdict(c) = "dispatch_error" THEN {c} ELSE {})
  /\ UNCHANGED <<policy, step, task, mark, wireVars, sender, batch, bootVars, envVars>>

\* The rows the verdict goes to: not a stopped one, nor a child that has been
\* completed meanwhile.  Mutant: the completed child as well.
AnyMarked(w) == {worker[w].parent, worker[w].child}
Marked(w) == {worker[w].parent} \cup
             {c \in {worker[w].child} : status[c] # "completed"}

Mark(w) ==
  /\ worker[w].pc = "mark"
  /\ mark' = [o \in Orders |-> IF o \in Marked(w) /\ mark[o] # "cancelled"
                               THEN worker[w].verdict ELSE mark[o]]
  /\ End(w)
  /\ UNCHANGED <<policy, step, status, dispatch, task, wireVars, sender, batch, bootVars, envVars>>

\* It raises: an order it has just created counts as a failed step of the parent.
MarkFails(w) ==
  LET p == worker[w].parent IN
  /\ worker[w].pc = "mark" /\ failures < MaxFailures
  /\ failures' = failures + 1
  /\ \E m \in {mark[p], IF ChainStopped THEN mark[p] ELSE "retry_needed"} : mark' = [mark EXCEPT ![p] = m]
  /\ End(w)
  /\ UNCHANGED <<policy, step, status, dispatch, task, wireVars, sender, batch, bootVars, visits, crashes>>

ChainStep(w) ==
  \/ Trigger(w) \/ HookFails(w) \/ Insert(w) \/ Recheck(w) \/ SelectionFails(w)
  \/ FinishStopped(w) \/ FinishClaims(w) \/ FinishFails(w) \/ FinishAttempted(w)
  \/ Settle(w) \/ Mark(w) \/ MarkFails(w)

\* Another process on the same database visits a completed order, as
\* tests/test_phase1e_fifo_chain.py:287 does; the lease keeps servers from it.
Visit(w, p) ==
  /\ Serving /\ visits < MaxVisits /\ worker[w] = IdleWorker
  /\ p \in Rows /\ status[p] = "completed"
  /\ visits' = visits + 1
  /\ worker' = [worker EXCEPT ![w] = [IdleWorker EXCEPT !.pc = "trigger", !.parent = p]]
  /\ UNCHANGED <<orderVars, wireVars, sender, batch, bootVars, failures, crashes>>

-----------------------------------------------------------------------------
(* recover_fifo_chains, the last act of on_startup before the server serves *)

\* Mutant: only the parents that have no child yet.
ChildlessParents == {p \in Rows : status[p] = "completed" /\ ExistingChildren(p) = {}}
CompletedOrders  == {p \in Rows : status[p] = "completed"}

RecoverNext ==
  /\ boot = "chains" /\ worker[Startup] = IdleWorker
  /\ IF todo = {} THEN boot' = "serving" /\ UNCHANGED <<todo, worker>>
     ELSE /\ worker' = [worker EXCEPT ![Startup] =
                          [IdleWorker EXCEPT !.pc = "trigger", !.parent = Min(todo)]]
          /\ todo' = todo \ {Min(todo)}
          /\ UNCHANGED boot
  /\ UNCHANGED <<orderVars, wireVars, sender, batch, missed, envVars>>
=============================================================================
