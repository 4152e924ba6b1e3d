----------------------------- MODULE GroupsProofs -----------------------------
(***************************************************************************)
(* Proofs, for groups of any length and any numbers of threads, failures,  *)
(* visits and restarts, that a step has one order, that the orders leave   *)
(* one after another and once, that a compensation orphans no task, that a *)
(* batch leaves no reservation behind, and that a stop and an end last.    *)
(***************************************************************************)
EXTENDS OrderGroups, FiniteSetTheorems, TLAPS

Pcs == {"idle", "trigger", "create", "finish", "sending", "settle", "mark"}
Verdicts == {"dispatch_error", "dispatch_uncertain", "advanced", "waiting_dispatch"}
Results == {"batch_sent", "batch_partial", "batch_uncertain"}
WorkerRecs == [pc : Pcs, parent : Orders \cup {0}, child : Orders \cup {0}, verdict : Marks]
BatchPcs == {"idle", "check", "dispatch", "judge", "abort", "stop", "final"}
BatchRecs == [pc : BatchPcs, leg : Legs \cup {0}, result : Marks]

\* TypeOK, by the tables, the threads and the bounds.
RowTypes ==
  /\ policy \in Policies
  /\ step \in [Orders -> 0..Steps]
  /\ status \in [Orders -> Statuses]
  /\ dispatch \in [Orders -> {"not_sent", "uncertain", "success", "error"}]
  /\ task \in [Orders -> BOOLEAN]
  /\ remote \in [Orders -> {"none", "refused"} \cup RemoteLive \cup RemoteDone]
  /\ posts \in [Orders -> Nat]
  /\ sender \in [Orders -> {"idle", "claimed", "waiting", "refused"}]
MarkTypes == mark \in [Orders -> Marks]
ThreadTypes ==
  /\ worker \in [Workers -> WorkerRecs]
  /\ batch \in BatchRecs
  /\ boot \in {"serving", "batches", "chains"} /\ todo \subseteq Orders /\ missed \subseteq Orders
CountTypes == failures \in Nat /\ visits \in Nat /\ crashes \in Nat

\* How the request of an order, its sender and its task go together.
RowInv(o) ==
  /\ dispatch[o] = "not_sent" =>
       remote[o] = "none" /\ posts[o] = 0 /\ sender[o] = "idle" /\ ~task[o]
  /\ sender[o] = "claimed" => dispatch[o] = "uncertain" /\ remote[o] = "none" /\ posts[o] = 0
  /\ sender[o] = "waiting" => dispatch[o] = "uncertain"
  /\ sender[o] = "refused" => dispatch[o] = "error"
  /\ dispatch[o] = "success" => task[o]
  /\ dispatch[o] = "error" => remote[o] \in {"none", "refused"}
  /\ status[o] = "dispatch_error" => dispatch[o] = "error"
  /\ status[o] = "completed" => task[o]
  /\ posts[o] \in {0, 1}
  /\ step[o] = 0 => status[o] = "none" /\ dispatch[o] = "not_sent"
RowsInv == RowTypes /\ \A o \in Orders : RowInv(o)

\* The steps that exist begin at 1, have one order each, and in a chain all but
\* the last are behind it; in a batch the ones before a leg that was tried are.
Attempted(o) == dispatch[o] = "uncertain" \/ posts[o] = 1
Behind(p) == dispatch[p] = "success" /\ (policy = "chain" => status[p] = "completed")
StepsInv ==
  /\ \A o \in Rows : \A n \in 1..step[o] : \E p \in Rows : step[p] = n
  /\ \A o, p \in Rows : step[o] = step[p] => o = p
  /\ policy = "batch" => \A o \in Orders : step[o] = IF o <= Steps THEN o ELSE 0
SeqInv ==
  \A o, p \in Rows :
    step[p] < step[o] /\ (policy = "chain" \/ Attempted(o)) => Behind(p)

\* What a hook holds: a parent that has a next step, and then the order of that step.
Holds(k) ==
  /\ k.pc # "idle" => k.parent \in Rows
  /\ k.pc \notin {"idle", "trigger"} => policy = "chain" /\ step[k.parent] < Steps
  /\ k.pc \in {"finish", "sending", "settle", "mark"} => k.child \in Rows
  /\ k.pc = "mark" => k.verdict \in Verdicts
WorkersInv == (\A w \in Workers : Holds(worker[w])) /\ todo \subseteq Rows

\* What the request of a batch has behind it.
BatchInv ==
  batch.pc # "idle" =>
    /\ policy = "batch" /\ batch.leg \in Legs
    /\ batch.result \in Results
    /\ \A p \in Legs : p < batch.leg => dispatch[p] = "success"
    /\ batch.pc \in {"judge", "stop"} => ~NeverAttempted(batch.leg)

\* What the marks of a group say.
MarkInv ==
  /\ \A o \in Orders \ Rows : mark[o] = "none"
  /\ \A o \in Rows : mark[o] = "completed" =>
       policy = "chain" /\ step[o] = Steps /\ status[o] = "completed"
  /\ \A o \in Rows : mark[o] = "batch_sending" => policy = "batch"
  /\ \A o, p \in Rows : mark[o] = "cancelled" => mark[p] = "cancelled"

\* A leg that was never tried has somebody to send it, or to compensate it.
AllSending == \A o \in Rows : mark[o] = "batch_sending"
UnsentInv ==
  policy = "batch" /\ ~ChainStopped =>
    \/ \A o \in Rows : ~NeverAttempted(o)
    \/ AllSending /\ batch.pc \notin {"idle", "final"}
    \/ AllSending /\ batch.pc = "idle" /\ boot = "batches"

Types == RowTypes /\ MarkTypes /\ ThreadTypes /\ CountTypes
IInv == /\ Types /\ RowsInv /\ StepsInv /\ SeqInv
        /\ WorkersInv /\ BatchInv /\ MarkInv /\ UnsentInv

-----------------------------------------------------------------------------
(* Numbers, and the threads *)

\* Orders are naturals, and a batch's legs are among them.
LEMMA Numbers ==
  /\ Orders \subseteq Nat \ {0} /\ Legs \subseteq Orders /\ 0 \notin Orders
  /\ Steps \in Nat /\ Steps >= 1 /\ MaxOrders \in Nat /\ IsFiniteSet(Orders)
  /\ Startup \in Workers /\ Hooks \subseteq Workers
<1>1. MaxOrders \in Nat
  BY GroupAssumption
<1>2. IsFiniteSet(Orders)
  BY <1>1, FS_Interval DEF Orders
<1> QED BY <1>2, GroupAssumption DEF Workers, Orders, Legs

\* The least of some orders is one of them: among the orders up to each of them,
\* one set contains no other.
LEMMA MinIs ==
  ASSUME NEW S \in SUBSET Orders, S # {}
  PROVE  Min(S) \in S
<1> DEFINE UpTo(x) == {y \in S : y <= x}
           T == {UpTo(x) : x \in S}
           R == StrictSubsetOrdering(S)
<1>1. S \subseteq Nat /\ IsFiniteSet(S)
  BY Numbers, FS_Subset
<1>2. T \subseteq FiniteSubsetsOf(S) /\ T # {}
  <2>1. ASSUME NEW x \in S PROVE UpTo(x) \subseteq S /\ IsFiniteSet(UpTo(x))
    <3>1. UpTo(x) \subseteq S
      OBVIOUS
    <3> QED BY <3>1, <1>1, FS_Subset
  <2> QED BY <2>1 DEF FiniteSubsetsOf
<1>3. PICK u \in T : \A v \in T : <<v, u>> \notin R
  <2>1. IsWellFoundedOn(R, FiniteSubsetsOf(S))
    BY FS_StrictSubsetOrderingWellFounded
  <2> HIDE DEF R, T
  <2> QED BY <1>2, <2>1, WFMin
<1>4. PICK x \in S : u = UpTo(x)
  BY <1>3
<1>5. ASSUME NEW y \in S, ~(x <= y) PROVE FALSE
  <2>0. x \in Nat /\ y \in Nat /\ y <= x /\ x <= x
    BY <1>1, <1>5
  <2>1. UpTo(y) \subseteq UpTo(x) /\ x \in UpTo(x) /\ x \notin UpTo(y)
    <3>1. ASSUME NEW z \in S, z <= y PROVE z <= x
      BY <2>0, <3>1, <1>1
    <3> QED BY <2>0, <3>1, <1>5
  <2>2. <<UpTo(y), UpTo(x)>> \in R
    BY <2>1 DEF StrictSubsetOrdering
  <2>3. UpTo(y) \in T
    OBVIOUS
  <2> HIDE DEF R, T, UpTo
  <2> QED BY <2>2, <2>3, <1>3, <1>4
<1> QED BY <1>5 DEF Min

\* A hook takes a step.
LEMMA WorkerUpdate ==
  ASSUME worker \in [Workers -> WorkerRecs], NEW w \in Workers, NEW q \in WorkerRecs,
         worker' = [worker EXCEPT ![w] = q]
  PROVE  /\ worker' \in [Workers -> WorkerRecs] /\ worker'[w] = q
         /\ \A v \in Workers \ {w} : worker'[v] = worker[v]
OBVIOUS

\* It goes on, with or without a verdict.
LEMMA GoIs ==
  ASSUME worker \in [Workers -> WorkerRecs], NEW w \in Workers, NEW pc \in Pcs, Go(w, pc)
  PROVE  /\ worker' \in [Workers -> WorkerRecs]
         /\ worker'[w].pc = pc /\ worker'[w].parent = worker[w].parent
         /\ worker'[w].child = worker[w].child /\ worker'[w].verdict = worker[w].verdict
         /\ \A v \in Workers \ {w} : worker'[v] = worker[v]
<1> DEFINE q == [worker[w] EXCEPT !.pc = pc]
<1>1. /\ q \in WorkerRecs /\ q.pc = pc /\ q.parent = worker[w].parent
      /\ q.child = worker[w].child /\ q.verdict = worker[w].verdict
  BY DEF WorkerRecs
<1>2. worker' = [worker EXCEPT ![w] = q]
  BY DEF Go
<1> HIDE DEF q
<1> QED BY <1>1, <1>2, WorkerUpdate

\* It has judged the dispatch of its order.
LEMMA VerdictIs ==
  ASSUME worker \in [Workers -> WorkerRecs], NEW w \in Workers, NEW verdict \in Verdicts,
         worker' = [worker EXCEPT ![w].pc = "mark", ![w].verdict = verdict]
  PROVE  /\ worker' \in [Workers -> WorkerRecs]
         /\ worker'[w].pc = "mark" /\ worker'[w].parent = worker[w].parent
         /\ worker'[w].child = worker[w].child /\ worker'[w].verdict = verdict
         /\ \A v \in Workers \ {w} : worker'[v] = worker[v]
<1> DEFINE q == [worker[w] EXCEPT !.pc = "mark", !.verdict = verdict]
<1>1. /\ q \in WorkerRecs /\ q.pc = "mark" /\ q.parent = worker[w].parent
      /\ q.child = worker[w].child /\ q.verdict = verdict
  BY DEF WorkerRecs, Pcs, Verdicts, Marks
<1>2. worker' = [worker EXCEPT ![w] = q]
  OBVIOUS
<1> HIDE DEF q
<1> QED BY <1>1, <1>2, WorkerUpdate

\* It ends.
LEMMA EndIs ==
  ASSUME worker \in [Workers -> WorkerRecs], NEW w \in Workers, End(w)
  PROVE  /\ worker' \in [Workers -> WorkerRecs] /\ worker'[w].pc = "idle"
         /\ \A v \in Workers \ {w} : worker'[v] = worker[v]
<1>1. IdleWorker \in WorkerRecs /\ IdleWorker.pc = "idle"
  BY DEF IdleWorker, WorkerRecs, Pcs, Marks
<1>2. worker' = [worker EXCEPT ![w] = IdleWorker]
  BY DEF End
<1> QED BY <1>1, <1>2, WorkerUpdate

\* It has found, or made, the next order.
LEMMA ChildIs ==
  ASSUME worker \in [Workers -> WorkerRecs], NEW w \in Workers, NEW c \in Orders,
         worker' = [worker EXCEPT ![w].pc = "finish", ![w].child = c]
  PROVE  /\ worker' \in [Workers -> WorkerRecs]
         /\ worker'[w].pc = "finish" /\ worker'[w].parent = worker[w].parent /\ worker'[w].child = c
         /\ \A v \in Workers \ {w} : worker'[v] = worker[v]
<1> DEFINE q == [worker[w] EXCEPT !.pc = "finish", !.child = c]
<1>1. q \in WorkerRecs /\ q.pc = "finish" /\ q.parent = worker[w].parent /\ q.child = c
  BY DEF WorkerRecs, Pcs
<1>2. worker' = [worker EXCEPT ![w] = q]
  OBVIOUS
<1> HIDE DEF q
<1> QED BY <1>1, <1>2, WorkerUpdate

\* It begins on a completed order.
LEMMA BeginIs ==
  ASSUME worker \in [Workers -> WorkerRecs], NEW w \in Workers, NEW p \in Orders,
         worker' = [worker EXCEPT ![w] = [IdleWorker EXCEPT !.pc = "trigger", !.parent = p]]
  PROVE  /\ worker' \in [Workers -> WorkerRecs]
         /\ worker'[w].pc = "trigger" /\ worker'[w].parent = p
         /\ \A v \in Workers \ {w} : worker'[v] = worker[v]
<1> DEFINE q == [IdleWorker EXCEPT !.pc = "trigger", !.parent = p]
<1>0. IdleWorker \in WorkerRecs
  BY DEF IdleWorker, WorkerRecs, Pcs, Marks
<1>1. q \in WorkerRecs /\ q.pc = "trigger" /\ q.parent = p
  BY <1>0 DEF WorkerRecs, Pcs
<1>2. worker' = [worker EXCEPT ![w] = q]
  OBVIOUS
<1> HIDE DEF q
<1> QED BY <1>1, <1>2, WorkerUpdate

-----------------------------------------------------------------------------
(* What becomes of the orders *)

\* A step that inserts nothing: what succeeded, was completed or was tried stays so.
Kept ==
  /\ policy' = policy /\ step' = step
  /\ \A o \in Orders :
       /\ dispatch[o] = "success" => dispatch'[o] = "success"
       /\ status[o] = "completed" => status'[o] = "completed"
       /\ NeverAttempted(o)' => NeverAttempted(o)
NoAttemptBut(S) == \A o \in Orders \ S : Attempted(o)' => Attempted(o)

\* An order is claimed.
LEMMA ClaimIs ==
  ASSUME RowsInv, NEW o \in Rows, ClaimDispatch(o),
         UNCHANGED <<policy, step, status, task, remote, posts>>
  PROVE  RowsInv' /\ Kept /\ NoAttemptBut({o}) /\ ~NeverAttempted(o)'
<1>1. /\ o \in Orders
      /\ dispatch' = [dispatch EXCEPT ![o] = "uncertain"]
      /\ sender' = [sender EXCEPT ![o] = "claimed"]
      /\ dispatch[o] = "not_sent" /\ step[o] > 0
  BY DEF ClaimDispatch, NeverAttempted, Unsent, Rows
<1>2. RowTypes'
  BY <1>1 DEF RowsInv, RowTypes
<1>3. \A p \in Orders : RowInv(p)'
  BY <1>1 DEF RowsInv, RowTypes, RowInv
<1>4. Kept /\ NoAttemptBut({o}) /\ ~NeverAttempted(o)'
  BY <1>1 DEF RowsInv, RowTypes, Kept, NoAttemptBut, Attempted, NeverAttempted, Unsent
<1> QED BY <1>2, <1>3, <1>4 DEF RowsInv

\* Orders are compensated; the sender of one of them may end.
LEMMA CompensateIs ==
  ASSUME RowsInv, NEW R \in SUBSET Rows, Compensate(R),
         UNCHANGED <<policy, step, task, remote, posts>>,
         sender' \in [Orders -> {"idle", "claimed", "waiting", "refused"}],
         \A o \in Orders : sender'[o] \in {sender[o], "idle"}
  PROVE  RowsInv' /\ Kept /\ NoAttemptBut({}) /\ \A o \in R : ~NeverAttempted(o)'
<1> DEFINE due == {o \in R : CompensationDue(o)}
<1>1. /\ \A o \in Orders : status'[o] = IF o \in due THEN "dispatch_error" ELSE status[o]
      /\ \A o \in Orders : dispatch'[o] = IF o \in due THEN "error" ELSE dispatch[o]
      /\ R \subseteq Orders
  BY DEF Compensate, Rows
<1>2. \A o \in due : /\ dispatch[o] \in {"not_sent", "error"} /\ status[o] # "completed"
                     /\ remote[o] \in {"none", "refused"} /\ step[o] > 0
                     /\ sender[o] \in {"idle", "refused"}
  BY <1>1 DEF RowsInv, RowTypes, RowInv, CompensationDue, Rows
<1>3. RowTypes'
  BY DEF RowsInv, RowTypes, Compensate, Statuses
<1>4. \A o \in R : ~NeverAttempted(o)'
  BY <1>1 DEF NeverAttempted, Unsent, CompensationDue, RowsInv, RowTypes
<1>5. ASSUME NEW o \in Orders, o \in due PROVE RowInv(o)'
  <2>1. status'[o] = "dispatch_error" /\ dispatch'[o] = "error" /\ sender'[o] \in {"idle", "refused"}
    BY <1>1, <1>2, <1>5
  <2> QED BY <2>1, <1>2, <1>5 DEF RowsInv, RowTypes, RowInv
<1>6. ASSUME NEW o \in Orders, o \notin due PROVE RowInv(o)'
  <2>1. status'[o] = status[o] /\ dispatch'[o] = dispatch[o] /\ sender'[o] \in {sender[o], "idle"}
    BY <1>1, <1>6
  <2> QED BY <2>1 DEF RowsInv, RowTypes, RowInv
<1>7. Kept /\ NoAttemptBut({})
  BY <1>1, <1>2 DEF Kept, NoAttemptBut, Attempted, NeverAttempted, Unsent, RowsInv, RowTypes
<1> QED BY <1>3, <1>4, <1>5, <1>6, <1>7 DEF RowsInv

\* A user sends or compensates an order, or the handler that sends one goes on.
LEMMA DispatchRows ==
  ASSUME RowsInv, DispatchNext
  PROVE  RowsInv' /\ Kept /\ (policy = "batch" => NoAttemptBut({}))
<1>1. PICK o \in Rows :
        \/ ManualDispatch(o) \/ ManualRollback(o) \/ RollbackNotSent(o)
        \/ SendCreate(o) \/ CreateNotSent(o)
        \/ CreateAccepted(o) \/ CreateRejected(o) \/ CreateUncertain(o)
  BY DEF DispatchNext
<1> o \in Orders /\ step[o] > 0
  BY DEF Rows
<1>2. CASE ManualDispatch(o)
  BY <1>2, ClaimIs DEF ManualDispatch, wireVars
<1>3. CASE ManualRollback(o)
  <2>1. RowsInv' /\ Kept /\ NoAttemptBut({})
    BY <1>3, CompensateIs DEF ManualRollback, wireVars, RowsInv, RowTypes
  <2> QED BY <2>1
<1>4. CASE RollbackNotSent(o)
  <2>1. /\ sender' \in [Orders -> {"idle", "claimed", "waiting", "refused"}]
        /\ \A p \in Orders : sender'[p] \in {sender[p], "idle"}
    BY <1>4 DEF RollbackNotSent, RowsInv, RowTypes
  <2>2. RowsInv' /\ Kept /\ NoAttemptBut({})
    BY <1>4, <2>1, CompensateIs DEF RollbackNotSent, wireVars
  <2> QED BY <2>2
<1>5. CASE SendCreate(o)
  <2>1. /\ sender[o] = "claimed" /\ posts[o] = 0 /\ remote[o] = "none" /\ dispatch[o] = "uncertain"
        /\ sender' = [sender EXCEPT ![o] = "waiting"]
        /\ UNCHANGED <<policy, step, status, dispatch, task>>
    BY <1>5 DEF SendCreate, orderVars, RowsInv, RowTypes, RowInv
  <2>2. posts' = [posts EXCEPT ![o] = 1] /\ remote' = [remote EXCEPT ![o] = "inflight"]
    <3>1. posts' = [posts EXCEPT ![o] = posts[o] + 1]
      BY <1>5 DEF SendCreate
    <3>2. remote' = [remote EXCEPT ![o] = IF remote[o] = "none" THEN "inflight" ELSE remote[o]]
      BY <1>5 DEF SendCreate
    <3>3. posts[o] + 1 = 1
      BY <2>1
    <3> QED BY <2>1, <3>1, <3>2, <3>3
  <2>3. RowTypes'
    BY <2>1, <2>2 DEF RowsInv, RowTypes, RemoteLive
  <2>4. \A p \in Orders : RowInv(p)'
    BY <2>1, <2>2 DEF RowsInv, RowTypes, RowInv
  <2>5. Kept /\ NoAttemptBut({})
    BY <2>1, <2>2 DEF Kept, NoAttemptBut, Attempted, NeverAttempted, Unsent, RowsInv, RowTypes
  <2> QED BY <2>3, <2>4, <2>5 DEF RowsInv
<1> DEFINE Learns == /\ task' \in [Orders -> BOOLEAN]
                     /\ \A p \in Orders : task[p] => task'[p]
                     /\ \A p \in Orders \ {o} : task'[p] = task[p]
           Ends(result, next) ==
             /\ sender[o] \in {"claimed", "waiting"}
             /\ dispatch' = [dispatch EXCEPT ![o] = result]
             /\ sender' = [sender EXCEPT ![o] = next]
             /\ UNCHANGED <<policy, step, remote, posts>>
           Moves == /\ status' \in [Orders -> Statuses]
                    /\ \A p \in Orders \ {o} : status'[p] = status[p]
                    /\ \/ status'[o] = status[o]
                       \/ status[o] = "pending_dispatch" /\ status'[o] = "dispatched"
<1>6. ASSUME NEW result \in {"uncertain", "success", "error"}, NEW next \in {"idle", "refused"},
             Ends(result, next), Learns, Moves,
             result = "success" => task'[o],
             result = "error" => remote[o] \in {"none", "refused"},
             next = "refused" => result = "error"
      PROVE  RowsInv' /\ Kept /\ NoAttemptBut({})
  <2>1. dispatch[o] = "uncertain"
    BY <1>6 DEF RowsInv, RowTypes, RowInv
  <2>2. RowTypes'
    BY <1>6 DEF RowsInv, RowTypes
  <2>3. ASSUME NEW p \in Orders PROVE RowInv(p)'
    <3>1. CASE p = o
      BY <1>6, <2>1, <3>1 DEF RowsInv, RowTypes, RowInv
    <3>2. CASE p # o
      BY <1>6, <2>1, <3>2 DEF RowsInv, RowTypes, RowInv
    <3> QED BY <3>1, <3>2
  <2>4. Kept /\ NoAttemptBut({})
    BY <1>6, <2>1 DEF Kept, NoAttemptBut, Attempted, NeverAttempted, Unsent, RowsInv, RowTypes
  <2> QED BY <2>2, <2>3, <2>4 DEF RowsInv
<1> HIDE DEF Learns
<1>7. ASSUME NEW known \in BOOLEAN, task' = [task EXCEPT ![o] = @ \/ known]
      PROVE  Learns /\ (known => task'[o])
  BY <1>7, Zenon DEF Learns, RowsInv, RowTypes
<1>8. ASSUME UNCHANGED status
      PROVE  Moves
  BY <1>8 DEF RowsInv, RowTypes
<1>9. CASE CreateNotSent(o)
  <2>1. remote[o] = "none" /\ Ends("error", "refused") /\ Moves
    BY <1>8, <1>9 DEF CreateNotSent, Outcome, wireVars, RowsInv, RowTypes, RowInv
  <2>2. Learns
    BY <1>7, <1>9, Zenon DEF CreateNotSent, Outcome
  <2> HIDE DEF Ends, Moves
  <2> QED BY <1>6, <2>1, <2>2
<1>10. CASE CreateRejected(o)
  <2>1. remote[o] = "refused" /\ Ends("error", "idle") /\ Moves
    BY <1>8, <1>10 DEF CreateRejected, Outcome, wireVars
  <2>2. Learns
    BY <1>7, <1>10, Zenon DEF CreateRejected, Outcome
  <2> HIDE DEF Ends, Moves
  <2> QED BY <1>6, <2>1, <2>2
<1>11. CASE CreateAccepted(o)
  <2>1. Ends("success", "idle") /\ Moves
    BY <1>11 DEF CreateAccepted, Outcome, wireVars, RowsInv, RowTypes, Statuses, ActiveStatuses, Movable
  <2>2. Learns /\ task'[o]
    BY <1>7, <1>11, Zenon DEF CreateAccepted, Outcome
  <2> HIDE DEF Ends, Moves
  <2> QED BY <1>6, <2>1, <2>2
<1>12. CASE CreateUncertain(o)
  <2>1. Ends("uncertain", "idle") /\ Moves
    BY <1>8, <1>12 DEF CreateUncertain, Outcome, wireVars, Unsettled
  <2>2. Learns
    <3> DEFINE seen == remote[o] \in {"created"} \cup RemoteDone
    <3>1. PICK known \in {FALSE, seen} : task' = [task EXCEPT ![o] = @ \/ known]
      BY <1>12, Zenon DEF CreateUncertain, Outcome
    <3>2. {FALSE, seen} \subseteq BOOLEAN
      OBVIOUS
    <3> HIDE DEF seen
    <3> QED BY <1>7, <3>1, <3>2, Zenon
  <2> HIDE DEF Ends, Moves
  <2> QED BY <1>6, <2>1, <2>2
<1> QED BY <1>1, <1>2, <1>3, <1>4, <1>5, <1>9, <1>10, <1>11, <1>12

\* The RCS goes on, or an order is completed, closed or cancelled.
LEMMA OrderRows ==
  ASSUME RowsInv, OrderNext
  PROVE  RowsInv' /\ Kept /\ NoAttemptBut({})
<1>1. PICK o \in Rows : \/ RcsStep(o) \/ CloseEnded(o) \/ Cancel(o) \/ ForceClose(o)
                        \/ \E w \in Hooks : Complete(w, o)
  BY DEF OrderNext
<1> o \in Orders /\ step[o] > 0
  BY DEF Rows
<1>2. CASE RcsStep(o)
  <2>1. /\ remote[o] \in {"inflight", "created"}
        /\ \E to \in {"created", "refused"} \cup RemoteDone : remote' = [remote EXCEPT ![o] = to]
        /\ UNCHANGED <<policy, step, status, dispatch, task, posts, sender>>
    BY <1>2 DEF RcsStep, orderVars
  <2>2. RowTypes'
    BY <2>1 DEF RowsInv, RowTypes, RemoteLive, RemoteDone
  <2>3. \A p \in Orders : RowInv(p)'
    BY <2>1 DEF RowsInv, RowTypes, RowInv
  <2>4. Kept /\ NoAttemptBut({})
    BY <2>1 DEF Kept, NoAttemptBut, Attempted, NeverAttempted, Unsent
  <2> QED BY <2>2, <2>3, <2>4 DEF RowsInv
<1>3. ASSUME NEW final \in {"completed", "closed", "cancel_requested"},
             status' = [status EXCEPT ![o] = final],
             status[o] \in ActiveStatuses, final = "completed" => task[o],
             UNCHANGED <<policy, step, dispatch, task, wireVars, sender>>
      PROVE  RowsInv' /\ Kept /\ NoAttemptBut({})
  <2>1. RowTypes'
    BY <1>3 DEF RowsInv, RowTypes, wireVars, Statuses, ActiveStatuses
  <2>2. \A p \in Orders : RowInv(p)'
    BY <1>3 DEF RowsInv, RowTypes, RowInv, wireVars
  <2>3. Kept /\ NoAttemptBut({})
    BY <1>3 DEF Kept, NoAttemptBut, Attempted, NeverAttempted, Unsent, RowsInv, RowTypes, wireVars,
                ActiveStatuses, Movable
  <2> QED BY <2>1, <2>2, <2>3 DEF RowsInv
<1>4. CASE CloseEnded(o)
  BY <1>3, <1>4 DEF CloseEnded, ActiveStatuses
<1>5. CASE Cancel(o)
  BY <1>3, <1>5 DEF Cancel, ActiveStatuses
<1>6. CASE ForceClose(o)
  BY <1>3, <1>6 DEF ForceClose, Active
<1>7. CASE \E w \in Hooks : Complete(w, o)
  BY <1>3, <1>7 DEF Complete, ActiveStatuses
<1> QED BY <1>1, <1>2, <1>4, <1>5, <1>6, <1>7

-----------------------------------------------------------------------------
(* What a step that inserts nothing leaves as it was *)

\* The steps of the group stay what they are.
LEMMA StepsKept ==
  ASSUME StepsInv, Kept
  PROVE  StepsInv'
BY DEF StepsInv, Kept, Rows

\* The order of the group stands while only an order whose turn it is is tried.
LEMMA SeqKept ==
  ASSUME SeqInv, Kept, NEW S, NoAttemptBut(S),
         \/ policy = "chain"
         \/ \A o \in S : \A p \in Rows : step[p] < step[o] => Behind(p)
  PROVE  SeqInv'
<1>1. Rows' = Rows /\ Rows \subseteq Orders
  BY DEF Kept, Rows
<1>2. \A p \in Rows : Behind(p) => Behind(p)'
  BY DEF Kept, Behind, Rows
<1>3. ASSUME NEW o \in Rows, NEW p \in Rows, step[p] < step[o],
             policy = "chain" \/ Attempted(o)'
      PROVE  Behind(p)'
  <2>1. Behind(p)
    BY <1>1, <1>3 DEF SeqInv, NoAttemptBut
  <2> QED BY <2>1, <1>2
<1> QED BY <1>1, <1>3 DEF SeqInv, Kept

\* The hooks hold what they held.
LEMMA WorkersKept ==
  ASSUME WorkersInv, Kept, UNCHANGED <<worker, todo>>
  PROVE  WorkersInv'
<1>1. \A w \in Workers : Holds(worker[w])'
  <2> TAKE w \in Workers
  <2> DEFINE k == worker[w]
  <2>1. k' = k /\ Holds(k)
    BY DEF WorkersInv
  <2> QED BY <2>1 DEF Holds, Kept, Rows
<1> QED BY <1>1 DEF WorkersInv, Kept, Rows

\* One hook goes on.
LEMMA OneWorker ==
  ASSUME WorkersInv, Kept, UNCHANGED todo, NEW w \in Workers, Holds(worker[w])',
         \A v \in Workers \ {w} : worker'[v] = worker[v]
  PROVE  WorkersInv'
<1>1. ASSUME NEW v \in Workers, v # w PROVE Holds(worker[v])'
  <2>1. worker'[v] = worker[v] /\ Holds(worker[v])
    BY <1>1 DEF WorkersInv
  <2> QED BY <2>1 DEF Holds, Kept, Rows
<1> QED BY <1>1 DEF WorkersInv, Kept, Rows

\* The request of the batch has behind it what it had.
LEMMA BatchKept ==
  ASSUME BatchInv, Kept, UNCHANGED batch
  PROVE  BatchInv'
<1>1. Legs \subseteq Orders
  BY Numbers
<1> QED BY <1>1 DEF BatchInv, Kept, NeverAttempted, Unsent

\* The marks say what they said.
LEMMA MarksKept ==
  ASSUME MarkInv, Kept, UNCHANGED mark
  PROVE  MarkInv'
BY DEF MarkInv, Kept, Rows

\* Somebody still sends or compensates the legs that are left.
LEMMA UnsentKept ==
  ASSUME UnsentInv, Kept, UNCHANGED <<mark, batch, boot>>
  PROVE  UnsentInv'
BY DEF UnsentInv, Kept, Rows, AllSending, ChainStopped, NeverAttempted, Unsent

\* Nothing is left to send, whatever the request of the batch does.
LEMMA NoneLeft ==
  ASSUME Kept, \A o \in Rows : ~NeverAttempted(o)
  PROVE  UnsentInv'
BY DEF UnsentInv, Kept, Rows, NeverAttempted, Unsent

\* Somebody stops the group.
LEMMA StopIs ==
  ASSUME MarkTypes, MarkInv, Kept, StopGroup, Rows # {}
  PROVE  MarkTypes' /\ MarkInv' /\ UnsentInv'
<1>1. /\ Rows' = Rows /\ Rows \subseteq Orders
      /\ \A o \in Rows : mark'[o] = "cancelled"
      /\ \A o \in Orders \ Rows : mark'[o] = mark[o]
  BY DEF Kept, StopGroup, Rows
<1>2. MarkTypes'
  BY DEF MarkTypes, StopGroup, Marks
<1>3. MarkInv'
  BY <1>1 DEF MarkInv
<1>4. ChainStopped'
  BY <1>1 DEF ChainStopped
<1> QED BY <1>2, <1>3, <1>4 DEF UnsentInv

-----------------------------------------------------------------------------
(* Senders, users and the RCS *)

\* A step of a sender keeps the invariant.
LEMMA DispatchKeeps ==
  ASSUME IInv, DispatchNext
  PROVE  IInv'
<1>1. UNCHANGED <<mark, worker, batch, bootVars, envVars>>
  BY DEF DispatchNext, ManualDispatch, ManualRollback, RollbackNotSent, SendCreate, CreateNotSent,
         CreateAccepted, CreateRejected, CreateUncertain, Outcome, orderVars
<1>2. RowsInv' /\ Kept /\ (policy = "batch" => NoAttemptBut({}))
  BY DispatchRows DEF IInv
<1>3. policy \in {"chain", "batch"}
  BY GroupAssumption DEF IInv, Types, RowTypes
<1>4. SeqInv'
  <2>1. CASE policy = "chain"
    <3>1. NoAttemptBut(Orders)
      BY DEF NoAttemptBut
    <3> QED BY <2>1, <3>1, <1>2, SeqKept DEF IInv
  <2>2. CASE policy = "batch"
    BY <2>2, <1>2, SeqKept DEF IInv
  <2> QED BY <2>1, <2>2, <1>3
<1>5. Types'
  BY <1>1, <1>2 DEF IInv, Types, RowsInv, MarkTypes, ThreadTypes, CountTypes, bootVars, envVars
<1>6. StepsInv' /\ WorkersInv' /\ BatchInv' /\ MarkInv' /\ UnsentInv'
  BY <1>1, <1>2, StepsKept, WorkersKept, BatchKept, MarksKept, UnsentKept DEF IInv, bootVars
<1> QED BY <1>2, <1>4, <1>5, <1>6 DEF IInv

\* So does a step of the RCS, or the end of an order.
LEMMA OrderKeeps ==
  ASSUME IInv, OrderNext
  PROVE  IInv'
<1>1. UNCHANGED <<batch, bootVars, envVars>>
  BY DEF OrderNext, RcsStep, CloseEnded, Cancel, ForceClose, Complete
<1>2. RowsInv' /\ Kept /\ NoAttemptBut({})
  BY OrderRows DEF IInv
<1>3. SeqInv' /\ StepsInv' /\ BatchInv'
  BY <1>1, <1>2, SeqKept, StepsKept, BatchKept DEF IInv
<1>4. MarkTypes' /\ MarkInv' /\ UnsentInv'
  <2>1. CASE UNCHANGED mark
    BY <2>1, <1>1, <1>2, MarksKept, UnsentKept DEF IInv, Types, MarkTypes, bootVars
  <2>2. CASE StopGroup /\ Rows # {}
    BY <2>2, <1>2, StopIs DEF IInv, Types
  <2>3. UNCHANGED mark \/ (StopGroup /\ Rows # {})
    BY DEF OrderNext, RcsStep, CloseEnded, Cancel, ForceClose, Complete, orderVars
  <2> QED BY <2>1, <2>2, <2>3
<1>5. worker' \in [Workers -> WorkerRecs] /\ WorkersInv'
  <2>1. CASE UNCHANGED worker
    BY <2>1, <1>1, <1>2, WorkersKept DEF IInv, Types, ThreadTypes, bootVars
  <2>2. ASSUME NEW o \in Rows, NEW w \in Hooks, Complete(w, o)
        PROVE  worker' \in [Workers -> WorkerRecs] /\ WorkersInv'
    <3>1. w \in Workers /\ o \in Orders
      BY Numbers DEF Rows
    <3>2. /\ worker' \in [Workers -> WorkerRecs]
          /\ worker'[w].pc = "trigger" /\ worker'[w].parent = o
          /\ \A v \in Workers \ {w} : worker'[v] = worker[v]
      BY <2>2, <3>1, BeginIs DEF IInv, Types, ThreadTypes, Complete
    <3>3. Holds(worker[w])'
      BY <3>2, <1>2 DEF Holds, Kept, Rows
    <3> QED BY <3>1, <3>2, <3>3, <1>1, <1>2, OneWorker DEF IInv, bootVars
  <2>3. UNCHANGED worker \/ \E o \in Rows, w \in Hooks : Complete(w, o)
    BY DEF OrderNext, RcsStep, CloseEnded, Cancel, ForceClose
  <2> QED BY <2>1, <2>2, <2>3
<1>6. Types'
  BY <1>1, <1>2, <1>4, <1>5 DEF IInv, Types, RowsInv, ThreadTypes, CountTypes, bootVars, envVars
<1> QED BY <1>2, <1>3, <1>4, <1>5, <1>6 DEF IInv

-----------------------------------------------------------------------------
(* The request of a batch, and its recovery *)

\* What the request may do, once what becomes of the orders is known.
LEMMA RequestIs ==
  ASSUME IInv, RowsInv', Kept, NoAttemptBut({batch.leg}),
         NoAttemptBut({}) \/ (policy = "batch" /\ batch.pc # "idle"),
         UNCHANGED <<worker, bootVars>>, CountTypes', MarkTypes', MarkInv',
         batch' \in BatchRecs, BatchInv', UnsentInv'
  PROVE  IInv'
<1>1. SeqInv'
  <2>1. CASE NoAttemptBut({})
    BY <2>1, SeqKept DEF IInv
  <2>2. CASE policy = "batch" /\ batch.pc # "idle"
    <3>1. \A p \in Rows : step[p] < step[batch.leg] => p \in Legs /\ p < batch.leg
      BY <2>2, Numbers DEF IInv, BatchInv, StepsInv, Rows, Legs, Orders
    <3>2. \A p \in Rows : step[p] < step[batch.leg] => Behind(p)
      BY <2>2, <3>1 DEF IInv, BatchInv, Behind
    <3> QED BY <3>2, SeqKept DEF IInv
  <2> QED BY <2>1, <2>2
<1>2. StepsInv' /\ WorkersInv'
  BY StepsKept, WorkersKept DEF IInv, bootVars
<1>3. Types'
  BY DEF IInv, Types, RowsInv, ThreadTypes, bootVars
<1> QED BY <1>1, <1>2, <1>3 DEF IInv

\* A step that changes no order.
LEMMA NoRowChange ==
  ASSUME IInv, UNCHANGED <<policy, step, status, dispatch, task, wireVars, sender>>
  PROVE  RowsInv' /\ Kept /\ \A S : NoAttemptBut(S)
<1>1. RowTypes' /\ \A o \in Orders : RowInv(o)'
  BY DEF IInv, RowsInv, RowTypes, RowInv, wireVars
<1> QED BY <1>1 DEF RowsInv, Kept, NoAttemptBut, Attempted, NeverAttempted, Unsent, wireVars

\* The request of a batch keeps the invariant.
LEMMA BatchKeeps ==
  ASSUME IInv, BatchStep
  PROVE  IInv'
<1>0. batch.pc # "idle" /\ policy = "batch" /\ batch.leg \in Legs
  <2>1. batch.pc # "idle"
    BY DEF BatchStep, CheckLeg, DispatchLeg, DispatchFails, JudgeLeg, StopLeg, StopRefused, MarkGroup
  <2> QED BY <2>1 DEF IInv, BatchInv
<1> PICK leg \in Legs : leg = batch.leg
  BY <1>0
<1> DEFINE Goes(pc, next, result) ==
             batch'.pc = pc /\ batch'.leg = next /\ batch'.result = result /\ batch' \in BatchRecs
<1>1. /\ batch.pc # "idle" /\ policy = "batch" /\ leg = batch.leg /\ leg \in Orders
      /\ batch.result \in Results /\ batch \in BatchRecs
      /\ \A p \in Legs : p < leg => dispatch[p] = "success"
  BY <1>0, Numbers DEF IInv, BatchInv, Types, ThreadTypes
<1>2. /\ \A o \in Orders : step[o] > 0 <=> o \in Legs
      /\ Rows = Legs /\ leg \in Rows
  BY <1>1, Numbers DEF IInv, StepsInv, Rows, Legs, Orders
<1>3. Results \subseteq Marks
  BY DEF Results, Marks
<1>4. ASSUME NEW pc \in BatchPcs, NEW next \in Legs, NEW result \in Results,
             batch' = [pc |-> pc, leg |-> next, result |-> result]
      PROVE  Goes(pc, next, result)
  BY <1>3, <1>4 DEF BatchRecs
<1>5. batch = [pc |-> batch.pc, leg |-> leg, result |-> batch.result]
  BY <1>1 DEF BatchRecs
<1>6. CASE CheckLeg
  <2>1. UNCHANGED <<orderVars, wireVars, sender, worker, bootVars, envVars>>
    BY <1>6 DEF CheckLeg
  <2>2. RowsInv' /\ Kept /\ NoAttemptBut({leg}) /\ NoAttemptBut({})
    BY <2>1, NoRowChange DEF orderVars
  <2>3. \E pc \in {"dispatch", "abort"}, result \in Results : Goes(pc, leg, result)
    <3>1. \/ batch' = [pc |-> "dispatch", leg |-> leg, result |-> batch.result]
          \/ batch' = [pc |-> "abort", leg |-> leg, result |-> "batch_partial"]
      BY <1>5, <1>6 DEF CheckLeg
    <3> QED BY <3>1, <1>1, <1>4 DEF BatchPcs, Results
  <2>4. BatchInv'
    BY <1>1, <2>1, <2>3 DEF BatchInv, orderVars
  <2>5. UnsentInv'
    BY <1>6, <2>1, <2>3 DEF IInv, UnsentInv, CheckLeg, orderVars, Rows, AllSending, ChainStopped,
       NeverAttempted, Unsent
  <2>6. MarkTypes' /\ MarkInv' /\ CountTypes'
    BY <2>1, <2>2, MarksKept DEF IInv, Types, MarkTypes, CountTypes, orderVars, envVars
  <2> QED BY <2>1, <2>2, <2>3, <2>4, <2>5, <2>6, <1>1, RequestIs
<1>7. ASSUME RowsInv', Kept, NoAttemptBut({leg}), ~NeverAttempted(leg)', Goes("judge", leg, batch.result),
             batch.pc = "dispatch", CountTypes', UNCHANGED <<mark, worker, bootVars>>
      PROVE  IInv'
  <2>1. BatchInv'
    BY <1>1, <1>7, Numbers DEF BatchInv, Kept, NeverAttempted, Unsent
  <2>2. UnsentInv'
    BY <1>7 DEF IInv, UnsentInv, Kept, Rows, AllSending, ChainStopped, NeverAttempted, Unsent
  <2>3. MarkTypes' /\ MarkInv'
    BY <1>7, MarksKept DEF IInv, Types, MarkTypes
  <2> QED BY <1>1, <1>7, <2>1, <2>2, <2>3, <1>1, RequestIs
<1>8. CASE DispatchLeg
  <2>1. Goes("judge", leg, batch.result)
    <3>1. batch' = [pc |-> "judge", leg |-> leg, result |-> batch.result]
      BY <1>5, <1>8 DEF DispatchLeg
    <3> QED BY <3>1, <1>1, <1>4 DEF BatchPcs
  <2>2. RowsInv' /\ Kept /\ NoAttemptBut({leg}) /\ ~NeverAttempted(leg)'
    <3>1. CASE NeverAttempted(leg)
      BY <1>2, <1>8, <3>1, ClaimIs DEF DispatchLeg, IInv, wireVars
    <3>2. CASE ~NeverAttempted(leg)
      BY <1>1, <1>8, <3>2, NoRowChange DEF DispatchLeg, Kept
    <3> QED BY <3>1, <3>2
  <2>3. batch.pc = "dispatch" /\ UNCHANGED <<mark, worker, bootVars, envVars>>
    BY <1>8 DEF DispatchLeg
  <2> QED BY <1>7, <2>1, <2>2, <2>3 DEF IInv, Types, CountTypes, envVars
<1>9. CASE DispatchFails
  <2>1. Goes("judge", leg, batch.result)
    <3>1. batch' = [pc |-> "judge", leg |-> leg, result |-> batch.result]
      BY <1>5, <1>9 DEF DispatchFails
    <3> QED BY <3>1, <1>1, <1>4 DEF BatchPcs
  <2>2. RowsInv' /\ Kept /\ NoAttemptBut({}) /\ ~NeverAttempted(leg)'
    <3> DEFINE R == {o \in {leg} : dispatch[o] = "not_sent"}
    <3>1. R \in SUBSET Rows /\ Compensate(R)
      BY <1>2, <1>9 DEF DispatchFails
    <3>2. leg \notin R => ~NeverAttempted(leg)
      BY DEF NeverAttempted, Unsent
    <3>3. UNCHANGED <<policy, step, task, wireVars, sender>>
      BY <1>9 DEF DispatchFails
    <3> HIDE DEF R
    <3>4. RowsInv' /\ Kept /\ NoAttemptBut({}) /\ \A o \in R : ~NeverAttempted(o)'
      BY <3>1, <3>3, CompensateIs DEF IInv, wireVars, RowsInv, RowTypes
    <3> QED BY <1>1, <3>2, <3>4 DEF Kept
  <2>3. /\ batch.pc = "dispatch" /\ UNCHANGED <<mark, worker, bootVars, visits, crashes>>
        /\ failures' = failures + 1
    BY <1>9 DEF DispatchFails
  <2> QED BY <1>7, <2>1, <2>2, <2>3 DEF IInv, Types, CountTypes, NoAttemptBut
<1>10. CASE JudgeLeg
  <2>1. UNCHANGED <<orderVars, wireVars, sender, worker, bootVars, envVars>>
    BY <1>10 DEF JudgeLeg
  <2>2. RowsInv' /\ Kept /\ NoAttemptBut({leg}) /\ NoAttemptBut({})
    BY <2>1, NoRowChange DEF orderVars
  <2>3. ~NeverAttempted(leg)
    BY <1>1, <1>10 DEF IInv, BatchInv, JudgeLeg
  <2>4. MarkTypes' /\ MarkInv' /\ CountTypes'
    BY <2>1, <2>2, MarksKept DEF IInv, Types, MarkTypes, CountTypes, orderVars, envVars
  <2>5. batch' \in BatchRecs /\ BatchInv' /\ UnsentInv'
    <3>1. CASE Accepted(leg) /\ leg = Steps
      <4>1. Goes("final", leg, batch.result)
        <5>1. batch' = [pc |-> "final", leg |-> leg, result |-> batch.result]
          BY <1>5, <1>10, <3>1 DEF JudgeLeg
        <5> QED BY <5>1, <1>1, <1>4 DEF BatchPcs
      <4>2. BatchInv'
        BY <1>1, <2>1, <4>1 DEF BatchInv, orderVars
      <4>3. \A o \in Rows : dispatch[o] = "success"
        BY <1>1, <1>2, <3>1 DEF Accepted, Legs
      <4>4. UnsentInv'
        BY <2>2, <4>3, NoneLeft DEF NeverAttempted, Unsent
      <4> QED BY <4>1, <4>2, <4>4
    <3>2. CASE Accepted(leg) /\ leg # Steps
      <4>1. leg + 1 \in Legs /\ \A p \in Legs : p < leg + 1 => p < leg \/ p = leg
        BY <1>1, <3>2, Numbers DEF Legs
      <4>2. Goes("check", leg + 1, batch.result)
        <5>1. batch' = [pc |-> "check", leg |-> leg + 1, result |-> batch.result]
          BY <1>5, <1>10, <3>2 DEF JudgeLeg
        <5> QED BY <5>1, <4>1, <1>1, <1>4 DEF BatchPcs
      <4>3. BatchInv'
        BY <1>1, <2>1, <3>2, <4>1, <4>2 DEF BatchInv, orderVars, Accepted
      <4>4. UnsentInv'
        BY <1>10, <2>1, <4>2 DEF IInv, UnsentInv, JudgeLeg, orderVars, Rows, AllSending, ChainStopped,
           NeverAttempted, Unsent
      <4> QED BY <4>2, <4>3, <4>4
    <3>3. CASE ~Accepted(leg)
      <4>1. \E result \in Results : Goes("stop", leg, result)
        <5>1. \E result \in {"batch_uncertain", "batch_partial"} :
                batch' = [pc |-> "stop", leg |-> leg, result |-> result]
          BY <1>5, <1>10, <3>3 DEF JudgeLeg
        <5> QED BY <5>1, <1>1, <1>4 DEF BatchPcs, Results
      <4>2. BatchInv'
        BY <1>1, <2>1, <2>2, <2>3, <4>1 DEF BatchInv, Kept, orderVars
      <4>3. UnsentInv'
        BY <1>10, <2>1, <4>1 DEF IInv, UnsentInv, JudgeLeg, orderVars, Rows, AllSending, ChainStopped,
           NeverAttempted, Unsent
      <4> QED BY <4>1, <4>2, <4>3
    <3> QED BY <3>1, <3>2, <3>3
  <2> QED BY <2>1, <2>2, <2>4, <2>5, <1>1, RequestIs
<1>11. CASE StopLeg
  <2>1. RowsInv' /\ Kept /\ NoAttemptBut({})
    <3>1. Min(Remaining) \in Remaining /\ Remaining \subseteq Legs
      BY <1>1, <1>11, MinIs, Numbers DEF StopLeg, Remaining, Legs
    <3>2. {Min(Remaining)} \in SUBSET Rows
      BY <1>2, <3>1
    <3>3. UNCHANGED <<policy, step, task, wireVars, sender>> /\ Compensate({Min(Remaining)})
      BY <1>11 DEF StopLeg
    <3> QED BY <3>2, <3>3, CompensateIs DEF IInv, wireVars, RowsInv, RowTypes
  <2>2. UNCHANGED <<mark, worker, batch, bootVars, envVars>>
    BY <1>11 DEF StopLeg
  <2>3. MarkTypes' /\ MarkInv' /\ CountTypes' /\ BatchInv' /\ UnsentInv' /\ batch' \in BatchRecs
    BY <1>1, <2>1, <2>2, MarksKept, BatchKept, UnsentKept DEF IInv, Types, MarkTypes, CountTypes, envVars, bootVars
  <2> QED BY <2>1, <2>2, <2>3, <1>1, RequestIs DEF NoAttemptBut
<1>12. CASE StopRefused
  <2>1. Goes("final", leg, batch.result)
    <3>1. batch' = [pc |-> "final", leg |-> leg, result |-> batch.result]
      BY <1>5, <1>12 DEF StopRefused
    <3> QED BY <3>1, <1>1, <1>4 DEF BatchPcs
  <2>2. UNCHANGED <<policy, step, task, mark, wireVars, sender, worker, bootVars, envVars>>
    BY <1>12 DEF StopRefused
  <2>3. RowsInv' /\ Kept /\ NoAttemptBut({})
    <3> DEFINE R == {o \in {leg} : dispatch[o] = "error"}
    <3>1. R \in SUBSET Rows /\ Compensate(R)
      BY <1>2, <1>12 DEF StopRefused
    <3> HIDE DEF R
    <3> QED BY <2>2, <3>1, CompensateIs DEF IInv, wireVars, RowsInv, RowTypes
  <2>4. \A o \in Rows : ~NeverAttempted(o)
    <3>1. ASSUME NEW o \in Legs, NeverAttempted(o) PROVE FALSE
      <4>1. CompensationDue(o) /\ Unsent(o) /\ dispatch[o] # "success"
        BY <3>1 DEF NeverAttempted, Unsent, CompensationDue
      <4>2. o \in leg..Steps
        BY <1>1, <4>1, <3>1, Numbers DEF Legs
      <4>3. o = leg => batch.pc = "abort"
        BY <1>1, <1>12, <3>1 DEF StopRefused, IInv, BatchInv
      <4>4. o \in Remaining
        BY <4>1, <4>2, <4>3 DEF Remaining
      <4> QED BY <4>4, <1>12 DEF StopRefused
    <3> QED BY <3>1, <1>2
  <2>5. BatchInv' /\ UnsentInv'
    BY <1>1, <2>1, <2>3, <2>4, NoneLeft, Numbers DEF BatchInv, Kept
  <2>6. MarkTypes' /\ MarkInv' /\ CountTypes'
    BY <2>2, <2>3, MarksKept DEF IInv, Types, MarkTypes, CountTypes, envVars
  <2> QED BY <2>1, <2>2, <2>3, <2>5, <2>6, <1>1, RequestIs DEF NoAttemptBut
<1>13. CASE MarkGroup
  <2>1. UNCHANGED <<policy, step, status, dispatch, task, wireVars, sender, worker, bootVars, envVars>>
    BY <1>13 DEF MarkGroup
  <2>2. RowsInv' /\ Kept /\ NoAttemptBut({leg}) /\ NoAttemptBut({})
    BY <2>1, NoRowChange
  <2>3. batch' \in BatchRecs /\ BatchInv'
    BY <1>13 DEF MarkGroup, IdleBatch, BatchInv, BatchRecs, BatchPcs, Marks
  <2>4. \A o \in Orders : mark'[o] = IF o \in Rows /\ mark[o] # "cancelled" THEN batch.result ELSE mark[o]
    BY <1>13 DEF MarkGroup
  <2>5. MarkTypes'
    BY <1>1, <1>3, <1>13 DEF MarkGroup, MarkTypes, IInv, Types
  <2>6. Rows' = Rows /\ Rows \subseteq Orders
    BY <2>1 DEF Rows
  <2>7. MarkInv'
    BY <1>1, <2>1, <2>4, <2>6 DEF IInv, MarkInv, Results
  <2>8. UnsentInv'
    BY <1>1, <1>13, <2>1, <2>4, <2>6 DEF IInv, UnsentInv, MarkGroup, ChainStopped, NeverAttempted, Unsent
  <2> QED BY <2>1, <2>2, <2>3, <2>5, <2>7, <2>8, <1>1, RequestIs DEF IInv, Types, CountTypes, envVars
<1> QED BY <1>6, <1>8, <1>9, <1>10, <1>11, <1>12, <1>13 DEF BatchStep

-----------------------------------------------------------------------------
(* The hooks of a chain *)

\* What a hook may do, once what becomes of orders and marks is known.
LEMMA HookIs ==
  ASSUME IInv, NEW w \in Workers, RowsInv', Kept, policy = "chain" \/ NoAttemptBut({}),
         MarkTypes', MarkInv', UnsentInv', CountTypes', missed' \subseteq Orders,
         UNCHANGED <<batch, boot, todo>>,
         worker' \in [Workers -> WorkerRecs], Holds(worker[w])',
         \A v \in Workers \ {w} : worker'[v] = worker[v]
  PROVE  IInv'
<1>1. SeqInv'
  <2>1. NoAttemptBut(Orders)
    BY DEF NoAttemptBut
  <2> QED BY <2>1, SeqKept DEF IInv
<1>2. StepsInv' /\ BatchInv' /\ WorkersInv'
  BY StepsKept, BatchKept, OneWorker DEF IInv
<1>3. Types'
  BY DEF IInv, Types, RowsInv, ThreadTypes
<1> QED BY <1>1, <1>2, <1>3 DEF IInv

\* A hook marks rows of a chain that nobody stopped.
LEMMA MarksAre ==
  ASSUME MarkInv, Kept, policy = "chain", mark' \in [Orders -> Marks], NEW R \in SUBSET Rows,
         \A o \in Orders \ R : mark'[o] = mark[o],
         \A o \in R : /\ mark[o] # "cancelled"
                      /\ mark'[o] \notin {"cancelled", "batch_sending"}
                      /\ mark'[o] = "completed" => step[o] = Steps /\ status[o] = "completed"
  PROVE  MarkTypes' /\ MarkInv' /\ UnsentInv'
<1>1. Rows' = Rows /\ Rows \subseteq Orders /\ policy' = "chain" /\ step' = step
      /\ \A o \in Orders : status[o] = "completed" => status'[o] = "completed"
  BY DEF Kept, Rows
<1>2. \A o \in Orders \ Rows : mark'[o] = "none"
  BY <1>1 DEF MarkInv
<1>3. \A o \in Rows : mark'[o] # "batch_sending"
                      /\ (mark'[o] = "completed" => step[o] = Steps /\ status'[o] = "completed")
  BY <1>1 DEF MarkInv
<1>4. ASSUME NEW o \in Rows, NEW p \in Rows, mark'[o] = "cancelled" PROVE mark'[p] = "cancelled"
  <2>1. o \notin R /\ mark[o] = "cancelled"
    BY <1>1, <1>4
  <2>2. mark[p] = "cancelled"
    BY <2>1 DEF MarkInv
  <2> QED BY <1>1, <2>2
<1> QED BY <1>1, <1>2, <1>3, <1>4 DEF MarkInv, MarkTypes, UnsentInv

\* A hook that changes no order and no mark.
LEMMA OnlyGoes ==
  ASSUME IInv, NEW w \in Workers, CountTypes', missed' \subseteq Orders,
         UNCHANGED <<orderVars, wireVars, sender, batch, boot, todo>>,
         worker' \in [Workers -> WorkerRecs], Holds(worker[w])',
         \A v \in Workers \ {w} : worker'[v] = worker[v]
  PROVE  IInv'
<1>1. RowsInv' /\ Kept /\ NoAttemptBut({})
  BY NoRowChange DEF orderVars
<1>2. MarkTypes' /\ MarkInv' /\ UnsentInv'
  BY <1>1, MarksKept, UnsentKept DEF IInv, Types, MarkTypes, orderVars
<1> QED BY <1>1, <1>2, HookIs

\* It looks at a completed order.
LEMMA TriggerKeeps ==
  ASSUME IInv, NEW w \in Workers, Trigger(w)
  PROVE  IInv'
<1> DEFINE p == worker[w].parent
<1>1. /\ p \in Rows /\ p \in Orders /\ worker \in [Workers -> WorkerRecs]
      /\ UNCHANGED <<policy, step, status, dispatch, task, wireVars, sender, batch, bootVars, envVars>>
      /\ Rows' = Rows
  BY DEF Trigger, IInv, WorkersInv, Holds, Types, ThreadTypes, Rows
<1>2. CountTypes' /\ missed' \subseteq Orders
  BY <1>1 DEF IInv, Types, CountTypes, ThreadTypes, bootVars, envVars
<1>3. Continues(p) /\ ~LastStep(p) => policy = "chain" /\ step[p] < Steps
  <2>1. step[p] \in 0..Steps /\ Steps \in Nat
    BY <1>1, Numbers DEF IInv, Types, RowTypes
  <2> QED BY <2>1 DEF Continues, LastStep
<1>4. CASE Skip(w, p)
  <2>1. /\ worker' \in [Workers -> WorkerRecs] /\ worker'[w].pc = "idle"
        /\ \A v \in Workers \ {w} : worker'[v] = worker[v]
    BY <1>1, <1>4, EndIs DEF Skip
  <2>2. Holds(worker[w])'
    BY <2>1 DEF Holds
  <2> QED BY <1>1, <1>2, <1>4, <2>1, <2>2, OnlyGoes DEF Skip, orderVars, bootVars
<1>5. CASE Conclude(w, p)
  <2>1. /\ worker' \in [Workers -> WorkerRecs] /\ worker'[w].pc = "idle"
        /\ \A v \in Workers \ {w} : worker'[v] = worker[v]
    BY <1>1, <1>5, EndIs DEF Conclude
  <2>2. Holds(worker[w])'
    BY <2>1 DEF Holds
  <2>3. RowsInv' /\ Kept
    BY <1>1, NoRowChange
  <2>4. /\ policy = "chain" /\ mark[p] # "cancelled" /\ status[p] = "completed" /\ step[p] = Steps
        /\ mark' = [mark EXCEPT ![p] = "completed"]
    <3>1. step[p] \in 0..Steps /\ Steps \in Nat
      BY <1>1, Numbers DEF IInv, Types, RowTypes
    <3> QED BY <1>1, <1>5, <3>1 DEF Conclude, Continues, ChainStopped, LastStep
  <2>5. mark' \in [Orders -> Marks] /\ mark'[p] = "completed" /\ \A o \in Orders \ {p} : mark'[o] = mark[o]
    BY <1>1, <2>4 DEF IInv, Types, MarkTypes, Marks
  <2>6. MarkTypes' /\ MarkInv' /\ UnsentInv'
    <3> DEFINE R == {p}
    <3>1. R \in SUBSET Rows
      BY <1>1
    <3>2. \A o \in R : /\ mark[o] # "cancelled"
                       /\ mark'[o] \notin {"cancelled", "batch_sending"}
                       /\ mark'[o] = "completed" => step[o] = Steps /\ status[o] = "completed"
      BY <2>4, <2>5
    <3> QED BY <2>3, <2>4, <2>5, <3>1, <3>2, MarksAre DEF IInv
  <2> QED BY <1>1, <1>2, <2>1, <2>2, <2>3, <2>4, <2>6, HookIs DEF bootVars
<1>6. CASE Resume(w, p)
  <2>1. PICK c \in Rows : worker' = [worker EXCEPT ![w].pc = "finish", ![w].child = c]
    BY <1>6 DEF Resume, ExistingChildren
  <2>2. /\ worker' \in [Workers -> WorkerRecs]
        /\ worker'[w].pc = "finish" /\ worker'[w].parent = p /\ worker'[w].child = c
        /\ \A v \in Workers \ {w} : worker'[v] = worker[v]
    BY <1>1, <2>1, ChildIs DEF Rows
  <2>3. Holds(worker[w])'
    BY <1>1, <1>3, <1>6, <2>2 DEF Holds, Resume
  <2> QED BY <1>1, <1>2, <1>6, <2>2, <2>3, OnlyGoes DEF Resume, orderVars, bootVars
<1>7. CASE Select(w, p)
  <2>1. /\ worker' \in [Workers -> WorkerRecs]
        /\ worker'[w].pc = "create" /\ worker'[w].parent = p
        /\ \A v \in Workers \ {w} : worker'[v] = worker[v]
    BY <1>1, <1>7, GoIs DEF Select, Pcs
  <2>2. Holds(worker[w])'
    BY <1>1, <1>3, <1>7, <2>1 DEF Holds, Select
  <2> QED BY <1>1, <1>2, <1>7, <2>1, <2>2, OnlyGoes DEF Select, orderVars, bootVars
<1> QED BY <1>4, <1>5, <1>6, <1>7 DEF Trigger

\* It inserts the order of the next step.
LEMMA InsertKeeps ==
  ASSUME IInv, NEW w \in Workers, Insert(w)
  PROVE  IInv'
<1>1. PICK p \in Rows : p = worker[w].parent
  BY DEF Insert, IInv, WorkersInv, Holds
<1>2. PICK c \in Orders \ Rows : c = Min(Orders \ Rows)
  <2>1. Orders \ Rows # {}
    BY DEF Insert, Rows
  <2> QED BY <2>1, MinIs
<1>3. /\ p \in Orders /\ c # p /\ step[c] = 0 /\ step[p] > 0
      /\ step[p] \in 1..Steps /\ step[p] + 1 \in 1..Steps /\ Steps \in Nat
      /\ \A o \in Orders : step[o] \in Nat
  <2>1. step[p] < Steps
    BY <1>1 DEF Insert, IInv, WorkersInv, Holds
  <2>2. \A o \in Orders : step[o] \in 0..Steps
    BY DEF IInv, Types, RowTypes
  <2> QED BY <2>1, <2>2, <1>1, Numbers DEF Rows
<1>4. /\ policy = "chain" /\ ~ChainStopped /\ status[p] = "completed" /\ dispatch[p] = "success"
      /\ \A q \in Rows : step[q] # step[p] + 1
  BY <1>1 DEF Insert, Continues, ExistingChildren
<1>5. /\ step' = [step EXCEPT ![c] = step[p] + 1]
      /\ status' = [status EXCEPT ![c] = "pending_dispatch"]
      /\ mark' = [mark EXCEPT ![c] = "active", ![p] = "waiting_dispatch"]
      /\ worker' = [worker EXCEPT ![w].pc = "finish", ![w].child = c]
      /\ UNCHANGED <<policy, dispatch, task, wireVars, sender, batch, bootVars, envVars>>
  BY <1>1, <1>2 DEF Insert
<1>6. /\ step'[c] = step[p] + 1 /\ status'[c] = "pending_dispatch"
      /\ \A o \in Orders \ {c} : step'[o] = step[o] /\ status'[o] = status[o]
      /\ Rows' = Rows \cup {c} /\ Rows \subseteq Orders
  BY <1>3, <1>5 DEF IInv, Types, RowTypes, Rows
<1>7. RowTypes'
  <2>1. step' \in [Orders -> 0..Steps]
    BY <1>3, <1>5 DEF IInv, Types, RowTypes
  <2>2. status' \in [Orders -> Statuses]
    BY <1>5 DEF IInv, Types, RowTypes, Statuses, ActiveStatuses, Movable
  <2> QED BY <2>1, <2>2, <1>5 DEF IInv, Types, RowTypes, wireVars
<1>8. \A o \in Orders : RowInv(o)'
  <2>1. dispatch[c] = "not_sent"
    BY <1>3 DEF IInv, RowsInv, RowInv
  <2>2. RowInv(c)'
    BY <1>3, <1>5, <1>6, <2>1 DEF IInv, RowsInv, RowInv, wireVars
  <2>3. \A o \in Orders \ {c} : RowInv(o)'
    BY <1>5, <1>6 DEF IInv, RowsInv, RowInv, wireVars
  <2> QED BY <2>2, <2>3
<1>9. StepsInv'
  <2>1. ASSUME NEW o \in Rows', NEW n \in 1..step'[o] PROVE \E q \in Rows' : step'[q] = n
    <3>1. CASE o \in Rows
      <4>1. PICK q \in Rows : step[q] = n
        BY <1>6, <2>1, <3>1 DEF IInv, StepsInv
      <4> QED BY <4>1, <1>6
    <3>2. CASE o = c /\ n = step[p] + 1
      BY <1>6, <3>2
    <3>3. CASE o = c /\ n # step[p] + 1
      <4>1. n \in 1..step[p]
        BY <1>3, <1>6, <2>1, <3>3
      <4>2. PICK q \in Rows : step[q] = n
        BY <4>1 DEF IInv, StepsInv
      <4> QED BY <4>2, <1>6
    <3> QED BY <1>6, <3>1, <3>2, <3>3
  <2>2. ASSUME NEW o \in Rows', NEW q \in Rows', step'[o] = step'[q] PROVE o = q
    <3>1. CASE o \in Rows /\ q \in Rows
      BY <1>6, <2>2, <3>1 DEF IInv, StepsInv
    <3>2. CASE ~(o \in Rows /\ q \in Rows)
      BY <1>4, <1>6, <2>2, <3>2
    <3> QED BY <3>1, <3>2
  <2> QED BY <1>4, <1>5, <2>1, <2>2 DEF StepsInv
<1>10. SeqInv'
  <2>1. \A q \in Rows : Behind(q) => Behind(q)'
    BY <1>5, <1>6 DEF Behind
  <2>2. ASSUME NEW o \in Rows', NEW q \in Rows', step'[q] < step'[o] PROVE Behind(q)'
    <3>1. CASE o \in Rows /\ q \in Rows
      BY <1>4, <1>6, <2>1, <2>2, <3>1 DEF IInv, SeqInv
    <3>2. CASE o = c /\ q \in Rows
      <4>1. CASE step[q] = step[p]
        <5>1. q = p
          BY <1>1, <3>2, <4>1 DEF IInv, StepsInv
        <5> QED BY <5>1, <1>1, <1>4, <2>1 DEF Behind
      <4>2. CASE step[q] # step[p]
        <5>1. step[q] < step[p]
          BY <1>3, <1>6, <2>2, <3>2, <4>2
        <5> QED BY <5>1, <1>1, <1>4, <2>1, <3>2 DEF IInv, SeqInv
      <4> QED BY <4>1, <4>2
    <3>3. CASE q = c /\ o \in Rows
      <4>1. step[p] + 1 \in 1..step[o]
        BY <1>3, <1>6, <2>2, <3>3
      <4> QED BY <4>1, <3>3, <1>4 DEF IInv, StepsInv
    <3>4. CASE q = c /\ o = c
      BY <1>3, <1>6, <2>2, <3>4
    <3> QED BY <1>6, <3>1, <3>2, <3>3, <3>4
  <2> QED BY <2>2 DEF SeqInv
<1>11. worker' \in [Workers -> WorkerRecs] /\ WorkersInv'
  <2>1. /\ worker' \in [Workers -> WorkerRecs]
        /\ worker'[w].pc = "finish" /\ worker'[w].parent = p /\ worker'[w].child = c
        /\ \A v \in Workers \ {w} : worker'[v] = worker[v]
    BY <1>1, <1>5, ChildIs DEF IInv, Types, ThreadTypes
  <2>2. step'[p] < Steps /\ step'[p] = step[p]
    BY <1>3, <1>6
  <2>3. Holds(worker[w])'
    BY <1>4, <1>5, <1>6, <2>1, <2>2 DEF Holds
  <2>4. ASSUME NEW v \in Workers, v # w PROVE Holds(worker[v])'
    <3>1. worker'[v] = worker[v] /\ Holds(worker[v])
      BY <2>1, <2>4 DEF IInv, WorkersInv
    <3>2. \A o \in Rows : o \in Rows' /\ step'[o] = step[o]
      BY <1>6
    <3> QED BY <3>1, <3>2, <1>4, <1>5 DEF Holds
  <2> QED BY <1>5, <1>6, <2>1, <2>3, <2>4 DEF IInv, WorkersInv, bootVars
<1>12. BatchInv' /\ UnsentInv'
  BY <1>4, <1>5 DEF IInv, BatchInv, UnsentInv
<1>13. MarkTypes' /\ MarkInv'
  <2>1. mark' \in [Orders -> Marks]
    BY <1>5 DEF IInv, Types, MarkTypes, Marks
  <2>2. /\ mark'[p] = "waiting_dispatch" /\ mark'[c] = "active"
        /\ \A o \in Orders \ {p, c} : mark'[o] = mark[o]
    BY <1>3, <1>5 DEF IInv, Types, MarkTypes
  <2>3. \A o \in Rows : mark[o] # "cancelled"
    BY <1>4 DEF ChainStopped
  <2>4. \A o \in Rows' : mark'[o] # "cancelled" /\ mark'[o] # "batch_sending"
    BY <1>1, <1>4, <1>6, <2>2, <2>3 DEF IInv, MarkInv
  <2>5. \A o \in Orders \ Rows' : mark'[o] = "none"
    BY <1>1, <1>6, <2>2 DEF IInv, MarkInv
  <2>6. \A o \in Rows' : mark'[o] = "completed" => step'[o] = Steps /\ status'[o] = "completed"
    BY <1>6, <2>2 DEF IInv, MarkInv
  <2> QED BY <1>4, <1>5, <2>1, <2>4, <2>5, <2>6 DEF MarkTypes, MarkInv
<1> QED BY <1>5, <1>7, <1>8, <1>9, <1>10, <1>11, <1>12, <1>13
        DEF IInv, Types, RowsInv, ThreadTypes, CountTypes, bootVars, envVars

\* Every other step of a hook.
LEMMA ChainKeeps ==
  ASSUME IInv, NEW w \in Workers, ChainStep(w)
  PROVE  IInv'
<1> DEFINE p == worker[w].parent
           c == worker[w].child
           Ends == /\ worker' \in [Workers -> WorkerRecs] /\ worker'[w].pc = "idle"
                   /\ \A v \in Workers \ {w} : worker'[v] = worker[v]
           Goes(pc) == /\ worker' \in [Workers -> WorkerRecs]
                       /\ worker'[w].pc = pc /\ worker'[w].parent = p
                       /\ worker'[w].child = c /\ worker'[w].verdict = worker[w].verdict
                       /\ \A v \in Workers \ {w} : worker'[v] = worker[v]
<1>1. worker \in [Workers -> WorkerRecs] /\ Holds(worker[w]) /\ worker[w] \in WorkerRecs
  BY DEF IInv, Types, ThreadTypes, WorkersInv
<1>2. End(w) => Ends /\ Holds(worker[w])'
  BY <1>1, EndIs DEF Holds
<1>3. ASSUME NEW pc \in {"settle", "sending"}, Go(w, pc), worker[w].pc = "finish", Kept
      PROVE  Goes(pc) /\ Holds(worker[w])'
  <2>1. Goes(pc)
    BY <1>1, <1>3, GoIs DEF Pcs
  <2> QED BY <1>1, <1>3, <2>1 DEF Holds, Kept, Rows
<1>4. UNCHANGED <<bootVars, envVars>> => CountTypes' /\ missed' \subseteq Orders
  BY DEF IInv, Types, CountTypes, ThreadTypes, bootVars, envVars
<1>5. failures' = failures + 1 /\ UNCHANGED <<visits, crashes>> => CountTypes'
  BY DEF IInv, Types, CountTypes
<1>6. UNCHANGED bootVars => missed' \subseteq Orders
  BY DEF IInv, Types, ThreadTypes, bootVars
<1>7. CASE Trigger(w)
  BY <1>7, TriggerKeeps
<1>8. CASE Insert(w)
  BY <1>8, InsertKeeps
<1>9. CASE HookFails(w)
  <2>1. p \in Orders /\ missed' = missed \cup {p}
    BY <1>1, <1>9 DEF HookFails, Holds, Rows
  <2> QED BY <1>2, <1>5, <1>9, <2>1, OnlyGoes DEF HookFails, IInv, Types, ThreadTypes
<1>10. CASE Recheck(w)
  <2>1. CASE End(w)
    BY <1>2, <1>4, <1>10, <2>1, OnlyGoes DEF Recheck, bootVars
  <2>2. CASE \E d \in ExistingChildren(p) : worker' = [worker EXCEPT ![w].pc = "finish", ![w].child = d]
    <3>1. PICK d \in Rows : worker' = [worker EXCEPT ![w].pc = "finish", ![w].child = d]
      BY <2>2 DEF ExistingChildren
    <3>2. /\ worker' \in [Workers -> WorkerRecs]
          /\ worker'[w].pc = "finish" /\ worker'[w].parent = p /\ worker'[w].child = d
          /\ \A v \in Workers \ {w} : worker'[v] = worker[v]
      BY <1>1, <3>1, ChildIs DEF Rows
    <3>3. Holds(worker[w])'
      BY <1>1, <1>10, <3>2 DEF Holds, Recheck, orderVars, Rows
    <3> QED BY <1>4, <1>10, <3>2, <3>3, OnlyGoes DEF Recheck, bootVars
  <2> QED BY <1>10, <2>1, <2>2 DEF Recheck
<1>11. CASE SelectionFails(w)
  <2>1. /\ UNCHANGED <<policy, step, status, dispatch, task, wireVars, sender, batch, bootVars>>
        /\ CountTypes' /\ End(w) /\ p \in Rows /\ p \in Orders /\ policy = "chain"
        /\ mark' = [mark EXCEPT ![p] = IF ChainStopped THEN mark[p] ELSE "retry_needed"]
    BY <1>1, <1>5, <1>11 DEF SelectionFails, Holds, Rows
  <2>2. RowsInv' /\ Kept
    BY <2>1, NoRowChange
  <2>3. MarkTypes' /\ MarkInv' /\ UnsentInv'
    <3>1. CASE ChainStopped
      <4>1. mark' = mark
        BY <2>1, <3>1 DEF IInv, Types, MarkTypes
      <4> QED BY <4>1, <2>1, <2>2, MarksKept, UnsentKept DEF IInv, Types, MarkTypes, bootVars
    <3>2. CASE ~ChainStopped
      <4> DEFINE R == {p}
      <4>1. mark' \in [Orders -> Marks] /\ \A o \in Orders \ R : mark'[o] = mark[o]
        BY <2>1, <3>2 DEF IInv, Types, MarkTypes, Marks
      <4>2. \A o \in R : mark[o] # "cancelled" /\ mark'[o] = "retry_needed"
        BY <2>1, <3>2 DEF IInv, Types, MarkTypes, ChainStopped
      <4>3. R \in SUBSET Rows
        BY <2>1
      <4> QED BY <2>1, <2>2, <4>1, <4>2, <4>3, MarksAre DEF IInv
    <3> QED BY <3>1, <3>2
  <2> QED BY <1>2, <1>6, <2>1, <2>2, <2>3, HookIs DEF bootVars
<1>12. CASE FinishStopped(w)
  BY <1>2, <1>4, <1>12, OnlyGoes DEF FinishStopped, bootVars
<1>13. CASE FinishClaims(w)
  <2>1. /\ c \in Rows /\ policy = "chain" /\ ClaimDispatch(c) /\ Go(w, "sending") /\ worker[w].pc = "finish"
        /\ UNCHANGED <<policy, step, status, task, mark, wireVars, batch, bootVars, envVars>>
    BY <1>1, <1>13 DEF FinishClaims, Holds
  <2>2. RowsInv' /\ Kept
    BY <2>1, ClaimIs DEF IInv, wireVars
  <2>3. MarkTypes' /\ MarkInv' /\ UnsentInv'
    BY <2>1, <2>2, MarksKept, UnsentKept DEF IInv, Types, MarkTypes, bootVars
  <2> QED BY <1>3, <1>4, <2>1, <2>2, <2>3, HookIs DEF bootVars
<1>14. CASE FinishFails(w)
  <2>1. /\ c \in Rows /\ c \in Orders /\ policy = "chain" /\ Go(w, "settle") /\ worker[w].pc = "finish"
        /\ dispatch' = [dispatch EXCEPT ![c] = IF Unsent(c) THEN "error" ELSE dispatch[c]]
        /\ UNCHANGED <<policy, step, status, task, mark, wireVars, sender, batch, bootVars>>
        /\ CountTypes'
    BY <1>1, <1>5, <1>14 DEF FinishFails, Holds, Rows
  <2>2. RowTypes'
    BY <2>1 DEF IInv, Types, RowTypes, wireVars
  <2>3. \A o \in Orders : RowInv(o)'
    BY <2>1 DEF IInv, RowsInv, RowTypes, RowInv, Unsent, Rows, wireVars
  <2>4. RowsInv' /\ Kept
    BY <2>1, <2>2, <2>3 DEF RowsInv, Kept, NeverAttempted, Unsent, IInv, Types, RowTypes
  <2>5. MarkTypes' /\ MarkInv' /\ UnsentInv'
    BY <2>1, <2>4, MarksKept, UnsentKept DEF IInv, Types, MarkTypes, bootVars
  <2> QED BY <1>3, <1>6, <2>1, <2>4, <2>5, HookIs DEF bootVars
<1>15. CASE FinishAttempted(w)
  <2>1. Kept
    BY <1>15, NoRowChange DEF FinishAttempted, orderVars
  <2> QED BY <1>3, <1>4, <1>15, <2>1, OnlyGoes DEF FinishAttempted, bootVars
<1>16. CASE Settle(w)
  <2>1. /\ c \in Rows /\ p \in Rows /\ policy = "chain" /\ step[p] < Steps
        /\ UNCHANGED <<policy, step, task, mark, wireVars, sender, batch, bootVars, envVars>>
    BY <1>1, <1>16 DEF Settle, Holds
  <2>2. RowsInv' /\ Kept
    <3> DEFINE R == IF Verdict(c) = "dispatch_error" THEN {c} ELSE {}
    <3>1. R \in SUBSET Rows /\ Compensate(R)
      BY <1>16, <2>1 DEF Settle
    <3> HIDE DEF R
    <3> QED BY <2>1, <3>1, CompensateIs DEF IInv, wireVars, RowsInv, RowTypes
  <2>3. /\ worker' \in [Workers -> WorkerRecs]
        /\ worker'[w].pc = "mark" /\ worker'[w].parent = p
        /\ worker'[w].child = c /\ worker'[w].verdict \in Verdicts
        /\ \A v \in Workers \ {w} : worker'[v] = worker[v]
    <3>1. PICK verdict \in Verdicts : verdict = Verdict(c)
      BY DEF Verdict, Verdicts
    <3>2. worker' = [worker EXCEPT ![w].pc = "mark", ![w].verdict = verdict]
      BY <1>16, <3>1 DEF Settle
    <3> QED BY <1>1, <3>2, VerdictIs
  <2>4. Holds(worker[w])'
    BY <2>1, <2>3 DEF Holds, Rows
  <2>5. MarkTypes' /\ MarkInv' /\ UnsentInv'
    BY <2>1, <2>2, MarksKept, UnsentKept DEF IInv, Types, MarkTypes, bootVars
  <2> QED BY <1>4, <2>1, <2>2, <2>3, <2>4, <2>5, HookIs DEF bootVars
<1>17. CASE Mark(w)
  <2> DEFINE R == {o \in Marked(w) : mark[o] # "cancelled"}
  <2>1. /\ p \in Rows /\ c \in Rows /\ policy = "chain" /\ worker[w].verdict \in Verdicts /\ End(w)
        /\ UNCHANGED <<policy, step, status, dispatch, task, wireVars, sender, batch, bootVars, envVars>>
    BY <1>1, <1>17 DEF Mark, Holds
  <2>2. RowsInv' /\ Kept
    BY <2>1, NoRowChange
  <2>3. \A o \in Orders : mark'[o] = IF o \in R THEN worker[w].verdict ELSE mark[o]
    BY <1>17 DEF Mark
  <2>4. mark' \in [Orders -> Marks]
    BY <1>17, <2>1 DEF Mark, IInv, Types, MarkTypes, Verdicts, Marks
  <2>5. R \in SUBSET Rows /\ R \subseteq Orders
    BY <2>1 DEF Marked, Rows
  <2>6. /\ \A o \in Orders \ R : mark'[o] = mark[o]
        /\ \A o \in R : /\ mark[o] # "cancelled"
                        /\ mark'[o] \notin {"cancelled", "batch_sending", "completed"}
    BY <2>1, <2>3, <2>5 DEF Verdicts
  <2> HIDE DEF R
  <2>7. MarkTypes' /\ MarkInv' /\ UnsentInv'
    BY <2>1, <2>2, <2>4, <2>5, <2>6, MarksAre DEF IInv
  <2> QED BY <1>2, <1>4, <2>1, <2>2, <2>7, HookIs DEF bootVars
<1>18. CASE MarkFails(w)
  <2>1. /\ p \in Rows /\ p \in Orders /\ policy = "chain" /\ End(w) /\ CountTypes'
        /\ UNCHANGED <<policy, step, status, dispatch, task, wireVars, sender, batch, bootVars>>
    BY <1>1, <1>5, <1>18 DEF MarkFails, Holds, Rows
  <2>2. PICK m \in {mark[p], IF ChainStopped THEN mark[p] ELSE "retry_needed"} :
          mark' = [mark EXCEPT ![p] = m]
    BY <1>18 DEF MarkFails
  <2>3. RowsInv' /\ Kept
    BY <2>1, NoRowChange
  <2>4. MarkTypes' /\ MarkInv' /\ UnsentInv'
    <3>1. CASE m = mark[p]
      <4>1. mark' = mark
        BY <2>1, <2>2, <3>1 DEF IInv, Types, MarkTypes
      <4> QED BY <4>1, <2>1, <2>3, MarksKept, UnsentKept DEF IInv, Types, MarkTypes, bootVars
    <3>2. CASE m # mark[p]
      <4> DEFINE R == {p}
      <4>1. ~ChainStopped /\ m = "retry_needed"
        BY <2>2, <3>2
      <4>2. mark' \in [Orders -> Marks] /\ \A o \in Orders \ R : mark'[o] = mark[o]
        BY <2>1, <2>2, <4>1 DEF IInv, Types, MarkTypes, Marks
      <4>3. \A o \in R : mark[o] # "cancelled" /\ mark'[o] = "retry_needed"
        BY <2>1, <2>2, <4>1 DEF IInv, Types, MarkTypes, ChainStopped
      <4>4. R \in SUBSET Rows
        BY <2>1
      <4> QED BY <2>1, <2>3, <4>2, <4>3, <4>4, MarksAre DEF IInv
    <3> QED BY <3>1, <3>2
  <2> QED BY <1>2, <1>6, <2>1, <2>3, <2>4, HookIs DEF bootVars
<1> QED BY <1>7, <1>8, <1>9, <1>10, <1>11, <1>12, <1>13, <1>14, <1>15, <1>16, <1>17, <1>18 DEF ChainStep

-----------------------------------------------------------------------------
(* Restarts, and the inductive invariant *)

\* The recovery of the batches keeps the invariant.
LEMMA RecoverBatchKeeps ==
  ASSUME IInv, RecoverBatch
  PROVE  IInv'
<1>1. /\ boot = "batches" /\ boot' = "chains"
      /\ UNCHANGED <<policy, step, task, wireVars, sender, worker, batch, todo, missed, envVars>>
  BY DEF RecoverBatch
<1>2. /\ MarkTypes' /\ RowsInv' /\ Kept /\ NoAttemptBut({})
      /\ MarkInv' /\ UnsentInv'
  <2>1. CASE Interrupted
    <3>1. /\ Compensate(AllUnsent) /\ AllUnsent \in SUBSET Rows
          /\ mark' = [o \in Orders |-> IF o \in Rows THEN "batch_interrupted" ELSE mark[o]]
      BY <2>1 DEF RecoverBatch, AllUnsent
    <3>2. RowsInv' /\ Kept /\ NoAttemptBut({})
      BY <1>1, <3>1, CompensateIs DEF IInv, wireVars, RowsInv, RowTypes
    <3>3. MarkTypes'
      BY <3>1 DEF MarkTypes, IInv, Types, Marks
    <3>4. Rows' = Rows /\ Rows \subseteq Orders
      BY <1>1 DEF Rows
    <3>5. MarkInv'
      BY <3>1, <3>4 DEF IInv, MarkInv
    <3>6. \A o \in Rows : ~NeverAttempted(o)'
      <4> HIDE DEF AllUnsent
      <4>1. \A o \in AllUnsent : ~NeverAttempted(o)'
        BY <1>1, <3>1, CompensateIs DEF IInv, wireVars, RowsInv, RowTypes
      <4>2. \A o \in Rows \ AllUnsent : ~NeverAttempted(o)
        BY DEF AllUnsent, NeverAttempted
      <4> QED BY <3>2, <3>4, <4>1, <4>2 DEF Kept
    <3>7. UnsentInv'
      BY <3>4, <3>6 DEF UnsentInv
    <3> QED BY <3>2, <3>3, <3>5, <3>7
  <2>2. CASE ~Interrupted
    <3>1. UNCHANGED <<status, dispatch, mark>>
      BY <2>2 DEF RecoverBatch
    <3>2. RowsInv' /\ Kept /\ NoAttemptBut({})
      BY <1>1, <3>1, NoRowChange
    <3>3. MarkTypes' /\ MarkInv'
      BY <3>1, <3>2, MarksKept DEF IInv, Types, MarkTypes
    <3>4. AllSending => Rows = {}
      BY <2>2 DEF AllSending, Interrupted
    <3>5. UnsentInv'
      BY <1>1, <3>1, <3>4 DEF IInv, UnsentInv, Rows, ChainStopped, NeverAttempted, Unsent
    <3> QED BY <3>2, <3>3, <3>5
  <2> QED BY <2>1, <2>2
<1>3. SeqInv' /\ StepsInv' /\ BatchInv' /\ WorkersInv'
  BY <1>1, <1>2, SeqKept, StepsKept, BatchKept, WorkersKept DEF IInv
<1>4. Types'
  BY <1>1, <1>2 DEF IInv, Types, RowsInv, ThreadTypes, CountTypes, envVars
<1> QED BY <1>2, <1>3, <1>4 DEF IInv

\* So does the recovery of the chains, one completed order at a time.
LEMMA RecoverNextKeeps ==
  ASSUME IInv, RecoverNext
  PROVE  IInv'
<1>1. /\ UNCHANGED <<orderVars, wireVars, sender, batch, missed, envVars>> /\ boot = "chains"
      /\ Startup \in Workers /\ worker \in [Workers -> WorkerRecs]
  BY Numbers DEF RecoverNext, IInv, Types, ThreadTypes
<1>2. RowsInv' /\ Kept /\ NoAttemptBut({})
  BY <1>1, NoRowChange DEF orderVars
<1>3. SeqInv' /\ StepsInv' /\ BatchInv' /\ MarkInv'
  BY <1>1, <1>2, SeqKept, StepsKept, BatchKept, MarksKept DEF IInv, orderVars
<1>4. UnsentInv'
  BY <1>1 DEF IInv, UnsentInv, Rows, AllSending, ChainStopped, NeverAttempted, Unsent, orderVars
<1>5. worker' \in [Workers -> WorkerRecs] /\ WorkersInv' /\ todo' \subseteq Orders
      /\ boot' \in {"chains", "serving"}
  <2>1. CASE todo = {}
    <3>1. UNCHANGED <<worker, todo>> /\ boot' = "serving"
      BY <2>1 DEF RecoverNext
    <3> QED BY <1>1, <1>2, <3>1, WorkersKept DEF IInv, Types, ThreadTypes
  <2>2. CASE todo # {}
    <3>1. PICK p \in Orders : p = Min(todo) /\ p \in todo
      BY <2>2, MinIs DEF IInv, Types, ThreadTypes
    <3>2. /\ worker' = [worker EXCEPT ![Startup] = [IdleWorker EXCEPT !.pc = "trigger", !.parent = p]]
          /\ todo' = todo \ {p} /\ boot' = "chains"
      BY <1>1, <2>2, <3>1 DEF RecoverNext
    <3>3. /\ worker' \in [Workers -> WorkerRecs]
          /\ worker'[Startup].pc = "trigger" /\ worker'[Startup].parent = p
          /\ \A v \in Workers \ {Startup} : worker'[v] = worker[v]
      BY <1>1, <3>2, BeginIs
    <3>4. p \in Rows /\ todo' \subseteq Rows /\ Rows' = Rows
      BY <1>1, <3>1, <3>2 DEF IInv, WorkersInv, Rows, orderVars
    <3>5. Holds(worker[Startup])'
      BY <3>3, <3>4 DEF Holds
    <3>6. ASSUME NEW v \in Workers, v # Startup PROVE Holds(worker[v])'
      <4>1. worker'[v] = worker[v] /\ Holds(worker[v])
        BY <3>3, <3>6 DEF IInv, WorkersInv
      <4> QED BY <4>1, <1>1 DEF Holds, Rows, orderVars
    <3> QED BY <3>2, <3>3, <3>4, <3>5, <3>6 DEF WorkersInv, IInv, Types, ThreadTypes
  <2> QED BY <2>1, <2>2
<1>6. Types'
  BY <1>1, <1>2, <1>5 DEF IInv, Types, RowsInv, MarkTypes, ThreadTypes, CountTypes, envVars, orderVars
<1> QED BY <1>2, <1>3, <1>4, <1>5, <1>6 DEF IInv

\* Another process visits a completed order.
LEMMA VisitKeeps ==
  ASSUME IInv, VisitNext
  PROVE  IInv'
<1>1. PICK w \in Hooks, p \in Rows : Visit(w, p)
  BY DEF VisitNext
<1>2. w \in Workers /\ p \in Orders
  BY Numbers DEF Rows
<1>3. UNCHANGED <<orderVars, wireVars, sender, batch, bootVars, failures, crashes>> /\ visits' = visits + 1
  BY <1>1 DEF Visit
<1>4. /\ worker' \in [Workers -> WorkerRecs]
      /\ worker'[w].pc = "trigger" /\ worker'[w].parent = p
      /\ \A v \in Workers \ {w} : worker'[v] = worker[v]
  BY <1>1, <1>2, BeginIs DEF Visit, IInv, Types, ThreadTypes
<1>5. Holds(worker[w])'
  BY <1>3, <1>4 DEF Holds, Rows, orderVars
<1>6. CountTypes' /\ missed' \subseteq Orders
  BY <1>3 DEF IInv, Types, CountTypes, ThreadTypes, bootVars
<1> QED BY <1>2, <1>3, <1>4, <1>5, <1>6, OnlyGoes DEF bootVars

\* The process stops and starts again.
LEMMA RestartKeeps ==
  ASSUME IInv, Restart
  PROVE  IInv'
<1>1. /\ UNCHANGED <<orderVars, wireVars, failures, visits>> /\ crashes' = crashes + 1
      /\ sender' = [o \in Orders |-> "idle"] /\ worker' = [w \in Workers |-> IdleWorker]
      /\ batch' = IdleBatch /\ boot' = "batches" /\ todo' = CompletedOrders /\ missed' = {}
  BY DEF Restart
<1>2. RowsInv' /\ Kept /\ NoAttemptBut({})
  <2>1. RowTypes'
    BY <1>1 DEF IInv, RowsInv, RowTypes, orderVars, wireVars
  <2>2. \A o \in Orders : RowInv(o)'
    BY <1>1 DEF IInv, RowsInv, RowInv, orderVars, wireVars
  <2>3. Kept /\ NoAttemptBut({})
    BY <1>1 DEF Kept, NoAttemptBut, Attempted, NeverAttempted, Unsent, orderVars, wireVars
  <2> QED BY <2>1, <2>2, <2>3 DEF RowsInv
<1>3. SeqInv' /\ StepsInv' /\ MarkInv'
  BY <1>1, <1>2, SeqKept, StepsKept, MarksKept DEF IInv, orderVars
<1>4. IdleWorker \in WorkerRecs /\ IdleWorker.pc = "idle" /\ IdleBatch \in BatchRecs /\ IdleBatch.pc = "idle"
  BY DEF IdleWorker, IdleBatch, WorkerRecs, BatchRecs, Pcs, BatchPcs, Marks
<1>5. Rows' = Rows /\ todo' \subseteq Rows /\ Rows \subseteq Orders
  BY <1>1 DEF Rows, CompletedOrders, orderVars
<1>6. WorkersInv' /\ BatchInv'
  BY <1>1, <1>4, <1>5 DEF WorkersInv, Holds, BatchInv
<1>7. UnsentInv'
  BY <1>1, <1>4, <1>5 DEF IInv, UnsentInv, AllSending, ChainStopped, NeverAttempted, Unsent, orderVars
<1>8. Types'
  BY <1>1, <1>2, <1>4, <1>5 DEF IInv, Types, RowsInv, MarkTypes, ThreadTypes, CountTypes, orderVars
<1> QED BY <1>2, <1>3, <1>6, <1>7, <1>8 DEF IInv

\* The group begins with its first order, or with every leg of the batch.
LEMMA Begins ==
  ASSUME Init
  PROVE  IInv
<1> DEFINE first == IF policy = "chain" THEN 1 ELSE Steps
<1>1. /\ policy \in {"chain", "batch"} /\ first \in 1..Steps /\ Steps \in Nat
      /\ \A o \in Orders : o \in Nat \ {0}
      /\ Legs \subseteq Orders /\ 1 \in Legs
  BY Numbers, GroupAssumption DEF Init, Legs
<1>2. /\ \A o \in Orders : step[o] = IF o <= first THEN o ELSE 0
      /\ step \in [Orders -> 0..Steps]
      /\ Rows = {o \in Orders : o <= first}
  <2>1. \A o \in Orders : step[o] = IF o <= first THEN o ELSE 0
    BY DEF Init
  <2>2. \A o \in Orders : (IF o <= first THEN o ELSE 0) \in 0..Steps
    BY <1>1
  <2> HIDE DEF first
  <2>3. step = [o \in Orders |-> step[o]]
    BY DEF Init
  <2> QED BY <1>1, <2>1, <2>2, <2>3 DEF Rows
<1> HIDE DEF first
<1>3. RowTypes
  BY <1>1, <1>2 DEF Init, RowTypes, Statuses, ActiveStatuses, Movable
<1>4. \A o \in Orders : RowInv(o)
  BY <1>1, <1>2 DEF Init, RowInv
<1>5. MarkTypes
  BY DEF Init, MarkTypes, Marks
<1>6. IdleWorker \in WorkerRecs /\ IdleWorker.pc = "idle" /\ IdleBatch \in BatchRecs /\ IdleBatch.pc = "idle"
  BY DEF IdleWorker, IdleBatch, WorkerRecs, BatchRecs, Pcs, BatchPcs, Marks
<1>7. CASE policy = "chain"
  <2>1. first = 1 /\ batch = IdleBatch
    BY <1>7 DEF Init, first
  <2>2. BatchInv /\ UnsentInv /\ batch \in BatchRecs
    BY <1>6, <1>7, <2>1 DEF BatchInv, UnsentInv
  <2>3. Rows = {1} /\ step[1] = 1
    BY <1>1, <1>2, <2>1
  <2>4. StepsInv /\ SeqInv
    BY <1>7, <2>3 DEF StepsInv, SeqInv
  <2>5. MarkInv
    <3>1. \A o \in Orders : mark[o] = IF o \in Rows THEN "active" ELSE "none"
      BY <1>7 DEF Init
    <3> QED BY <2>3, <3>1, <1>1 DEF MarkInv, Legs
  <2> QED BY <1>3, <1>4, <1>5, <1>6, <2>2, <2>4, <2>5
          DEF IInv, Types, RowsInv, ThreadTypes, CountTypes, WorkersInv, Holds, Init
<1>8. CASE policy = "batch"
  <2>1. first = Steps /\ batch = [pc |-> "check", leg |-> 1, result |-> "batch_sent"]
    BY <1>8 DEF Init, first
  <2>2. batch \in BatchRecs /\ BatchInv
    BY <1>1, <1>8, <2>1 DEF BatchRecs, BatchInv, BatchPcs, Marks, Results, Legs
  <2>3. \A o \in Rows : mark[o] = "batch_sending"
    BY <1>2, <1>8 DEF Init
  <2>4. UnsentInv
    BY <2>1, <2>3 DEF UnsentInv, AllSending
  <2>5. StepsInv
    <3>1. ASSUME NEW o \in Rows, NEW n \in 1..step[o] PROVE \E p \in Rows : step[p] = n
      <4>1. n \in Legs
        BY <1>1, <1>2, <2>1, <3>1 DEF Legs
      <4> QED BY <1>1, <1>2, <2>1, <4>1 DEF Legs
    <3> QED BY <1>1, <1>2, <2>1, <3>1 DEF StepsInv
  <2>6. SeqInv
    BY <1>1, <1>2, <1>8 DEF Init, SeqInv, Attempted, Rows
  <2>7. MarkInv
    BY <1>2, <1>8, <2>3 DEF Init, MarkInv
  <2> QED BY <1>3, <1>4, <1>5, <1>6, <2>2, <2>4, <2>5, <2>6, <2>7
          DEF IInv, Types, RowsInv, ThreadTypes, CountTypes, WorkersInv, Holds, Init
<1> QED BY <1>1, <1>7, <1>8

\* Every step keeps the invariant.
LEMMA Keeps ==
  ASSUME IInv, [Next]_vars
  PROVE  IInv'
<1>1. CASE UNCHANGED vars
  <2>1. RowsInv' /\ Kept /\ NoAttemptBut({})
    BY <1>1, NoRowChange DEF vars, orderVars
  <2>2. /\ SeqInv' /\ StepsInv' /\ WorkersInv' /\ BatchInv' /\ MarkInv' /\ UnsentInv'
    BY <1>1, <2>1, SeqKept, StepsKept, WorkersKept, BatchKept, MarksKept, UnsentKept
       DEF IInv, vars, orderVars, bootVars
  <2>3. Types'
    BY <1>1, <2>1 DEF IInv, Types, RowsInv, MarkTypes, ThreadTypes, CountTypes,
                      vars, orderVars, bootVars, envVars
  <2> QED BY <2>1, <2>2, <2>3 DEF IInv
<1>2. CASE GroupStep
  BY <1>2, RecoverBatchKeeps, RecoverNextKeeps, BatchKeeps, ChainKeeps DEF GroupStep
<1> QED BY <1>1, <1>2, DispatchKeeps, OrderKeeps, VisitKeeps, RestartKeeps DEF Next

\* IInv holds of every state.
THEOREM Inductive == Spec => []IInv
<1>1. Init => IInv
  BY Begins
<1>2. IInv /\ [Next]_vars => IInv'
  BY Keeps
<1> QED BY <1>1, <1>2, PTL DEF Spec

-----------------------------------------------------------------------------
(* What follows *)

\* The tables, the threads and the counters stay in range.
THEOREM TypesHold == Spec => []TypeOK
<1>1. IInv => TypeOK
  BY DEF IInv, Types, RowTypes, MarkTypes, ThreadTypes, CountTypes, TypeOK,
         WorkerRecs, BatchRecs, Pcs, BatchPcs
<1> QED BY <1>1, Inductive, PTL

\* A step has one order, whatever hooks, visits and restarts do: a child is
\* looked for, the finished ones included, under the lock that inserts it.
THEOREM OneOrder == Spec => []OneOrderPerStep
<1>1. IInv => OneOrderPerStep
  BY DEF IInv, StepsInv, OneOrderPerStep
<1> QED BY <1>1, Inductive, PTL

\* A leg leaves once, and after the RCS accepted every leg before it.
THEOREM InOrder == Spec => []SentInOrder
<1>1. IInv => SentInOrder
  <2>1. ASSUME IInv, NEW o \in Rows
        PROVE  /\ posts[o] <= 1
               /\ posts[o] = 1 => \A p \in Rows : step[p] < step[o] =>
                    dispatch[p] = "success" /\ (policy = "chain" => status[p] = "completed")
    <3>1. posts[o] \in {0, 1}
      BY <2>1 DEF IInv, RowsInv, RowInv, Rows
    <3>2. posts[o] = 1 => \A p \in Rows : step[p] < step[o] => Behind(p)
      BY <2>1 DEF IInv, SeqInv, Attempted
    <3> QED BY <3>1, <3>2 DEF Behind
  <2> QED BY <2>1 DEF SentInOrder
<1> QED BY <1>1, Inductive, PTL

\* An order is compensated only when its task, if it has one, was refused.
THEOREM NoOrphan == Spec => []NoOrphanInGroup
<1>1. IInv => NoOrphanInGroup
  BY DEF IInv, RowsInv, RowInv, Rows, NoOrphanInGroup, RemoteLive
<1> QED BY <1>1, Inductive, PTL

\* A batch that nobody stopped leaves no leg behind that was never tried.
THEOREM NoneUnsent == Spec => []NoUnsentLegUnlessStopped
<1>1. IInv => NoUnsentLegUnlessStopped
  <2>1. ASSUME IInv, ~Stopped, Serving, policy = "batch", batch = IdleBatch,
               NEW o \in Rows, status[o] = "pending_dispatch"
        PROVE  ~Unsent(o)
    <3>1. ~ChainStopped /\ batch.pc = "idle" /\ boot = "serving"
      BY <2>1 DEF Stopped, ChainStopped, Rows, IdleBatch, Serving
    <3>2. ~NeverAttempted(o)
      BY <2>1, <3>1 DEF IInv, UnsentInv
    <3> QED BY <2>1, <3>2 DEF NeverAttempted
  <2> QED BY <2>1 DEF NoUnsentLegUnlessStopped, NoUnsentLeg
<1> QED BY <1>1, Inductive, PTL

\* The marks of a chain say that it ended, or that somebody stopped it.
LEMMA MarksSay ==
  ASSUME IInv
  PROVE  /\ policy = "chain" /\ Stopped => ChainStopped /\ batch.pc = "idle" /\ ~Interrupted
         /\ \A o \in Orders : mark[o] = "completed" =>
              /\ policy = "chain" /\ o \in Rows /\ step[o] = Steps /\ status[o] = "completed"
              /\ batch.pc = "idle" /\ ~Interrupted
BY DEF IInv, MarkInv, BatchInv, Stopped, ChainStopped, Interrupted

\* After a stop no hook and no restart creates or claims an order: both read the
\* marks under the lock under which they insert or claim.
THEOREM StopLasts == Spec => StopObeyed
<1>1. ASSUME IInv, Next PROVE StopsHooks
  <2> SUFFICES ASSUME policy = "chain", Stopped
               PROVE  /\ step' = step
                      /\ (\E w \in Workers : worker'[w] # worker[w]) =>
                           \A o \in Orders : dispatch[o] = "not_sent" => dispatch'[o] # "uncertain"
    BY DEF StopsHooks
  <2>1. ChainStopped /\ batch.pc = "idle" /\ ~Interrupted
    BY <1>1, MarksSay
  <2>2. CASE DispatchNext
    BY <2>2 DEF DispatchNext, ManualDispatch, ManualRollback, RollbackNotSent, SendCreate,
       CreateNotSent, CreateAccepted, CreateRejected, CreateUncertain, Outcome, orderVars
  <2>3. CASE OrderNext
    BY <2>3 DEF OrderNext, RcsStep, CloseEnded, Cancel, ForceClose, Complete, orderVars
  <2>4. CASE VisitNext
    BY <2>4 DEF VisitNext, Visit, orderVars
  <2>5. CASE Restart
    BY <2>5 DEF Restart, orderVars
  <2>6. CASE RecoverBatch \/ RecoverNext
    BY <2>1, <2>6 DEF RecoverBatch, RecoverNext, orderVars
  <2>7. CASE BatchStep
    BY <2>1, <2>7 DEF BatchStep, CheckLeg, DispatchLeg, DispatchFails, JudgeLeg, StopLeg, StopRefused, MarkGroup
  <2>8. ASSUME NEW w \in Workers, ChainStep(w)
        PROVE  step' = step /\ \A o \in Orders : dispatch[o] = "not_sent" => dispatch'[o] # "uncertain"
    <3>1. CASE UNCHANGED <<step, dispatch>>
      BY <3>1
    <3>2. CASE FinishFails(w)
      <4>1. \A o \in Orders : dispatch'[o] \in {"error", dispatch[o]}
        BY <1>1, <3>2 DEF FinishFails, IInv, Types, RowTypes
      <4> QED BY <3>2, <4>1 DEF FinishFails
    <3>3. CASE Settle(w)
      <4>1. \A o \in Orders : dispatch'[o] \in {"error", dispatch[o]}
        BY <3>3 DEF Settle, Compensate
      <4> QED BY <3>3, <4>1 DEF Settle
    <3>4. UNCHANGED <<step, dispatch>> \/ FinishFails(w) \/ Settle(w)
      BY <2>1, <2>8 DEF ChainStep, Trigger, HookFails, Insert, Recheck, SelectionFails, FinishStopped,
         FinishClaims, FinishAttempted, Mark, MarkFails, Continues, orderVars
    <3> QED BY <3>1, <3>2, <3>3, <3>4
  <2> QED BY <1>1, <2>2, <2>3, <2>4, <2>5, <2>6, <2>7, <2>8 DEF Next, GroupStep
<1>2. IInv /\ [Next]_vars => [StopsHooks]_vars
  BY <1>1
<1> QED BY <1>2, Inductive, PTL DEF Spec, StopObeyed

\* The end of a chain is not overwritten: a verdict that comes late passes a
\* completed child over, and no hook has a parent with no step after it.
THEOREM EndLasts == Spec => EndRemembered
<1>1. ASSUME IInv, Next PROVE EndKept
  <2> SUFFICES ASSUME NEW o \in Orders, mark[o] = "completed"
               PROVE  mark'[o] \in {"completed", "cancelled"}
    BY DEF EndKept
  <2>1. /\ policy = "chain" /\ o \in Rows /\ step[o] = Steps /\ status[o] = "completed"
        /\ batch.pc = "idle" /\ ~Interrupted
    BY <1>1, MarksSay
  <2>2. CASE DispatchNext
    BY <2>2 DEF DispatchNext, ManualDispatch, ManualRollback, RollbackNotSent, SendCreate,
       CreateNotSent, CreateAccepted, CreateRejected, CreateUncertain, Outcome, orderVars
  <2>3. CASE OrderNext
    BY <2>3 DEF OrderNext, RcsStep, CloseEnded, Cancel, ForceClose, Complete, StopGroup, orderVars
  <2>4. CASE VisitNext \/ Restart
    BY <2>4 DEF VisitNext, Visit, Restart, orderVars
  <2>5. CASE RecoverBatch \/ RecoverNext
    BY <2>1, <2>5 DEF RecoverBatch, RecoverNext, orderVars
  <2>6. CASE BatchStep
    BY <2>1, <2>6 DEF BatchStep, CheckLeg, DispatchLeg, DispatchFails, JudgeLeg, StopLeg, StopRefused, MarkGroup
  <2>7. ASSUME NEW w \in Workers, ChainStep(w)
        PROVE  mark'[o] \in {"completed", "cancelled"}
    <3> DEFINE p == worker[w].parent
    <3>1. Holds(worker[w]) /\ mark \in [Orders -> Marks] /\ Steps \in Nat
      BY <1>1, Numbers DEF IInv, WorkersInv, Types, MarkTypes
    <3>2. worker[w].pc \in {"create", "mark"} => o # p
      BY <2>1, <3>1 DEF Holds
    <3>3. CASE UNCHANGED mark
      BY <3>3
    <3>4. CASE Trigger(w)
      BY <3>1, <3>4 DEF Trigger, Skip, Conclude, Resume, Select
    <3>5. CASE Insert(w)
      <4>1. PICK c \in Orders \ Rows : c = Min(Orders \ Rows)
        <5>1. Orders \ Rows # {}
          BY <3>5 DEF Insert, Rows
        <5> QED BY <5>1, MinIs
      <4>2. o # c /\ o # p /\ mark' = [mark EXCEPT ![c] = "active", ![p] = "waiting_dispatch"]
        BY <2>1, <3>2, <3>5, <4>1 DEF Insert
      <4> QED BY <3>1, <4>2
    <3>6. CASE SelectionFails(w)
      BY <3>1, <3>2, <3>6 DEF SelectionFails
    <3>7. CASE Mark(w)
      <4>1. o \notin Marked(w)
        BY <2>1, <3>2, <3>7 DEF Mark, Marked
      <4> QED BY <3>7, <4>1 DEF Mark
    <3>8. CASE MarkFails(w)
      BY <3>1, <3>2, <3>8 DEF MarkFails
    <3>9. \/ UNCHANGED mark \/ Trigger(w) \/ Insert(w) \/ SelectionFails(w) \/ Mark(w) \/ MarkFails(w)
      BY <2>7 DEF ChainStep, HookFails, Recheck, FinishStopped, FinishClaims, FinishFails,
         FinishAttempted, Settle, orderVars
    <3> QED BY <3>3, <3>4, <3>5, <3>6, <3>7, <3>8, <3>9
  <2> QED BY <1>1, <2>2, <2>3, <2>4, <2>5, <2>6, <2>7 DEF Next, GroupStep
<1>2. IInv /\ [Next]_vars => [EndKept]_vars
  BY <1>1
<1> QED BY <1>2, Inductive, PTL DEF Spec, EndRemembered
=============================================================================
