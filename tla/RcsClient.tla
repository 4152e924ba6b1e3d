------------------------------ MODULE RcsClient ------------------------------
(***************************************************************************)
(* rcs_client.py: how one createTask request is posted.  The adapter sends *)
(* the same body again after a failure of any kind, so several copies of a *)
(* request may be on their way and one may arrive after the client has     *)
(* given up; what the caller learns must tell a request that certainly     *)
(* never left from one that may yet be received.                           *)
(***************************************************************************)
EXTENDS Integers

CONSTANTS
    Orders,     \* an order has one request, with one reqCode
    Attempts,   \* POSTs of one call without a redirect: max_retries + 1 (3)
    Setups      \* what may happen in one behaviour, see setup

ASSUME AttemptsAssumption == Attempts \in Nat \ {0}

VARIABLES
    call,       \* the call of create_task of each order
    copies,     \* copies of the request that left and have not arrived
    remote,     \* the RCS's task of the reqCode (external)
    faults,     \* attempts without an answer, and redirects, so far
    setup       \* chosen at the start: the bounds of faults, edits and crashes

clientVars == <<call, copies, remote>>

\* tries: failures since the last redirect.  unsent: none of them was more than a
\* connection that could not be made.  seen: a redirect was answered.
NoCall == [at |-> "idle", tries |-> 0, unsent |-> TRUE, seen |-> FALSE, result |-> "none"]
Results == {"none", "not_sent", "error", "unclear", "rejected", "accepted"}

StartCall(o) ==
    /\ call[o].at = "idle"
    /\ call' = [call EXCEPT ![o] = [NoCall EXCEPT !.at = "trying"]]

\* _confirmed_not_sent: every attempt of the last chain failed to connect, and no
\* response was seen before it.  Mutant: the last error alone decides.
LastErrorOnly(c, connect) == connect
ConfirmedNotSent(c, connect) == connect /\ c.unsent /\ ~c.seen

\* _DeliveryAwareRetry.increment after a failure, and what create_task raises
\* when no attempt is left.
Retried(c, connect) ==
    LET next == [c EXCEPT !.tries = @ + 1, !.unsent = @ /\ connect]
    IN  IF next.tries < Attempts THEN next
        ELSE [next EXCEPT !.at = "done", !.result =
                IF ConfirmedNotSent(c, connect) THEN "not_sent" ELSE "error"]

Trying(o) == call[o].at = "trying"
MaxFaults == setup.faults
Fault == faults < MaxFaults /\ faults' = faults + 1

\* Refused, unreachable, or a connect timeout: no peer took the request.
ConnectFails(o) ==
    /\ Trying(o) /\ Fault
    /\ call' = [call EXCEPT ![o] = Retried(@, TRUE)]
    /\ UNCHANGED <<copies, remote>>

\* A read timeout, a connection broken after the request, or a status of the
\* retried ones: the copy may still be received, or never.
AnswerLost(o) ==
    /\ Trying(o) /\ Fault
    /\ call' = [call EXCEPT ![o] = Retried(@, FALSE)]
    /\ copies' = [copies EXCEPT ![o] = @ + 1]
    /\ UNCHANGED remote

\* A redirect is followed by requests itself, with a new chain of retries.
Redirected(o) ==
    /\ Trying(o) /\ ~call[o].seen /\ Fault
    /\ call' = [call EXCEPT ![o] = [NoCall EXCEPT !.at = "trying", !.seen = TRUE]]
    /\ copies' = [copies EXCEPT ![o] = @ + 1]
    /\ UNCHANGED remote

-----------------------------------------------------------------------------
(* The RCS (external): it makes at most one task of a reqCode and answers a  *)
(* copy as it answered the first; the repository leaves that to the RCS      *)
(* (docs/FASE_1A.md, the idempotency of Q1).                                 *)

Verdicts(o) == IF remote[o] = "none" THEN {"live", "refused"} ELSE {remote[o]}

\* What create_task makes of a response, and _dispatch_movement_order of that: a
\* broken body, a foreign reqCode or a missing taskCode settles nothing, and a
\* refusal without a taskCode is a rejection.
Read(verdict) == {"unclear"} \cup (IF verdict = "refused" THEN {"rejected"} ELSE {"accepted"})

Answered(o) ==
    /\ Trying(o)
    /\ \E verdict \in Verdicts(o) :
         /\ remote' = [remote EXCEPT ![o] = verdict]
         /\ \E result \in Read(verdict) :
              call' = [call EXCEPT ![o].at = "done", ![o].result = result]
    /\ UNCHANGED <<copies, faults>>

CopyArrives(o) ==
    /\ copies[o] > 0
    /\ copies' = [copies EXCEPT ![o] = @ - 1]
    /\ \E verdict \in Verdicts(o) : remote' = [remote EXCEPT ![o] = verdict]
    /\ UNCHANGED <<call, faults>>

\* A copy that was lost for good.
CopyLost(o) ==
    /\ copies[o] > 0
    /\ copies' = [copies EXCEPT ![o] = @ - 1]
    /\ UNCHANGED <<call, remote, faults>>

CallStep(o) ==
    \/ ConnectFails(o) \/ AnswerLost(o) \/ Redirected(o) \/ Answered(o)
    \/ CopyArrives(o) \/ CopyLost(o)

\* The request may move a rack: a task runs, or there is none yet and the request
\* is about to leave or on its way.
MayMove(o) ==
    \/ remote[o] = "live"
    \/ (remote[o] = "none") /\ (Trying(o) \/ copies[o] > 0)
=============================================================================
