--------------------------- MODULE TransportLedger ---------------------------
(***************************************************************************)
(* What the order component promises to whoever shares the floor with it:  *)
(* a ledger of transports.  A transport is opened only when its rack and   *)
(* its destination cell are free of other open transports; its job is      *)
(* started in the fleet at most once, and never after the transport was    *)
(* closed; a transport is closed only when its job cannot move the rack    *)
(* any more.  Only an administrator may override this, and an overridden   *)
(* transport is never counted as open again.                               *)
(***************************************************************************)
CONSTANTS Transports, Racks, Cells, NoRack, NoCell

VARIABLES
  phase,      \* "free", "open", "closed" or "overridden"
  job,        \* "none", "live" or "over": the task in the fleet
  rack, cell  \* what the transport holds: its rack and its destination

vars == <<phase, job, rack, cell>>

Init ==
  /\ phase = [t \in Transports |-> "free"]
  /\ job = [t \in Transports |-> "none"]
  /\ rack = [t \in Transports |-> NoRack]
  /\ cell = [t \in Transports |-> NoCell]

Open(t, r, c) ==
  /\ phase[t] = "free"
  /\ \A u \in Transports : phase[u] = "open" => rack[u] # r /\ cell[u] # c
  /\ phase' = [phase EXCEPT ![t] = "open"]
  /\ rack' = [rack EXCEPT ![t] = r]
  /\ cell' = [cell EXCEPT ![t] = c]
  /\ UNCHANGED job

Start(t) ==
  /\ phase[t] \in {"open", "overridden"} /\ job[t] = "none"
  /\ job' = [job EXCEPT ![t] = "live"]
  /\ UNCHANGED <<phase, rack, cell>>

End(t) ==
  /\ job[t] = "live"
  /\ job' = [job EXCEPT ![t] = "over"]
  /\ UNCHANGED <<phase, rack, cell>>

Close(t) ==
  /\ phase[t] = "open" /\ job[t] # "live"
  /\ phase' = [phase EXCEPT ![t] = "closed"]
  /\ UNCHANGED <<job, rack, cell>>

Override(t) ==
  /\ phase[t] = "open"
  /\ phase' = [phase EXCEPT ![t] = "overridden"]
  /\ UNCHANGED <<job, rack, cell>>

Next ==
  \E t \in Transports :
    \/ \E r \in Racks, c \in Cells : Open(t, r, c)
    \/ Start(t) \/ End(t) \/ Close(t) \/ Override(t)

Spec == Init /\ [][Next]_vars
=============================================================================
