----------------------------- MODULE QrTransitions -----------------------------
(***************************************************************************)
(* The life of a rack under transition rules: orders created by scans or   *)
(* by operators, alone, as a chain or as a batch that holds the rack for   *)
(* both steps; completions, whose hook applies the rule that fits; and an  *)
(* administrator who applies one by hand, while others edit the rules.     *)
(***************************************************************************)
EXTENDS QrConfig

CONSTANTS
  Orders,      \* 1..2: the second continues the first in a chain and in a batch
  Materials,   \* material groups
  Statuses,    \* free-text statuses a rule may give, besides available and reserved
  Sessions,    \* requests that apply a transition by hand
  Route,       \* the cells the rack visits, in order
  StartLabels, \* the tables of labels to start from
  Plans,       \* subset of {"none", "single", "chain", "batch"}; none: no order is created
  Budget       \* bound: for each plan, how many edits, applications by hand, corrections

ASSUME OrdersAssumption == Orders = 1..2 /\ {Route[1], Route[2], Route[3]} \subseteq Cells

\* A rule gives a material group and a status of those that exist, or neither.
ASSUME ResultsAssumption ==
  \A p \in Payloads : /\ p.nextMat \in Materials \cup {None}
                      /\ p.nextStatus \in Statuses \cup {"available", "reserved", None}

\* The labels at the start are such as the endpoints leave them.
ASSUME StartLabelsAssumption ==
  \A table \in StartLabels :
    /\ table \in [Labels -> [code : Codes \cup {None}, match : MatchTypes, active : BOOLEAN]]
    /\ \A l \in Labels : table[l].active => table[l].code # None
    /\ \A l, m \in Labels :
         table[l].active /\ table[m].active /\ l # m => ~Clash(table[l], table[m])

VARIABLES
  plan,      \* how the orders belong together
  rack,      \* [cell, material, status] of the rack
  order,     \* [state, src, dst, event, material] of each order
  applied,   \* how many log entries say that a transition was applied for the order
  session,   \* a request by hand: idle, or what it read and will write
  given,     \* history: the status the last transition gave since the rack was last claimed
  byHand,    \* history: a transition by hand gave the rack a status while it was reserved
  raced      \* history: orders for which two requests by hand overlapped

rackVars == <<rack, order, applied, given, byHand>>
handVars == <<session, raced>>
vars == <<plan, rackVars, handVars, configVars>>

NoEvent == [qr |-> None, station |-> None]
Events == {NoEvent} \cup [qr : Labels \cup {None}, station : Stations]
Idle == [order |-> 0]

InForce(o) == order[o].state = "active"
HeldByOther(o) == \E p \in Orders \ {o} : InForce(p)
Grouped == plan \in {"chain", "batch"}

\* The scan of an order, or of the first order of its group that has one.
EventOf(o) ==
  IF order[o].event # NoEvent \/ ~Grouped THEN order[o].event ELSE order[1].event

\* What the rules see of an order and of the rack as the session finds it.
Context(o, rk) ==
  LET e == EventOf(o)
  IN [scanned |-> e # NoEvent, qr |-> e.qr, station |-> e.station,
      src |-> order[o].src, dst |-> order[o].dst,
      mat |-> IF rk.material # None THEN rk.material ELSE order[o].material,
      status |-> rk.status]

\* Mutant: the log of the order is not consulted.
EligibleAgain(o, rk) ==
  /\ EventOf(o) # NoEvent \/ \E i \in Active : rules[i].anyOrder
  /\ rk.cell = order[o].dst

\* The order has an event, or some rule needs none; nothing was applied for it yet;
\* the rack stands on its destination.
Eligible(o, rk) ==
  /\ EventOf(o) # NoEvent \/ \E i \in Active : rules[i].anyOrder
  /\ applied[o] = 0
  /\ rk.cell = order[o].dst

\* A rule that fitted through the order's material is refused for the rack's.
StillFits(r, rk) ==
  r.simple \/ r.ignore \/ r.mat = None \/ r.mat = rk.material

\* The rule that changes the rack for a completed order, or 0.
Evaluate(o, rk) ==
  LET i == IF Eligible(o, rk) THEN Chosen(rules, Active, Context(o, rk)) ELSE 0
  IN IF i # 0 /\ StillFits(rules[i], rk) THEN i ELSE 0

\* Mutant: an empty status of the rule is written too.
ChangeAll(r, rk) ==
  [rk EXCEPT !.material = IF r.nextMat # None THEN r.nextMat ELSE @, !.status = r.nextStatus]

\* What the rule leaves empty stays.
Change(r, rk) ==
  [rk EXCEPT !.material = IF r.nextMat # None THEN r.nextMat ELSE @,
             !.status = IF r.nextStatus # None THEN r.nextStatus ELSE @]

-----------------------------------------------------------------------------
(* Orders *)

NewOrder(o, e) ==
  [state |-> "active", src |-> Route[o], dst |-> Route[o + 1], event |-> e, material |-> rack.material]

\* The claim of an order: the rack is available and no order holds it.
CreateOrder(o) ==
  /\ order[o].state = "none" /\ plan # "none" /\ (plan = "batch" => o = 1)
  /\ rack.cell = Route[o] /\ rack.status = "available"
  /\ \A p \in Orders : ~InForce(p)
  /\ \E e \in Events :
       /\ Grouped => (e = NoEvent <=> o = 2)
       /\ e.qr # None => e.qr \in ActiveLabels
       /\ e.station # None => e.station \in stations
       /\ order' = [p \in Orders |->
                      IF p = o THEN NewOrder(o, e)
                      ELSE IF plan = "batch" THEN NewOrder(p, NoEvent) ELSE order[p]]
  /\ rack' = [rack EXCEPT !.status = "reserved"]
  /\ given' = None /\ byHand' = FALSE
  /\ UNCHANGED <<plan, applied, handVars, configVars>>

\* Mutant: the reservation is not put back.
DropHold(o, rk) == rk

\* What the completion leaves of the rack: in a batch the rule sees it released, and
\* the reservation is put back before the commit.
Hold(o, rk) == IF HeldByOther(o) THEN [rk EXCEPT !.status = "reserved"] ELSE rk

\* The RCS ends the task: the rack moves and is released, and the hook applies the
\* rule that fits, all in one commit.
Complete(o) ==
  /\ InForce(o) /\ rack.cell = order[o].src
  /\ plan = "batch" => \A p \in Orders : p < o => order[p].state \in {"moved", "closed"}
  /\ LET moved == [rack EXCEPT !.cell = order[o].dst, !.status = "available"]
         i     == Evaluate(o, moved)
     IN IF i = 0
        THEN rack' = Hold(o, moved) /\ given' = None /\ UNCHANGED applied
        ELSE /\ rack' = Hold(o, Change(rules[i], moved))
             /\ applied' = [applied EXCEPT ![o] = @ + 1]
             /\ given' = IF HeldByOther(o) THEN None ELSE rules[i].nextStatus
  /\ order' = [order EXCEPT ![o].state = "moved"]
  /\ byHand' = FALSE
  /\ UNCHANGED <<plan, handVars, configVars>>

\* The monitor closes the order in a commit of its own: a rack that no other order
\* holds is made available, whatever its status.
Close(o) ==
  /\ order[o].state = "moved"
  /\ order' = [order EXCEPT ![o].state = "closed"]
  /\ rack' = IF HeldByOther(o) THEN rack ELSE [rack EXCEPT !.status = "available"]
  /\ UNCHANGED <<plan, applied, given, byHand, handVars, configVars>>

\* The order ends without moving the rack.
Cancel(o) ==
  /\ InForce(o)
  /\ order' = [order EXCEPT ![o].state = "cancelled"]
  /\ rack' = IF HeldByOther(o) THEN rack ELSE [rack EXCEPT !.status = "available"]
  /\ UNCHANGED <<plan, applied, given, byHand, handVars, configVars>>

\* Somebody finds the rack elsewhere and corrects its position.
PlaceRack(c) ==
  /\ Spend("corrections") /\ \A o \in Orders : ~InForce(o)
  /\ rack' = [rack EXCEPT !.cell = c]
  /\ UNCHANGED <<plan, order, applied, given, byHand, handVars, tableVars>>

-----------------------------------------------------------------------------
(* By hand: the request reads without a lock, evaluates, then writes *)

ReadByHand(s, o) ==
  /\ session[s] = Idle /\ Spend("applies")
  /\ order[o].state \in {"moved", "closed"}
  /\ LET i == Evaluate(o, rack)
     IN /\ i # 0
        /\ session' = [session EXCEPT ![s] = [order |-> o, rule |-> rules[i], seen |-> rack]]
  /\ raced' = IF \E t \in Sessions : session[t] # Idle /\ session[t].order = o
              THEN raced \cup {o} ELSE raced
  /\ UNCHANGED <<plan, rackVars, tableVars>>

\* Only the columns that differ from what was read are written.
WriteByHand(s) ==
  /\ session[s] # Idle
  /\ LET w     == session[s]
         after == Change(w.rule, w.seen)
     IN /\ rack' = [rack EXCEPT !.material = IF after.material # w.seen.material
                                             THEN after.material ELSE @,
                                !.status = IF after.status # w.seen.status
                                           THEN after.status ELSE @]
        /\ applied' = [applied EXCEPT ![w.order] = @ + 1]
        /\ byHand' = (byHand \/ after.status # w.seen.status)
        /\ given' = IF w.rule.nextStatus # None THEN w.rule.nextStatus ELSE given
  /\ session' = [session EXCEPT ![s] = Idle]
  /\ UNCHANGED <<plan, order, raced, configVars>>

-----------------------------------------------------------------------------

Init ==
  /\ plan \in Plans
  /\ \E m \in IF plan = "none" THEN {None} ELSE Materials \cup {None} :
       rack = [cell |-> Route[1], material |-> m, status |-> "available"]
  /\ order = [o \in Orders |-> [NewOrder(o, NoEvent) EXCEPT !.state = "none"]]
  /\ applied = [o \in Orders |-> 0]
  /\ session = [s \in Sessions |-> Idle]
  /\ given = None /\ byHand = FALSE /\ raced = {}
  /\ stations = Stations
  /\ terminals = [t \in Terminals |-> [station |-> None, active |-> FALSE]]
  /\ labels \in StartLabels /\ (plan # "none" => ActiveLabels # {})
  /\ \E p \in Payloads, on \in BOOLEAN :
       /\ Validated(p) /\ ReferencesActive(p) /\ Diagnosed(p, {})
       /\ rules = [i \in RuleIds |-> IF i = 1 THEN [Stored(p) EXCEPT !.active = on] ELSE NoRule]
  /\ byEdit = {} /\ restored = {} /\ left = Budget[plan]

OrderStep(o) == CreateOrder(o) \/ Complete(o) \/ Close(o) \/ Cancel(o)

HandStep(s) == WriteByHand(s) \/ \E o \in Orders : ReadByHand(s, o)

Next ==
  \/ \E o \in Orders : OrderStep(o)
  \/ \E c \in Cells : PlaceRack(c)
  \/ \E s \in Sessions : HandStep(s)
  \/ ConfigNext /\ UNCHANGED <<plan, rackVars, handVars>>

Spec == Init /\ [][Next]_vars

-----------------------------------------------------------------------------
(* Safety *)

TypeOK ==
  /\ plan \in Plans
  /\ rack \in [cell : Cells, material : Materials \cup {None},
               status : Statuses \cup {"available", "reserved"}]
  /\ order \in [Orders -> [state : {"none", "active", "moved", "closed", "cancelled"},
                            src : Cells, dst : Cells, event : Events,
                            material : Materials \cup {None}]]
  /\ applied \in [Orders -> Nat]
  /\ \A s \in Sessions : session[s] = Idle \/ session[s].order \in Orders
  /\ stations \subseteq Stations
  /\ terminals \in [Terminals -> [station : Stations \cup {None}, active : BOOLEAN]]
  /\ labels \in [Labels -> [code : Codes \cup {None}, match : MatchTypes, active : BOOLEAN]]
  /\ byHand \in BOOLEAN /\ raced \subseteq Orders /\ restored \subseteq Rows

\* A completed order changes its rack once: neither the hook and a request by hand,
\* nor rules saved after it, nor a second request apply another transition, unless
\* two requests by hand overlapped.
AppliedOnce == \A o \in Orders : applied[o] <= 1 \/ o \in raced

\* While an order holds the rack it shows as reserved, whatever the rules say: the
\* hook of a batch's step puts the reservation back.  Only a transition applied by
\* hand for an earlier order writes over it.
ReservationShown == (\E o \in Orders : InForce(o)) => rack.status = "reserved" \/ byHand

\* All the orders, racks and scans a rule may be asked about.
Contexts == [scanned : {TRUE}, qr : Labels \cup {None}, station : Stations \cup {None},
             src : Cells, dst : Cells, mat : Materials \cup {None},
             status : Statuses \cup {"available"}]

\* The ranking decides for every order: the diagnosis leaves no two active rules
\* that tie with different results, except where a rule was restored or where one
\* ignores the current material it names.
RankingDecides ==
  \A i, j \in Active :
    \/ i >= j \/ Result(rules[i]) = Result(rules[j])
    \/ {i, j} \cap restored # {}
    \/ rules[i].ignore \/ rules[j].ignore
    \/ \A ctx \in Contexts : Matches(rules[i], ctx) /\ Matches(rules[j], ctx) =>
         Outranks(rules[i], rules[j], ctx) \/ Outranks(rules[j], rules[i], ctx)

\* A transition changes the rack's status when the order completes
\* (GUIA_QR_ESCANERES_PDA_FIFO_CHAIN.md:144), and nothing but a new order takes the
\* status away again.
StatusStays ==
  given # None /\ (\A o \in Orders : ~InForce(o)) => rack.status = given
=============================================================================
