--------------------------------- MODULE Scans ---------------------------------
(***************************************************************************)
(* A label read by a scanner becomes an order: the guards of               *)
(* _execute_scan_locked, the host-wide lock of the scanner and the label,  *)
(* the window in which a repeated scan is a duplicate, the commits one     *)
(* after another (the order, its route, the dispatch, the event, the       *)
(* event's link to the order), and what the handler answers when one of    *)
(* them fails.  What the RCS and the monitor do with an order is modelled  *)
(* in OrderDispatch and OrderMonitor; here it is one step.                 *)
(***************************************************************************)
EXTENDS Naturals, FiniteSets

CONSTANTS
  Scanners, Labels, \* scanner_stations and active QR action rules
  Executing,        \* the scanners that are active and may execute
  Keys,             \* the labels each scanner reads, subset of Scanners \X Labels
  Sessions,         \* POST /api/scan/execute requests under way
  Racks, Cells,     \* racks that fit every label, and destination cells
  Orders,           \* bound: numbers, in the order they are created
  RouteTables,      \* the routes the labels may have, subset of [Labels -> AllRoutes]
  None,
  MaxTroubles       \* bound: dispatches and closings by hand, restarts of the server

\* simple, double: one or two destinations; chain: the first step of a chain with its
\* source and destination configured; open: with one of them searched for by material
\* or by space; group: a chain whose steps are created and sent at once.
AllRoutes == {"simple", "double", "chain", "open", "group"}

ASSUME ScansAssumption ==
  /\ Executing \subseteq Scanners /\ Keys \subseteq Scanners \X Labels
  /\ RouteTables \subseteq [Labels -> AllRoutes]
  /\ Orders \subseteq Nat \ {0}
  /\ MaxTroubles \in Nat
  /\ None \notin Racks \cup Cells

VARIABLES
  routeOf, \* the route of each label
  session, \* the request: how far it is, what it read and what it will answer
  order,   \* the movement_orders rows
  events,  \* the scan_events of each scanner and label that have an order
  troubles,
  crashed  \* history: the server was restarted

envVars == <<troubles, crashed>>
vars == <<routeOf, session, order, events, envVars>>

\* SCAN_EXECUTE_RECENT_STATUSES, those the API stores.
RecentStatuses == {"dispatched", "batch_sent", "batch_partial", "batch_uncertain"}
Replies == RecentStatuses \cup {"rejected", "duplicate", "error"}

Idle == [pc |-> "idle"]
NoOrder == [status |-> "none"]
Used == {o \in Orders : order[o].status # "none"}
\* RACK_RESERVATION_ACTIVE_STATUSES
InForce(o) == order[o].status \in {"pending", "dispatched"}
Booked == {o \in Orders : InForce(o)}
ReservedRacks == {order[o].rack : o \in Booked}
ReservedCells == {order[o].dst : o \in Booked}

Goto(s, pc) == session' = [session EXCEPT ![s].pc = pc]
\* What was read before is not read again.
Answer(s, reply) ==
  session' = [session EXCEPT ![s] = [@ EXCEPT !.pc = "event", !.reply = reply, !.rack = None,
                                              !.dst = None, !.last = None]]

-----------------------------------------------------------------------------
(* The lock, and the checks made under it. *)

\* Mutant: the lock file is of the process: a request in another one goes on.
NoLock(s, k) == TRUE
\* The lock of a scanner and a label is held from the first check to the last commit.
LockFree(s, k) == \A t \in Sessions \ {s} : session[t].pc # "idle" => session[t].key # k

\* Without the lock the request answers "duplicate" and stores nothing: no step.
Receive(s, k) ==
  /\ session[s].pc = "idle"
  /\ LockFree(s, k)
  /\ session' = [session EXCEPT ![s] =
       [pc |-> "check", key |-> k, order |-> 0, rack |-> None, dst |-> None, last |-> None,
        reply |-> "none"]]
  /\ UNCHANGED <<routeOf, order, events, envVars>>

\* _recent_duplicate_scan_event
Recent(k) == {e \in events[k] : e.fresh}

Check(s) ==
  /\ session[s].pc = "check"
  /\ IF session[s].key[1] \notin Executing THEN Answer(s, "rejected")
     ELSE IF Recent(session[s].key) # {} THEN Answer(s, "duplicate")
     ELSE Goto(s, "choose")
  /\ UNCHANGED <<routeOf, order, events, envVars>>

-----------------------------------------------------------------------------
(* The order: what is read first, and the transaction that books it. *)

RouteFor(s) == routeOf[session[s].key[2]]

\* The rack, the destination and, for two destinations, the last one, which a
\* configured cell gives without a look at the reservations.
Choose(s) ==
  /\ session[s].pc = "choose"
  /\ \E r \in Racks \ ReservedRacks, d \in Cells \ ReservedCells,
        l \in IF RouteFor(s) = "double" THEN Cells ELSE {None} :
       session' = [session EXCEPT ![s].pc = "book", ![s].rack = r, ![s].dst = d, ![s].last = l]
  /\ UNCHANGED <<routeOf, order, events, envVars>>

\* Mutant: the claim trusts what was read before it.
ClaimAnyway(s) == TRUE
\* _claim_movement_resources, under the writer lock; an open route has no claim.
Claimable(s) ==
  RouteFor(s) # "open" =>
    session[s].rack \notin ReservedRacks /\ session[s].dst \notin ReservedCells

\* A group's rows carry their route from the start.
Book(s) ==
  /\ session[s].pc = "book"
  /\ IF Claimable(s)
     THEN \E o \in Orders \ Used :
            /\ \A p \in Orders \ Used : o <= p
            /\ order' = [order EXCEPT ![o] =
                 [status |-> "pending", dispatch |-> "not_sent", sender |-> "none",
                  key |-> session[s].key, rack |-> session[s].rack, dst |-> session[s].dst,
                  claimed |-> RouteFor(s) # "open", routed |-> RouteFor(s) = "group"]]
            /\ session' = [session EXCEPT ![s].order = o,
                             ![s].rack = None, ![s].dst = None,
                             ![s].pc = IF RouteFor(s) = "group" THEN "send" ELSE "route"]
     ELSE UNCHANGED order /\ Answer(s, "error")
  /\ UNCHANGED <<routeOf, events, envVars>>

\* The commit after the order's: its route, and for a double route the last
\* destination in place of the one that was claimed.
SetRoute(s) ==
  /\ session[s].pc = "route"
  /\ LET o == session[s].order
     IN order' = [order EXCEPT ![o].routed = TRUE,
          ![o].dst = IF RouteFor(s) = "double" THEN session[s].last ELSE @,
          ![o].claimed = @ /\ RouteFor(s) # "double"]
  /\ session' = [session EXCEPT ![s].pc = "send", ![s].last = None]
  /\ UNCHANGED <<routeOf, events, envVars>>

-----------------------------------------------------------------------------
(* The dispatch, and the answer. *)

\* Mutant: the order is given the state of its dispatch.
CompensatedAlike(r) ==
  IF r.dispatch = "uncertain" THEN r ELSE [r EXCEPT !.status = r.dispatch]
\* _rollback_unsuccessful_order_dispatch: nothing for an uncertain dispatch.
Compensated(r) == IF r.dispatch = "uncertain" THEN r ELSE [r EXCEPT !.status = "failed"]

\* A row with the reply of the RCS, and compensated unless it was accepted.
Replied(r, outcome) ==
  LET known == [r EXCEPT !.dispatch = outcome, !.sender = "none"]
  IN IF outcome = "success"
     THEN [known EXCEPT !.status = IF @ = "pending" THEN "dispatched" ELSE @]
     ELSE Compensated(known)

ReplyTo(s, dispatch) ==
  IF RouteFor(s) = "group"
  THEN CASE dispatch = "success"   -> "batch_sent"
         [] dispatch = "uncertain" -> "batch_uncertain"
         [] OTHER                  -> "batch_partial"
  ELSE IF dispatch = "success" THEN "dispatched" ELSE "error"

\* An order that someone else sent or closed is not sent again: its stored state answers.
Send(s) ==
  LET o == session[s].order
      r == order[o]
  IN /\ session[s].pc = "send"
     /\ IF r.status = "pending" /\ r.dispatch = "not_sent"
        THEN /\ order' = [order EXCEPT ![o].dispatch = "uncertain", ![o].sender = "scan"]
             /\ Goto(s, "wait")
        ELSE /\ order' = [order EXCEPT ![o] = IF r.dispatch = "success" THEN r ELSE Compensated(r)]
             /\ Answer(s, ReplyTo(s, r.dispatch))
     /\ UNCHANGED <<routeOf, events, envVars>>

Outcomes == {"success", "error", "uncertain"}
Wait(s) ==
  /\ session[s].pc = "wait"
  /\ \E outcome \in Outcomes :
       /\ order' = [order EXCEPT ![session[s].order] = Replied(@, outcome)]
       /\ Answer(s, ReplyTo(s, outcome))
  /\ UNCHANGED <<routeOf, events, envVars>>

\* Mutant: the failure drops the order from the answer of every route.
FailForgets(s) ==
  /\ session[s].pc \in {"choose", "book", "route", "send"}
  /\ session' = [session EXCEPT ![s].pc = "event", ![s].reply = "error", ![s].order = 0]
  /\ UNCHANGED <<routeOf, order, events, envVars>>
\* A guard that fails, no rack or cell, a conflict, or an unexpected error: the order,
\* if there is one, stays as it is.
Fail(s) ==
  /\ session[s].pc \in {"choose", "book", "route", "send"}
  /\ Answer(s, "error")
  /\ UNCHANGED <<routeOf, order, events, envVars>>

\* Of a group that failed, the handler knows no order to link.
Linkable(s) ==
  session[s].order # 0 /\ ~(RouteFor(s) = "group" /\ session[s].reply = "error")

\* An event without an order is never looked for again: it is left out.
Stored(s) ==
  events' = [events EXCEPT ![session[s].key] = @ \cup
    IF session[s].order = 0 THEN {}
    ELSE {[status |-> session[s].reply, order |-> session[s].order, linked |-> FALSE,
           fresh |-> session[s].reply \in RecentStatuses]}]

\* Mutant: the lock is given back, and the request ends, before the event is linked.
StoreUnlinked(s) ==
  /\ session[s].pc = "event"
  /\ Stored(s)
  /\ session' = [session EXCEPT ![s] = Idle]
  /\ UNCHANGED <<routeOf, order, envVars>>
\* _save_scan_event; the lock is released if nothing is left to link.
StoreEvent(s) ==
  /\ session[s].pc = "event"
  /\ Stored(s)
  /\ session' = [session EXCEPT ![s] = IF Linkable(s) THEN [@ EXCEPT !.pc = "link"] ELSE Idle]
  /\ UNCHANGED <<routeOf, order, envVars>>

\* event.movement_order_id, in a commit of its own; then the lock is released.
LinkEvent(s) ==
  /\ session[s].pc = "link"
  /\ events' = [events EXCEPT ![session[s].key] =
       {IF e.order = session[s].order THEN [e EXCEPT !.linked = TRUE] ELSE e : e \in @}]
  /\ session' = [session EXCEPT ![s] = Idle]
  /\ UNCHANGED <<routeOf, order, envVars>>

-----------------------------------------------------------------------------
(* Everything else. *)

\* SCAN_DEDUP_SECONDS after the event was stored.
WindowPasses(k) ==
  /\ Recent(k) # {}
  /\ events' = [events EXCEPT ![k] = {[e EXCEPT !.fresh = FALSE] : e \in @}]
  /\ UNCHANGED <<routeOf, session, order, envVars>>

\* POST /api/movement-orders/{id}/dispatch, refused for the rows of a group.
SendByHand(o) ==
  /\ order[o].status = "pending" /\ order[o].dispatch = "not_sent"
  /\ routeOf[order[o].key[2]] # "group"
  /\ troubles < MaxTroubles /\ troubles' = troubles + 1
  /\ order' = [order EXCEPT ![o].dispatch = "uncertain", ![o].sender = "operator"]
  /\ UNCHANGED <<routeOf, session, events, crashed>>

ReplyByHand(o) ==
  /\ order[o].status # "none" /\ order[o].sender = "operator"
  /\ \E outcome \in Outcomes : order' = [order EXCEPT ![o] = Replied(@, outcome)]
  /\ UNCHANGED <<routeOf, session, events, envVars>>

\* An administrator closes an order.
CloseByHand(o) ==
  /\ InForce(o)
  /\ troubles < MaxTroubles /\ troubles' = troubles + 1
  /\ order' = [order EXCEPT ![o].status = "closed"]
  /\ UNCHANGED <<routeOf, session, events, crashed>>

\* The task ends, or its cancellation is confirmed.
Finish(o) ==
  /\ order[o].status = "dispatched"
  /\ order' = [order EXCEPT ![o].status = "closed"]
  /\ UNCHANGED <<routeOf, session, events, envVars>>

\* The system releases the locks; at startup recover_interrupted_groups gives back the
\* rows of a group that were not sent.
Crash ==
  /\ troubles < MaxTroubles /\ troubles' = troubles + 1 /\ crashed' = TRUE
  /\ session' = [s \in Sessions |-> Idle]
  /\ order' = [o \in Orders |->
       IF o \notin Used THEN NoOrder
       ELSE IF order[o].status = "pending" /\ order[o].dispatch = "not_sent"
               /\ routeOf[order[o].key[2]] = "group"
            THEN [order[o] EXCEPT !.status = "failed"]
            ELSE [order[o] EXCEPT !.sender = "none"]]
  /\ UNCHANGED <<routeOf, events>>

Init ==
  /\ routeOf \in RouteTables
  /\ session = [s \in Sessions |-> Idle]
  /\ order = [o \in Orders |-> NoOrder]
  /\ events = [k \in Keys |-> {}]
  /\ troubles = 0 /\ crashed = FALSE

Next ==
  \/ \E s \in Sessions :
       \/ \E k \in Keys : Receive(s, k)
       \/ Check(s) \/ Choose(s) \/ Book(s) \/ SetRoute(s) \/ Send(s) \/ Wait(s)
       \/ Fail(s) \/ StoreEvent(s) \/ LinkEvent(s)
  \/ \E k \in Keys : WindowPasses(k)
  \/ \E o \in Orders : SendByHand(o) \/ ReplyByHand(o) \/ CloseByHand(o) \/ Finish(o)
  \/ Crash

Spec == Init /\ [][Next]_vars

-----------------------------------------------------------------------------
(* Properties. *)

OrderRows ==
  {NoOrder} \cup
  [status : {"pending", "dispatched", "closed", "failed"},
   dispatch : {"not_sent", "uncertain", "success", "error"},
   sender : {"none", "scan", "operator"}, key : Keys, rack : Racks, dst : Cells,
   claimed : BOOLEAN, routed : BOOLEAN]
SessionStates ==
  {Idle} \cup
  [pc : {"check", "choose", "book", "route", "send", "wait", "event", "link"}, key : Keys,
   order : Orders \cup {0}, rack : Racks \cup {None}, dst : Cells \cup {None},
   last : Cells \cup {None}, reply : Replies \cup {"none"}]
TypeOK ==
  /\ routeOf \in RouteTables
  /\ session \in [Sessions -> SessionStates]
  /\ order \in [Orders -> OrderRows]
  /\ events \in [Keys -> SUBSET [status : Replies, order : Orders \cup {0},
                                linked : BOOLEAN, fresh : BOOLEAN]]
  /\ troubles \in 0..MaxTroubles /\ crashed \in BOOLEAN

\* A new order's label is in the hands of its own request only, and has no recent event.
CreatedAlone ==
  \A o \in Orders \ Used : order'[o].status # "none" =>
    LET k == order'[o].key
    IN /\ Recent(k) = {}
       /\ Cardinality({s \in Sessions : session[s].pc # "idle" /\ session[s].key = k}) = 1

\* A scan repeated while the first is executed, or within the window after its event,
\* creates no second order, whichever worker receives it (scanner_service.py 3075-3187).
OneOrderPerScan == [][CreatedAlone]_vars

\* Of two orders in force that hold one rack or one destination, at least one was booked
\* without a claim: by an open route, or as the last destination of a double one
\* (fifo_service.py 446-474, scanner_service.py 2678-2862 and 3466-3482).
ClaimsExclusive ==
  \A o, p \in Booked :
    o # p /\ order[o].claimed /\ order[p].claimed =>
      order[o].rack # order[p].rack /\ order[o].dst # order[p].dst

\* Whatever fails, an order left in force is in the hands of its request or named by an
\* event, so that the terminal that scanned it can find it and cancel it; unless the
\* server died, or the group's execution failed (scanner_service.py 3569-3802).
NothingUnreported ==
  \A o \in Booked :
    \/ crashed
    \/ \E s \in Sessions : session[s].pc # "idle" /\ session[s].order = o
    \/ \E e \in events[order[o].key] :
         e.order = o /\ (e.linked \/ (routeOf[order[o].key[2]] = "group" /\ e.status = "error"))

\* A request refused as a duplicate can name the order of the first one: the event is
\* linked before the lock is released (scanner_service.py 3168-3187 and 3685-3688).
DuplicateNamesOrder ==
  \A s \in Sessions :
    session[s].pc = "event" /\ session[s].reply = "duplicate" =>
      crashed \/ \E e \in events[session[s].key] : e.linked /\ e.status \in RecentStatuses
=============================================================================
