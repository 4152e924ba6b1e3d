----------------------------- MODULE ScansProofs -----------------------------
(***************************************************************************)
(* Proofs, for any scanners, labels, routes, requests, racks, cells and    *)
(* orders, of what a scan promises: one order for one label, claimed racks *)
(* and cells of one order only, and an answer that can be followed up.     *)
(***************************************************************************)
EXTENDS Scans, FiniteSetTheorems, TLAPS

Busy(s) == session[s].pc # "idle"
Holds(s, o) == Busy(s) /\ session[s].order = o

\* What a request has read and made by the time it comes to a step.
SessionInv(s) ==
  LET t == session[s]
  IN /\ t.pc \in {"check", "choose", "book"} => t.order = 0
     /\ t.pc = "book" => /\ t.rack \in Racks /\ t.dst \in Cells
                         /\ RouteFor(s) = "double" => t.last \in Cells
     /\ t.pc = "route" /\ RouteFor(s) = "double" => t.last \in Cells
     /\ t.pc \in {"route", "send", "wait", "link"} => t.order \in Orders
     /\ t.pc \in {"event", "link"} => t.reply \in Replies
     /\ t.pc \in {"event", "link"} /\ t.reply \in RecentStatuses => t.order # 0
     /\ Busy(s) /\ t.order \in Orders => t.order \in Used /\ order[t.order].key = t.key
     /\ t.pc \in {"choose", "book"} => Recent(t.key) = {}
SessionsInv == \A s \in Sessions : SessionInv(s)

\* A scanner and a label are in the hands of one request.
LockInv == \A s, t \in Sessions :
  s # t /\ Busy(s) /\ Busy(t) => session[s].key # session[t].key

\* An event within the window names its order, or its request is about to link it.
EventInv(k) ==
  \A e \in events[k] :
    e.fresh => /\ e.status \in RecentStatuses
               /\ \/ crashed \/ e.linked
                  \/ \E s \in Sessions : /\ session[s].pc = "link" /\ session[s].key = k
                                         /\ session[s].order = e.order
EventsInv == \A k \in Keys : EventInv(k)

\* A request about to link finds the event it stored.
LinkInv == \A s \in Sessions :
  session[s].pc = "link" => \E e \in events[session[s].key] : e.order = session[s].order

USE DEF Idle, NoOrder, InForce, Busy, SessionStates, OrderRows

\* Numbers of orders are no 0.
LEMMA OrderNumbers == 0 \notin Orders
BY ScansAssumption

Stages == {"check", "choose", "book", "route", "send", "wait", "event", "link"}

\* A request's record has its fields.
LEMMA RequestFields ==
  ASSUME NEW t \in SessionStates, t.pc # "idle"
  PROVE  /\ t.pc \in Stages /\ t.key \in Keys /\ t.order \in Orders \cup {0}
         /\ t.rack \in Racks \cup {None} /\ t.dst \in Cells \cup {None}
         /\ t.last \in Cells \cup {None} /\ t.reply \in Replies \cup {"none"}
         /\ t = [pc |-> t.pc, key |-> t.key, order |-> t.order, rack |-> t.rack,
                 dst |-> t.dst, last |-> t.last, reply |-> t.reply]
BY DEF Stages

\* So has an order's row.
LEMMA RowFields ==
  ASSUME NEW r \in OrderRows, r.status # "none"
  PROVE  /\ r.status \in {"pending", "dispatched", "closed", "failed"}
         /\ r.dispatch \in {"not_sent", "uncertain", "success", "error"}
         /\ r.sender \in {"none", "scan", "operator"} /\ r.key \in Keys
         /\ r.rack \in Racks /\ r.dst \in Cells /\ r.claimed \in BOOLEAN /\ r.routed \in BOOLEAN
         /\ r = [status |-> r.status, dispatch |-> r.dispatch, sender |-> r.sender, key |-> r.key,
                 rack |-> r.rack, dst |-> r.dst, claimed |-> r.claimed, routed |-> r.routed]
OBVIOUS

\* One request moves on, the others stay.
LEMMA SessionUpdate ==
  ASSUME TypeOK, NEW s \in Sessions, NEW t \in SessionStates, session' = [session EXCEPT ![s] = t]
  PROVE  /\ session' \in [Sessions -> SessionStates]
         /\ session'[s] = t
         /\ \A v \in Sessions \ {s} : session'[v] = session[v]
<1> HIDE DEF SessionStates
<1> QED BY DEF TypeOK

\* One row changes, the others stay.
LEMMA OrderUpdate ==
  ASSUME TypeOK, NEW o \in Orders, NEW r \in OrderRows, order' = [order EXCEPT ![o] = r]
  PROVE  /\ order' \in [Orders -> OrderRows]
         /\ order'[o] = r
         /\ \A p \in Orders \ {o} : order'[p] = order[p]
<1> HIDE DEF OrderRows
<1> QED BY DEF TypeOK

\* Requests that stay as they are.
Others(s) == \A v \in Sessions \ {s} : session'[v] = session[v]

\* An answer keeps the label and the order.
LEMMA AnswerEffect ==
  ASSUME TypeOK, NEW s \in Sessions, Busy(s), NEW reply \in Replies, Answer(s, reply)
  PROVE  /\ session' \in [Sessions -> SessionStates]
         /\ session'[s].pc = "event" /\ session'[s].reply = reply
         /\ session'[s].key = session[s].key /\ session'[s].order = session[s].order
         /\ Others(s)
<1> DEFINE t == session[s]
           u == [t EXCEPT !.pc = "event", !.reply = reply, !.rack = None, !.dst = None, !.last = None]
<1>1. t \in SessionStates /\ t.pc # "idle"
  BY DEF TypeOK
<1>2. session' = [session EXCEPT ![s] = u]
  BY DEF Answer, TypeOK
<1>3. u \in SessionStates /\ u.pc = "event" /\ u.reply = reply /\ u.key = t.key /\ u.order = t.order
  BY <1>1, RequestFields
<1> HIDE DEF u
<1> QED BY <1>2, <1>3, SessionUpdate DEF Others

\* Going on keeps everything else.
LEMMA GotoEffect ==
  ASSUME TypeOK, NEW s \in Sessions, Busy(s), NEW pc \in Stages, Goto(s, pc)
  PROVE  /\ session' \in [Sessions -> SessionStates]
         /\ session'[s].pc = pc /\ session'[s].reply = session[s].reply
         /\ session'[s].key = session[s].key /\ session'[s].order = session[s].order
         /\ Others(s)
<1> DEFINE t == session[s]
           u == [t EXCEPT !.pc = pc]
<1>1. t \in SessionStates /\ t.pc # "idle"
  BY DEF TypeOK
<1>2. session' = [session EXCEPT ![s] = u]
  BY DEF Goto, TypeOK
<1>3. u \in SessionStates /\ u.pc = pc /\ u.reply = t.reply /\ u.key = t.key /\ u.order = t.order
  BY <1>1, RequestFields DEF Stages
<1> HIDE DEF u
<1> QED BY <1>2, <1>3, SessionUpdate DEF Others

\* What a step of a request leaves alone: the label, and the order once there is one.
Carried(s) ==
  /\ session' \in [Sessions -> SessionStates]
  /\ Others(s)
  /\ session'[s].key = session[s].key /\ session'[s].order = session[s].order

\* A request that takes the lock knows its label and no order.
LEMMA ReceiveEffect ==
  ASSUME TypeOK, NEW s \in Sessions, NEW k \in Keys, Receive(s, k)
  PROVE  /\ session' \in [Sessions -> SessionStates] /\ Others(s)
         /\ session'[s].pc = "check" /\ session'[s].key = k /\ session'[s].order = 0
<1> DEFINE u == [pc |-> "check", key |-> k, order |-> 0, rack |-> None, dst |-> None,
                 last |-> None, reply |-> "none"]
<1>1. u \in SessionStates /\ u.pc = "check" /\ u.key = k /\ u.order = 0
  OBVIOUS
<1>2. session' = [session EXCEPT ![s] = u]
  BY DEF Receive
<1> HIDE DEF u
<1> QED BY <1>1, <1>2, SessionUpdate DEF Others

\* The check goes on only if nothing recent is stored.
LEMMA CheckEffect ==
  ASSUME TypeOK, NEW s \in Sessions, Check(s)
  PROVE  /\ Carried(s)
         /\ \/ session'[s].pc = "choose" /\ Recent(session[s].key) = {}
            \/ session'[s].pc = "event" /\ session'[s].reply = "rejected"
            \/ /\ session'[s].pc = "event" /\ session'[s].reply = "duplicate"
               /\ Recent(session[s].key) # {}
<1> USE DEF Check, Carried, Replies, Stages
<1>1. Busy(s)
  OBVIOUS
<1>2. CASE Answer(s, "rejected")
  BY <1>1, <1>2, AnswerEffect
<1>3. CASE Answer(s, "duplicate") /\ Recent(session[s].key) # {}
  BY <1>1, <1>3, AnswerEffect
<1>4. CASE Goto(s, "choose") /\ Recent(session[s].key) = {}
  BY <1>1, <1>4, GotoEffect
<1> QED BY <1>2, <1>3, <1>4

\* What is chosen is a rack and cells.
LEMMA ChooseEffect ==
  ASSUME TypeOK, NEW s \in Sessions, Choose(s)
  PROVE  /\ Carried(s)
         /\ session'[s].pc = "book"
         /\ session'[s].rack \in Racks /\ session'[s].dst \in Cells
         /\ RouteFor(s) = "double" => session'[s].last \in Cells
<1> DEFINE t == session[s]
<1>1. PICK r \in Racks \ ReservedRacks, d \in Cells \ ReservedCells,
           l \in IF RouteFor(s) = "double" THEN Cells ELSE {None} :
        session' = [session EXCEPT ![s].pc = "book", ![s].rack = r, ![s].dst = d, ![s].last = l]
  BY DEF Choose
<1> DEFINE u == [t EXCEPT !.pc = "book", !.rack = r, !.dst = d, !.last = l]
<1>2. t \in SessionStates /\ t.pc # "idle"
  BY DEF Choose, TypeOK
<1>3. session' = [session EXCEPT ![s] = u]
  BY <1>1 DEF TypeOK
<1>4. /\ u \in SessionStates /\ u.pc = "book" /\ u.rack = r /\ u.dst = d /\ u.last = l
      /\ u.key = t.key /\ u.order = t.order
  BY <1>2, RequestFields
<1> HIDE DEF u
<1> QED BY <1>3, <1>4, SessionUpdate DEF Carried, Others

\* A row that is changed stays its label's and its rack's, is not claimed anew, and
\* comes back into force no more.
Worked(r, q) ==
  /\ q \in OrderRows /\ q.status # "none"
  /\ q.key = r.key /\ q.rack = r.rack
  /\ q.claimed => r.claimed /\ q.dst = r.dst
  /\ q.status \in {"pending", "dispatched"} => r.status \in {"pending", "dispatched"}
RowStep(o) ==
  /\ order' \in [Orders -> OrderRows]
  /\ order[o].status # "none" /\ Worked(order[o], order'[o])
  /\ \A p \in Orders \ {o} : order'[p] = order[p]

\* A compensation takes the order out of force and changes nothing else that counts.
LEMMA CompensatedWorked ==
  ASSUME NEW r \in OrderRows, r.status # "none"
  PROVE  Worked(r, Compensated(r))
BY RowFields DEF Worked, Compensated

\* So does a reply, unless the request was accepted.
LEMMA RepliedWorked ==
  ASSUME NEW r \in OrderRows, r.status # "none", NEW outcome \in Outcomes
  PROVE  Worked(r, Replied(r, outcome))
<1> DEFINE known == [r EXCEPT !.dispatch = outcome, !.sender = "none"]
<1>1. known \in OrderRows /\ known.status = r.status /\ known.key = r.key /\ known.rack = r.rack
      /\ known.claimed = r.claimed /\ known.dst = r.dst
  BY RowFields DEF Outcomes
<1>2. CASE outcome = "success" /\ known.status = "pending"
  <2>1. Replied(r, outcome) = [known EXCEPT !.status = "dispatched"]
    BY <1>2 DEF Replied
  <2> HIDE DEF known
  <2> QED BY <1>1, <1>2, <2>1, RowFields DEF Worked
<1>3. CASE outcome = "success" /\ known.status # "pending"
  <2>1. Replied(r, outcome) = [known EXCEPT !.status = known.status]
    BY <1>3 DEF Replied
  <2> HIDE DEF known
  <2> QED BY <1>1, <1>3, <2>1, RowFields DEF Worked
<1>4. CASE outcome # "success"
  <2>1. Replied(r, outcome) = Compensated(known)
    BY <1>4 DEF Replied
  <2> HIDE DEF known
  <2> QED BY <1>1, <1>4, <2>1, CompensatedWorked DEF Worked
<1> QED BY <1>2, <1>3, <1>4

\* The booking adds one order of the request's label, or fails.
LEMMA BookEffect ==
  ASSUME TypeOK, SessionsInv, NEW s \in Sessions, Book(s)
  PROVE  \/ /\ UNCHANGED order /\ Carried(s)
            /\ session'[s].pc = "event" /\ session'[s].reply = "error"
         \/ \E o \in Orders \ Used :
              /\ Claimable(s)
              /\ order' \in [Orders -> OrderRows]
              /\ \A p \in Orders \ {o} : order'[p] = order[p]
              /\ order'[o].status = "pending" /\ order'[o].key = session[s].key
              /\ order'[o].rack = session[s].rack /\ order'[o].dst = session[s].dst
              /\ order'[o].claimed = (RouteFor(s) # "open")
              /\ session' \in [Sessions -> SessionStates] /\ Others(s)
              /\ session'[s].key = session[s].key /\ session'[s].order = o
              /\ session'[s].pc \in {"send", "route"} /\ session'[s].last = session[s].last
<1> DEFINE t == session[s]
<1>1. t \in SessionStates /\ t.pc = "book"
  BY DEF Book, TypeOK
<1>2. t.rack \in Racks /\ t.dst \in Cells
  BY <1>1 DEF SessionsInv, SessionInv
<1>3. CASE Claimable(s)
  <2>1. PICK o \in Orders \ Used :
          /\ order' = [order EXCEPT ![o] =
               [status |-> "pending", dispatch |-> "not_sent", sender |-> "none",
                key |-> t.key, rack |-> t.rack, dst |-> t.dst,
                claimed |-> RouteFor(s) # "open", routed |-> RouteFor(s) = "group"]]
          /\ session' = [session EXCEPT ![s].order = o, ![s].rack = None, ![s].dst = None,
                           ![s].pc = IF RouteFor(s) = "group" THEN "send" ELSE "route"]
    BY <1>3 DEF Book
  <2> DEFINE pc == IF RouteFor(s) = "group" THEN "send" ELSE "route"
             u == [t EXCEPT !.order = o, !.rack = None, !.dst = None, !.pc = pc]
             q == [status |-> "pending", dispatch |-> "not_sent", sender |-> "none",
                   key |-> t.key, rack |-> t.rack, dst |-> t.dst,
                   claimed |-> RouteFor(s) # "open", routed |-> RouteFor(s) = "group"]
  <2>2. session' = [session EXCEPT ![s] = u]
    BY <2>1 DEF TypeOK
  <2>3. /\ u \in SessionStates /\ u.pc \in {"send", "route"} /\ u.order = o
        /\ u.key = t.key /\ u.last = t.last
    <3>1. pc \in {"send", "route"}
      OBVIOUS
    <3> HIDE DEF pc
    <3> QED BY <1>1, <3>1, RequestFields DEF Stages
  <2>4. /\ q \in OrderRows /\ q.status = "pending" /\ q.key = t.key /\ q.rack = t.rack
        /\ q.dst = t.dst /\ q.claimed = (RouteFor(s) # "open")
    BY <1>1, <1>2, RequestFields
  <2>5. order' = [order EXCEPT ![o] = q]
    BY <2>1
  <2>6. o \in Orders
    OBVIOUS
  <2> HIDE DEF u, q, pc
  <2>7. /\ order' \in [Orders -> OrderRows] /\ order'[o] = q
        /\ \A p \in Orders \ {o} : order'[p] = order[p]
    BY <2>4, <2>5, <2>6, OrderUpdate
  <2>8. session' \in [Sessions -> SessionStates] /\ session'[s] = u /\ Others(s)
    BY <2>2, <2>3, SessionUpdate DEF Others
  <2> HIDE DEF SessionStates, OrderRows
  <2> QED BY <1>3, <2>3, <2>4, <2>7, <2>8
<1>4. CASE ~Claimable(s)
  <2>1. Answer(s, "error") /\ UNCHANGED order
    BY <1>4 DEF Book
  <2> QED BY <1>1, <2>1, AnswerEffect DEF Carried, Replies
<1> QED BY <1>3, <1>4

\* A double route gives up its claim with the new destination.
LEMMA SetRouteEffect ==
  ASSUME TypeOK, SessionsInv, NEW s \in Sessions, SetRoute(s)
  PROVE  Carried(s) /\ session'[s].pc = "send" /\ RowStep(session[s].order)
<1> DEFINE t == session[s]
           o == t.order
           r == order[o]
           q == [r EXCEPT !.routed = TRUE,
                          !.dst = IF RouteFor(s) = "double" THEN t.last ELSE r.dst,
                          !.claimed = r.claimed /\ RouteFor(s) # "double"]
           u == [t EXCEPT !.pc = "send", !.last = None]
<1>1. t \in SessionStates /\ t.pc = "route" /\ o \in Orders /\ r.status # "none"
  BY DEF SetRoute, TypeOK, SessionsInv, SessionInv, Used
<1>2. RouteFor(s) = "double" => t.last \in Cells
  BY <1>1 DEF SessionsInv, SessionInv
<1>3. order' = [order EXCEPT ![o] = q]
  BY <1>1 DEF SetRoute, TypeOK
<1>4. session' = [session EXCEPT ![s] = u]
  BY DEF SetRoute, TypeOK
<1>5. r \in OrderRows
  BY <1>1 DEF TypeOK
<1>6. q \in OrderRows /\ Worked(r, q)
  BY <1>1, <1>2, <1>5, RowFields DEF Worked
<1>7. u \in SessionStates /\ u.pc = "send" /\ u.key = t.key /\ u.order = o
  BY <1>1, RequestFields DEF Stages
<1> HIDE DEF u, q
<1> QED BY <1>1, <1>3, <1>4, <1>6, <1>7, SessionUpdate, OrderUpdate DEF RowStep, Carried, Others

\* A request that has an order is not answered as a duplicate.
LEMMA ReplyType ==
  ASSUME NEW s, NEW dispatch
  PROVE  ReplyTo(s, dispatch) \in Replies \ {"duplicate"}
BY DEF ReplyTo, Replies, RecentStatuses

\* The dispatch, or the answer of an order that was sent before.
LEMMA SendEffect ==
  ASSUME TypeOK, SessionsInv, NEW s \in Sessions, Send(s)
  PROVE  /\ Carried(s) /\ RowStep(session[s].order)
         /\ \/ session'[s].pc = "wait"
            \/ session'[s].pc = "event" /\ session'[s].reply \in Replies \ {"duplicate"}
<1> DEFINE o == session[s].order
           r == order[o]
<1>1. Busy(s) /\ o \in Orders /\ r.status # "none" /\ r \in OrderRows
  BY DEF Send, TypeOK, SessionsInv, SessionInv, Used
<1>2. CASE r.status = "pending" /\ r.dispatch = "not_sent"
  <2> DEFINE q == [r EXCEPT !.dispatch = "uncertain", !.sender = "scan"]
  <2>1. order' = [order EXCEPT ![o] = q] /\ Goto(s, "wait")
    BY <1>1, <1>2 DEF Send, TypeOK
  <2>2. q \in OrderRows /\ Worked(r, q)
    BY <1>1, RowFields DEF Worked
  <2> HIDE DEF q
  <2> QED BY <1>1, <2>1, <2>2, OrderUpdate, GotoEffect DEF RowStep, Carried, Stages
<1>3. CASE ~(r.status = "pending" /\ r.dispatch = "not_sent")
  <2> DEFINE q == IF r.dispatch = "success" THEN r ELSE Compensated(r)
  <2>1. order' = [order EXCEPT ![o] = q] /\ Answer(s, ReplyTo(s, r.dispatch))
    BY <1>3 DEF Send
  <2>2. Worked(r, r)
    BY <1>1, RowFields DEF Worked
  <2>3. q \in OrderRows /\ Worked(r, q)
    BY <1>1, <2>2, CompensatedWorked DEF Worked
  <2> HIDE DEF q
  <2>4. RowStep(o)
    BY <1>1, <2>1, <2>3, OrderUpdate DEF RowStep
  <2>5. ReplyTo(s, r.dispatch) \in Replies \ {"duplicate"}
    BY ReplyType
  <2> QED BY <1>1, <2>1, <2>4, <2>5, AnswerEffect DEF Carried
<1> QED BY <1>2, <1>3

\* The reply of the RCS is stored and answered.
LEMMA WaitEffect ==
  ASSUME TypeOK, SessionsInv, NEW s \in Sessions, Wait(s)
  PROVE  /\ Carried(s) /\ RowStep(session[s].order)
         /\ session'[s].pc = "event" /\ session'[s].reply \in Replies \ {"duplicate"}
<1> DEFINE o == session[s].order
<1>1. Busy(s) /\ o \in Orders /\ order[o].status # "none" /\ order[o] \in OrderRows
  BY DEF Wait, TypeOK, SessionsInv, SessionInv, Used
<1>2. PICK outcome \in Outcomes :
        order' = [order EXCEPT ![o] = Replied(order[o], outcome)] /\ Answer(s, ReplyTo(s, outcome))
  BY <1>1 DEF Wait, TypeOK
<1>3. Worked(order[o], Replied(order[o], outcome)) /\ Replied(order[o], outcome) \in OrderRows
  BY <1>1, RepliedWorked DEF Worked
<1>4. RowStep(o)
  BY <1>1, <1>2, <1>3, OrderUpdate DEF RowStep
<1>5. ReplyTo(s, outcome) \in Replies \ {"duplicate"}
  BY ReplyType
<1> QED BY <1>1, <1>2, <1>4, <1>5, AnswerEffect DEF Carried

\* A failure is answered as an error.
LEMMA FailEffect ==
  ASSUME TypeOK, NEW s \in Sessions, Fail(s)
  PROVE  Carried(s) /\ session'[s].pc = "event" /\ session'[s].reply = "error"
BY AnswerEffect DEF Fail, Carried, Replies

\* The event a request stores.
EventOf(s) == [status |-> session[s].reply, order |-> session[s].order, linked |-> FALSE,
               fresh |-> session[s].reply \in RecentStatuses]

\* The event is stored; the request ends unless it can be linked.
LEMMA StoreEffect ==
  ASSUME TypeOK, NEW s \in Sessions, StoreEvent(s)
  PROVE  /\ session' \in [Sessions -> SessionStates] /\ Others(s)
         /\ \/ session'[s] = Idle
            \/ /\ session'[s].pc = "link" /\ Carried(s)
               /\ session'[s].reply = session[s].reply
         /\ session'[s].pc = "link" <=> Linkable(s)
         /\ \A k \in Keys \ {session[s].key} : events'[k] = events[k]
         /\ events'[session[s].key] = events[session[s].key] \cup
              IF session[s].order = 0 THEN {} ELSE {EventOf(s)}
<1> DEFINE t == session[s]
           u == [t EXCEPT !.pc = "link"]
<1>1. t \in SessionStates /\ t.pc = "event"
  BY DEF StoreEvent, TypeOK
<1>2. session' = [session EXCEPT ![s] = IF Linkable(s) THEN u ELSE Idle]
  BY DEF StoreEvent, TypeOK
<1>3. /\ u \in SessionStates /\ u.pc = "link" /\ u.key = t.key /\ u.order = t.order
      /\ u.reply = t.reply
  BY <1>1, RequestFields DEF Stages
<1>4. Idle \in SessionStates /\ Idle.pc = "idle"
  OBVIOUS
<1>5. /\ session' \in [Sessions -> SessionStates] /\ Others(s)
      /\ session'[s] = IF Linkable(s) THEN u ELSE Idle
  <2> HIDE DEF u
  <2> QED BY <1>2, <1>3, <1>4, SessionUpdate DEF Others
<1>6. t.key \in Keys
  BY <1>1, RequestFields
<1>7. /\ \A k \in Keys \ {t.key} : events'[k] = events[k]
      /\ events'[t.key] = events[t.key] \cup IF t.order = 0 THEN {} ELSE {EventOf(s)}
  BY <1>6 DEF StoreEvent, Stored, TypeOK, EventOf
<1> HIDE DEF u
<1> QED BY <1>3, <1>4, <1>5, <1>7 DEF Carried

\* The events of the order are linked, and the request ends.
LEMMA LinkEffect ==
  ASSUME TypeOK, NEW s \in Sessions, LinkEvent(s)
  PROVE  /\ session' \in [Sessions -> SessionStates] /\ Others(s) /\ session'[s] = Idle
         /\ session[s].key \in Keys
         /\ \A k \in Keys \ {session[s].key} : events'[k] = events[k]
         /\ events'[session[s].key] =
              {IF e.order = session[s].order THEN [e EXCEPT !.linked = TRUE] ELSE e :
                 e \in events[session[s].key]}
<1>1. session[s].key \in Keys
  BY RequestFields DEF LinkEvent, TypeOK
<1>2. Idle \in SessionStates
  OBVIOUS
<1>3. session' \in [Sessions -> SessionStates] /\ Others(s) /\ session'[s] = Idle
  BY <1>2, SessionUpdate DEF LinkEvent, Others
<1> QED BY <1>1, <1>3 DEF LinkEvent, TypeOK

-----------------------------------------------------------------------------
(* What any step leaves of the rows and of the requests. *)

RowsKept ==
  /\ order' \in [Orders -> OrderRows]
  /\ \A o \in Used : order'[o].status # "none" /\ Worked(order[o], order'[o])
NoneNew == \A o \in Orders \ Used : order'[o] = order[o]

\* A row may stay as it is.
LEMMA WorkedStutters ==
  ASSUME NEW r \in OrderRows, r.status # "none" PROVE Worked(r, r)
BY RowFields DEF Worked

\* Rows that nobody writes stay.
LEMMA RowsUnchanged ==
  ASSUME TypeOK, UNCHANGED order PROVE RowsKept /\ NoneNew
<1>1. \A o \in Used : order[o] \in OrderRows /\ order[o].status # "none"
  BY DEF TypeOK, Used
<1> HIDE DEF OrderRows
<1> QED BY <1>1, WorkedStutters DEF RowsKept, NoneNew, TypeOK, Used

\* One row is worked on, and none is added.
LEMMA RowStepKept ==
  ASSUME TypeOK, NEW o \in Orders, RowStep(o) PROVE RowsKept /\ NoneNew
<1>1. \A p \in Used : order[p] \in OrderRows /\ order[p].status # "none"
  BY DEF TypeOK, Used
<1>2. \A p \in Used : Worked(order[p], order'[p])
  BY <1>1, WorkedStutters DEF RowStep, Used
<1>3. \A p \in Used : order'[p].status # "none"
  BY <1>2 DEF Worked
<1> QED BY <1>2, <1>3 DEF RowStep, RowsKept, NoneNew, Used

\* What operators, administrators and the RCS do to an order.
LEMMA HandEffect ==
  ASSUME TypeOK, NEW o \in Orders,
         SendByHand(o) \/ ReplyByHand(o) \/ CloseByHand(o) \/ Finish(o)
  PROVE  RowStep(o) /\ UNCHANGED <<routeOf, session, events, crashed>>
<1> DEFINE r == order[o]
<1>1. r \in OrderRows
  BY DEF TypeOK
<1>2. CASE SendByHand(o)
  <2> DEFINE q == [r EXCEPT !.dispatch = "uncertain", !.sender = "operator"]
  <2>1. order' = [order EXCEPT ![o] = q] /\ r.status # "none"
    BY <1>2 DEF SendByHand, TypeOK
  <2>2. q \in OrderRows /\ Worked(r, q)
    BY <1>1, <2>1, RowFields DEF Worked
  <2> HIDE DEF q
  <2> QED BY <1>2, <2>1, <2>2, OrderUpdate DEF RowStep, SendByHand
<1>3. CASE ReplyByHand(o)
  <2>1. PICK outcome \in Outcomes : order' = [order EXCEPT ![o] = Replied(r, outcome)]
    BY <1>3 DEF ReplyByHand, TypeOK
  <2>2. r.status # "none"
    BY <1>3 DEF ReplyByHand
  <2>3. Worked(r, Replied(r, outcome)) /\ Replied(r, outcome) \in OrderRows
    BY <1>1, <2>2, RepliedWorked DEF Worked
  <2> QED BY <1>3, <2>1, <2>2, <2>3, OrderUpdate DEF RowStep, ReplyByHand, envVars
<1>4. CASE CloseByHand(o) \/ Finish(o)
  <2> DEFINE q == [r EXCEPT !.status = "closed"]
  <2>1. order' = [order EXCEPT ![o] = q] /\ r.status # "none"
    BY <1>4 DEF CloseByHand, Finish, TypeOK
  <2>2. q \in OrderRows /\ Worked(r, q)
    BY <1>1, <2>1, RowFields DEF Worked
  <2> HIDE DEF q
  <2> QED BY <1>4, <2>1, <2>2, OrderUpdate DEF RowStep, CloseByHand, Finish, envVars
<1> QED BY <1>2, <1>3, <1>4

\* A restart ends the requests, and fails the rows of a group that was not sent.
LEMMA CrashEffect ==
  ASSUME TypeOK, Crash
  PROVE  /\ RowsKept /\ NoneNew /\ crashed' = TRUE
         /\ session' = [s \in Sessions |-> Idle] /\ UNCHANGED <<routeOf, events>>
<1>1. ASSUME NEW o \in Orders \ Used PROVE order'[o] = order[o] /\ order'[o] \in OrderRows
  BY <1>1, RowFields DEF Crash, TypeOK, Used
<1>2. ASSUME NEW o \in Used PROVE Worked(order[o], order'[o])
  <2> DEFINE r == order[o]
             failed == [r EXCEPT !.status = "failed"]
             alone == [r EXCEPT !.sender = "none"]
  <2>1. r \in OrderRows /\ r.status # "none" /\ o \in Orders
    BY <1>2 DEF TypeOK, Used
  <2>2. Worked(r, failed) /\ Worked(r, alone)
    BY <2>1, RowFields DEF Worked
  <2>3. order'[o] = failed \/ order'[o] = alone
    BY <2>1 DEF Crash
  <2> QED BY <2>2, <2>3
<1>3. \A o \in Orders : order'[o] \in OrderRows
  BY <1>1, <1>2 DEF Worked
<1>4. order' \in [Orders -> OrderRows]
  <2> HIDE DEF OrderRows
  <2> QED BY <1>3 DEF Crash
<1>5. \A o \in Used : order'[o].status # "none"
  BY <1>2 DEF Worked
<1> QED BY <1>1, <1>2, <1>4, <1>5 DEF Crash, RowsKept, NoneNew

\* A step books a new order, or changes rows that are there.
LEMMA RowsStep ==
  ASSUME TypeOK, SessionsInv, [Next]_vars
  PROVE  RowsKept /\ (NoneNew \/ \E s \in Sessions : Book(s))
<1>1. ASSUME NEW s \in Sessions, Book(s) PROVE RowsKept
  <2>1. CASE UNCHANGED order
    BY <2>1, RowsUnchanged
  <2>2. CASE \E o \in Orders \ Used : /\ order' \in [Orders -> OrderRows]
                                      /\ \A p \in Orders \ {o} : order'[p] = order[p]
    <3>1. \A p \in Used : order[p] \in OrderRows /\ order[p].status # "none"
      BY DEF TypeOK, Used
    <3> HIDE DEF OrderRows
    <3> QED BY <2>2, <3>1, WorkedStutters DEF RowsKept, Used
  <2> QED BY <1>1, <2>1, <2>2, BookEffect
<1>2. ASSUME NEW s \in Sessions, SetRoute(s) \/ Send(s) \/ Wait(s) PROVE RowsKept /\ NoneNew
  <2>1. RowStep(session[s].order) /\ session[s].order \in Orders
    BY <1>2, SetRouteEffect, SendEffect, WaitEffect
       DEF SetRoute, Send, Wait, SessionsInv, SessionInv
  <2> QED BY <2>1, RowStepKept
<1>3. CASE UNCHANGED order
  BY <1>3, RowsUnchanged
<1>4. ASSUME NEW o \in Orders, SendByHand(o) \/ ReplyByHand(o) \/ CloseByHand(o) \/ Finish(o)
      PROVE  RowsKept /\ NoneNew
  BY <1>4, HandEffect, RowStepKept
<1>5. CASE Crash
  BY <1>5, CrashEffect
<1> QED BY <1>1, <1>2, <1>3, <1>4, <1>5
        DEF Next, vars, Receive, Check, Choose, Fail, StoreEvent, LinkEvent, WindowPasses

\* A request keeps its label; only Receive makes one busy.
KeysKept == \A v \in Sessions :
  session'[v].pc # "idle" => Busy(v) /\ session'[v].key = session[v].key

\* The types of the requests, and what keeps their labels.
LEMMA KeysStep ==
  ASSUME TypeOK, SessionsInv, [Next]_vars
  PROVE  /\ session' \in [Sessions -> SessionStates]
         /\ KeysKept \/ \E s \in Sessions, k \in Keys : Receive(s, k)
<1> HIDE DEF SessionStates
<1>1. ASSUME NEW s \in Sessions, Carried(s), Busy(s) PROVE KeysKept
  BY <1>1 DEF Carried, Others, KeysKept
<1>2. ASSUME NEW s \in Sessions, NEW k \in Keys, Receive(s, k)
      PROVE  session' \in [Sessions -> SessionStates]
  BY <1>2, ReceiveEffect
<1>3. ASSUME NEW s \in Sessions, Check(s) \/ Choose(s) \/ SetRoute(s) \/ Send(s) \/ Wait(s) \/ Fail(s)
      PROVE  KeysKept /\ session' \in [Sessions -> SessionStates]
  <2>1. Carried(s)
    BY <1>3, CheckEffect, ChooseEffect, SetRouteEffect, SendEffect, WaitEffect, FailEffect
  <2>2. Busy(s)
    BY <1>3 DEF Check, Choose, SetRoute, Send, Wait, Fail
  <2> QED BY <1>1, <2>1, <2>2 DEF Carried
<1>4. ASSUME NEW s \in Sessions, Book(s)
      PROVE  KeysKept /\ session' \in [Sessions -> SessionStates]
  <2>1. session' \in [Sessions -> SessionStates] /\ Others(s) /\ session'[s].key = session[s].key
    BY <1>4, BookEffect DEF Carried
  <2> QED BY <1>4, <2>1 DEF Book, KeysKept, Others
<1>5. ASSUME NEW s \in Sessions, StoreEvent(s) \/ LinkEvent(s)
      PROVE  KeysKept /\ session' \in [Sessions -> SessionStates]
  <2>1. /\ session' \in [Sessions -> SessionStates] /\ Others(s)
        /\ session'[s] = Idle \/ session'[s].key = session[s].key
    BY <1>5, StoreEffect, LinkEffect DEF Carried
  <2>2. Busy(s)
    BY <1>5 DEF StoreEvent, LinkEvent
  <2> QED BY <2>1, <2>2 DEF KeysKept, Others
<1>6. CASE Crash
  BY <1>6, CrashEffect DEF KeysKept, SessionStates
<1>7. CASE UNCHANGED session
  BY <1>7 DEF TypeOK, KeysKept
<1> QED BY <1>2, <1>3, <1>4, <1>5, <1>6, <1>7, HandEffect DEF Next, vars, WindowPasses

\* Types.
LEMMA TypeStep ==
  ASSUME TypeOK, SessionsInv, [Next]_vars
  PROVE  TypeOK'
<1> HIDE DEF SessionStates, OrderRows
<1>1. session' \in [Sessions -> SessionStates] /\ order' \in [Orders -> OrderRows]
  BY KeysStep, RowsStep DEF RowsKept
<1>2. routeOf' = routeOf
  BY DEF Next, vars, Receive, Check, Choose, Book, SetRoute, Send, Wait, Fail, StoreEvent, LinkEvent,
         WindowPasses, SendByHand, ReplyByHand, CloseByHand, Finish, Crash
<1>3. troubles' \in 0..MaxTroubles /\ crashed' \in BOOLEAN
  <2>1. /\ troubles' = troubles \/ (troubles < MaxTroubles /\ troubles' = troubles + 1)
        /\ crashed' = crashed \/ crashed' = TRUE
    BY DEF Next, vars, envVars, Receive, Check, Choose, Book, SetRoute, Send, Wait, Fail,
           StoreEvent, LinkEvent, WindowPasses, SendByHand, ReplyByHand, CloseByHand, Finish, Crash
  <2>2. troubles \in 0..MaxTroubles /\ MaxTroubles \in Nat
    BY ScansAssumption DEF TypeOK
  <2>3. crashed \in BOOLEAN
    BY DEF TypeOK
  <2>4. troubles' \in 0..MaxTroubles
    BY <2>1, <2>2
  <2>5. crashed' \in BOOLEAN
    BY <2>1, <2>3
  <2> QED BY <2>4, <2>5
<1> DEFINE Rows == [status : Replies, order : Orders \cup {0}, linked : BOOLEAN, fresh : BOOLEAN]
<1>4. events \in [Keys -> SUBSET Rows]
  BY DEF TypeOK
<1>5. ASSUME NEW s \in Sessions, StoreEvent(s) PROVE events' \in [Keys -> SUBSET Rows]
  <2>1. session[s].reply \in Replies /\ session[s].order \in Orders \cup {0}
    BY <1>5, RequestFields DEF StoreEvent, TypeOK, SessionsInv, SessionInv
  <2> DEFINE new == IF session[s].order = 0 THEN {} ELSE {EventOf(s)}
  <2> DEFINE fresh == session[s].reply \in RecentStatuses
  <2>2. new \subseteq Rows
    <3>1. fresh \in BOOLEAN
      OBVIOUS
    <3>2. EventOf(s) = [status |-> session[s].reply, order |-> session[s].order,
                        linked |-> FALSE, fresh |-> fresh]
      BY DEF EventOf
    <3> HIDE DEF fresh
    <3>3. EventOf(s) \in Rows
      BY <2>1, <3>1, <3>2
    <3> QED BY <3>3
  <2>3. events' = [events EXCEPT ![session[s].key] = events[session[s].key] \cup new]
    BY <1>5 DEF StoreEvent, Stored, EventOf
  <2> HIDE DEF new, Rows
  <2> QED BY <1>4, <2>2, <2>3
<1>6. ASSUME NEW s \in Sessions, LinkEvent(s) PROVE events' \in [Keys -> SUBSET Rows]
  <2> DEFINE k == session[s].key
             new == {IF e.order = session[s].order THEN [e EXCEPT !.linked = TRUE] ELSE e :
                       e \in events[k]}
  <2>1. k \in Keys
    BY <1>6, LinkEffect
  <2>2. new \subseteq Rows
    BY <1>4, <2>1
  <2>3. events' = [events EXCEPT ![k] = new]
    BY <1>4, <1>6 DEF LinkEvent
  <2> HIDE DEF new, Rows
  <2> QED BY <1>4, <2>2, <2>3
<1>7. ASSUME NEW k \in Keys, WindowPasses(k) PROVE events' \in [Keys -> SUBSET Rows]
  <2> DEFINE new == {[e EXCEPT !.fresh = FALSE] : e \in events[k]}
  <2>1. new \subseteq Rows
    BY <1>4
  <2>2. events' = [events EXCEPT ![k] = new]
    BY <1>4, <1>7 DEF WindowPasses
  <2> HIDE DEF new, Rows
  <2> QED BY <1>4, <2>1, <2>2
<1>8. ASSUME ~ \E s \in Sessions : StoreEvent(s) \/ LinkEvent(s),
             ~ \E k \in Keys : WindowPasses(k)
      PROVE  events' = events
  BY <1>8 DEF Next, vars, Receive, Check, Choose, Book, SetRoute, Send, Wait, Fail,
              SendByHand, ReplyByHand, CloseByHand, Finish, Crash
<1> QED BY <1>1, <1>2, <1>3, <1>4, <1>5, <1>6, <1>7, <1>8 DEF TypeOK

-----------------------------------------------------------------------------
(* The invariants, one after another. *)

\* The routes never change.
LEMMA RoutesStay ==
  ASSUME [Next]_vars PROVE routeOf' = routeOf
BY DEF Next, vars, Receive, Check, Choose, Book, SetRoute, Send, Wait, Fail, StoreEvent, LinkEvent,
       WindowPasses, SendByHand, ReplyByHand, CloseByHand, Finish, Crash

RecentKept(k) == Recent(k) = {} => Recent(k)' = {}

\* Events are written in three places.
LEMMA EventsElsewhere ==
  ASSUME [Next]_vars,
         ~ \E s \in Sessions : StoreEvent(s) \/ LinkEvent(s),
         ~ \E k \in Keys : WindowPasses(k)
  PROVE  events' = events
BY DEF Next, vars, Receive, Check, Choose, Book, SetRoute, Send, Wait, Fail,
       SendByHand, ReplyByHand, CloseByHand, Finish, Crash

\* While a request has the lock, nothing recent appears for its label.
LEMMA RecentStep ==
  ASSUME TypeOK, SessionsInv, LockInv, [Next]_vars,
         NEW v \in Sessions, Busy(v), session'[v] = session[v]
  PROVE  RecentKept(session[v].key)
<1> DEFINE k == session[v].key
<1>1. k \in Keys
  BY RequestFields DEF TypeOK
<1>2. CASE events' = events
  BY <1>2 DEF RecentKept, Recent
<1>3. ASSUME NEW s \in Sessions, StoreEvent(s) \/ LinkEvent(s) PROVE RecentKept(k)
  <2>1. s # v
    <3>1. ASSUME StoreEvent(s) PROVE session[s].pc = "event" /\ session'[s].pc # "event"
      <4>1. session'[s] = Idle \/ session'[s].pc = "link"
        BY <3>1, StoreEffect
      <4> QED BY <3>1, <4>1 DEF StoreEvent
    <3>2. ASSUME LinkEvent(s) PROVE session[s].pc = "link" /\ session'[s].pc # "link"
      <4>1. session'[s] = Idle
        BY <3>2, LinkEffect
      <4> QED BY <3>2, <4>1 DEF LinkEvent
    <3> QED BY <1>3, <3>1, <3>2
  <2>2. session[s].key # k
    BY <1>3, <2>1 DEF LockInv, StoreEvent, LinkEvent
  <2>3. events'[k] = events[k]
    BY <1>1, <1>3, <2>2, StoreEffect, LinkEffect
  <2> QED BY <2>3 DEF RecentKept, Recent
<1>4. ASSUME NEW j \in Keys, WindowPasses(j) PROVE RecentKept(k)
  <2>1. CASE j = k
    <3>1. events'[k] = {[e EXCEPT !.fresh = FALSE] : e \in events[k]}
      BY <1>1, <1>4, <2>1 DEF WindowPasses, TypeOK
    <3>2. ASSUME NEW e \in events[k] PROVE [e EXCEPT !.fresh = FALSE].fresh = FALSE
      <4>1. e \in [status : Replies, order : Orders \cup {0}, linked : BOOLEAN, fresh : BOOLEAN]
        BY <1>1 DEF TypeOK
      <4> QED BY <4>1
    <3>3. \A e \in events'[k] : e.fresh = FALSE
      BY <3>1, <3>2
    <3> QED BY <3>3 DEF RecentKept, Recent
  <2>2. CASE j # k
    BY <1>1, <1>4, <2>2 DEF WindowPasses, TypeOK, RecentKept, Recent
  <2> QED BY <2>1, <2>2
<1> QED BY <1>2, <1>3, <1>4, EventsElsewhere

\* A request that stays as it is keeps what it was promised.
LEMMA SessionFrame ==
  ASSUME TypeOK, SessionsInv, LockInv, [Next]_vars,
         NEW v \in Sessions, session'[v] = session[v]
  PROVE  SessionInv(v)'
<1>1. SessionInv(v) /\ routeOf' = routeOf
  BY RoutesStay DEF SessionsInv
<1>2. RouteFor(v)' = RouteFor(v)
  BY <1>1 DEF RouteFor
<1>3. Busy(v) => RecentKept(session[v].key)
  BY RecentStep
<1>4. Busy(v) /\ session[v].order \in Orders =>
        session[v].order \in Used' /\ order'[session[v].order].key = session[v].key
  BY <1>1, RowsStep DEF SessionInv, RowsKept, Worked, Used
<1>5. Busy(v)' = Busy(v)
  OBVIOUS
<1> QED BY <1>1, <1>2, <1>3, <1>4, <1>5 DEF SessionInv, RecentKept

\* A request that goes on with its order.
LEMMA CarriedOrder ==
  ASSUME TypeOK, SessionsInv, [Next]_vars, NEW s \in Sessions, Busy(s), Carried(s)
  PROVE  session'[s].order \in Orders =>
           session'[s].order \in Used' /\ order'[session'[s].order].key = session'[s].key
BY RowsStep DEF SessionsInv, SessionInv, RowsKept, Worked, Used, Carried

\* A request's order is missing before it is made, and there after.
LEMMA SessionsStep ==
  ASSUME TypeOK, SessionsInv, LockInv, [Next]_vars
  PROVE  SessionsInv'
<1> HIDE DEF SessionStates, OrderRows
<1>1. SUFFICES ASSUME NEW s \in Sessions, session'[s] # session[s] PROVE SessionInv(s)'
  BY SessionFrame DEF SessionsInv
<1>2. SessionInv(s) /\ routeOf' = routeOf
  BY RoutesStay DEF SessionsInv
<1>3. RouteFor(s)' = routeOf[session'[s].key[2]]
  BY <1>2 DEF RouteFor
<1>4. ASSUME NEW k \in Keys, Receive(s, k) PROVE SessionInv(s)'
  BY <1>4, ReceiveEffect, OrderNumbers DEF SessionInv
<1>5. CASE Check(s)
  <2>1. /\ Carried(s) /\ session[s].order = 0 /\ Busy(s)
        /\ \/ session'[s].pc = "choose" /\ Recent(session[s].key) = {}
           \/ session'[s].pc = "event" /\ session'[s].reply \in {"rejected", "duplicate"}
    BY <1>2, <1>5, CheckEffect DEF Check, SessionInv
  <2>2. events' = events /\ session'[s].key = session[s].key
    BY <1>5, <2>1 DEF Check, Carried
  <2> QED BY <2>1, <2>2, OrderNumbers DEF SessionInv, Carried, RecentStatuses, Replies, Recent
<1>6. CASE Choose(s)
  <2>1. /\ Carried(s) /\ session[s].order = 0 /\ Recent(session[s].key) = {}
        /\ session'[s].pc = "book"
        /\ session'[s].rack \in Racks /\ session'[s].dst \in Cells
        /\ RouteFor(s) = "double" => session'[s].last \in Cells
    BY <1>2, <1>6, ChooseEffect DEF Choose, SessionInv
  <2>2. events' = events /\ session'[s].key = session[s].key
    BY <1>6, <2>1 DEF Choose, Carried
  <2> QED BY <1>2, <1>3, <2>1, <2>2, OrderNumbers DEF SessionInv, Carried, RouteFor, Recent
<1>7. CASE Book(s)
  <2>1. CASE Carried(s) /\ session'[s].pc = "event" /\ session'[s].reply = "error"
    BY <1>2, <1>7, <2>1, OrderNumbers DEF Book, SessionInv, Carried, RecentStatuses, Replies
  <2>2. ASSUME NEW o \in Orders \ Used,
               order'[o].status = "pending", order'[o].key = session[s].key,
               session'[s].key = session[s].key, session'[s].order = o,
               session'[s].pc \in {"send", "route"}, session'[s].last = session[s].last
        PROVE  SessionInv(s)'
    <3>1. RouteFor(s) = "double" => session[s].last \in Cells
      BY <1>2, <1>7 DEF Book, SessionInv
    <3>2. o \in Used'
      BY <2>2 DEF Used
    <3> QED BY <1>2, <1>3, <2>2, <3>1, <3>2 DEF SessionInv, RouteFor
  <2> QED BY <1>7, <2>1, <2>2, BookEffect
<1>8. CASE SetRoute(s) \/ Send(s) \/ Wait(s)
  <2>1. /\ Carried(s) /\ session[s].order \in Orders /\ Busy(s)
        /\ session'[s].pc \in {"send", "wait", "event"}
        /\ session'[s].pc = "event" => session'[s].reply \in Replies
    <3>1. Busy(s) /\ session[s].order \in Orders
      BY <1>2, <1>8 DEF SetRoute, Send, Wait, SessionInv
    <3> QED BY <1>8, <3>1, SetRouteEffect, SendEffect, WaitEffect
  <2> QED BY <2>1, CarriedOrder, OrderNumbers DEF SessionInv, Carried
<1>9. CASE Fail(s)
  <2>1. Carried(s) /\ Busy(s) /\ session'[s].pc = "event" /\ session'[s].reply = "error"
    BY <1>9, FailEffect DEF Fail
  <2> QED BY <2>1, CarriedOrder DEF SessionInv, Carried, RecentStatuses, Replies
<1>10. CASE StoreEvent(s)
  <2>1. \/ session'[s] = Idle
        \/ /\ session'[s].pc = "link" /\ Carried(s) /\ Linkable(s)
           /\ session'[s].reply = session[s].reply
    BY <1>10, StoreEffect
  <2>2. CASE session'[s] = Idle
    BY <2>2 DEF SessionInv
  <2>3. CASE /\ session'[s].pc = "link" /\ Carried(s) /\ Linkable(s)
             /\ session'[s].reply = session[s].reply
    <3>1. session'[s].reply \in Replies /\ session'[s].order \in Orders /\ Busy(s)
      BY <1>2, <1>10, <2>3, RequestFields
         DEF StoreEvent, SessionInv, Linkable, Carried, TypeOK
    <3> QED BY <1>10, <2>3, <3>1, CarriedOrder, OrderNumbers DEF SessionInv, Carried, StoreEvent
  <2> QED BY <2>1, <2>2, <2>3
<1>11. CASE LinkEvent(s)
  <2>1. session'[s] = Idle
    BY <1>11, LinkEffect
  <2> QED BY <2>1 DEF SessionInv
<1>12. CASE Crash
  <2>1. session'[s] = Idle
    BY <1>12, CrashEffect
  <2> QED BY <2>1 DEF SessionInv
<1>13. ASSUME NEW v \in Sessions, v # s,
              Check(v) \/ Choose(v) \/ Book(v) \/ SetRoute(v) \/ Send(v) \/ Wait(v) \/ Fail(v)
                \/ StoreEvent(v) \/ LinkEvent(v) \/ \E k \in Keys : Receive(v, k)
       PROVE  FALSE
  <2>1. Others(v)
    BY <1>13, CheckEffect, ChooseEffect, BookEffect, SetRouteEffect, SendEffect, WaitEffect,
       FailEffect, StoreEffect, LinkEffect, ReceiveEffect DEF Carried
  <2> QED BY <1>1, <1>13, <2>1 DEF Others
<1>14. CASE UNCHANGED session
  BY <1>1, <1>14
<1> QED BY <1>4, <1>5, <1>6, <1>7, <1>8, <1>9, <1>10, <1>11, <1>12, <1>13, <1>14, HandEffect
        DEF Next, vars, WindowPasses

\* The lock: two requests never have the same scanner and label.
LEMMA LockStep ==
  ASSUME TypeOK, SessionsInv, LockInv, [Next]_vars
  PROVE  LockInv'
<1>1. CASE KeysKept
  BY <1>1 DEF KeysKept, LockInv
<1>2. ASSUME NEW s \in Sessions, NEW k \in Keys, Receive(s, k) PROVE LockInv'
  <2>1. \A t \in Sessions \ {s} : Busy(t) => session[t].key # k
    BY <1>2 DEF Receive, LockFree
  <2>2. Others(s) /\ session'[s].key = k
    BY <1>2, ReceiveEffect
  <2> QED BY <2>1, <2>2 DEF LockInv, Others
<1> QED BY <1>1, <1>2, KeysStep

\* Claimed racks and cells are of one order in force.
LEMMA ClaimStep ==
  ASSUME TypeOK, SessionsInv, ClaimsExclusive, [Next]_vars
  PROVE  ClaimsExclusive'
<1> HIDE DEF OrderRows
<1> DEFINE In(o) == order[o].status \in {"pending", "dispatched"} /\ order[o].claimed
           Apart(o, p) == order[o].rack # order[p].rack /\ order[o].dst # order[p].dst
<1>1. \A o, p \in Orders : o # p /\ In(o) /\ In(p) => Apart(o, p)
  BY DEF ClaimsExclusive, Booked
<1>2. SUFFICES ASSUME NEW o \in Orders, NEW p \in Orders, o # p, In(o)', In(p)'
               PROVE  Apart(o, p)'
  BY DEF ClaimsExclusive, Booked
<1>3. ASSUME NEW q \in Used, In(q)'
      PROVE  In(q) /\ order'[q].rack = order[q].rack /\ order'[q].dst = order[q].dst
  BY <1>3, RowsStep DEF RowsKept, Worked
<1>4. CASE o \in Used /\ p \in Used
  BY <1>1, <1>2, <1>3, <1>4 DEF Used
<1>5. ASSUME NEW s \in Sessions, Book(s), NEW q \in Orders \ Used, order'[q] # order[q]
      PROVE  /\ \A r \in Orders \ {q} : order'[r] = order[r]
             /\ order'[q].claimed =>
                  order'[q].rack \notin ReservedRacks /\ order'[q].dst \notin ReservedCells
  BY <1>5, BookEffect DEF Claimable
<1>6. \A q \in Orders \ Used : ~In(q)
  BY DEF Used
<1>7. ASSUME NEW q \in Orders \ Used, In(q)'
      PROVE  /\ \A r \in Orders \ {q} : order'[r] = order[r]
             /\ order'[q].rack \notin ReservedRacks /\ order'[q].dst \notin ReservedCells
  BY <1>5, <1>6, <1>7, RowsStep DEF NoneNew
<1>8. ASSUME NEW q \in Orders \ Used, NEW r \in Orders \ {q}, In(q)', In(r)'
      PROVE  Apart(q, r)'
  BY <1>7, <1>8 DEF ReservedRacks, ReservedCells, Booked
<1>9. Apart(p, o)' => Apart(o, p)'
  OBVIOUS
<1> HIDE DEF Apart, In
<1> QED BY <1>2, <1>4, <1>8, <1>9

\* A restart is remembered.
LEMMA CrashedStays ==
  ASSUME [Next]_vars, crashed PROVE crashed'
BY DEF Next, vars, envVars, Receive, Check, Choose, Book, SetRoute, Send, Wait, Fail, StoreEvent,
       LinkEvent, WindowPasses, SendByHand, ReplyByHand, CloseByHand, Finish, Crash

\* A request that is to link its event does nothing else.
LEMMA LinkWaits ==
  ASSUME TypeOK, SessionsInv, [Next]_vars, NEW v \in Sessions, session[v].pc = "link"
  PROVE  session'[v] = session[v] \/ LinkEvent(v) \/ Crash
<1>1. ASSUME NEW s \in Sessions,
             Check(s) \/ Choose(s) \/ Book(s) \/ SetRoute(s) \/ Send(s) \/ Wait(s) \/ Fail(s)
               \/ StoreEvent(s) \/ \E k \in Keys : Receive(s, k)
      PROVE  session'[v] = session[v]
  <2>1. s # v
    BY <1>1 DEF Check, Choose, Book, SetRoute, Send, Wait, Fail, StoreEvent, Receive
  <2>2. Others(s)
    BY <1>1, CheckEffect, ChooseEffect, BookEffect, SetRouteEffect, SendEffect, WaitEffect,
       FailEffect, StoreEffect, ReceiveEffect DEF Carried
  <2> QED BY <2>1, <2>2 DEF Others
<1>2. ASSUME NEW s \in Sessions, LinkEvent(s), s # v PROVE session'[v] = session[v]
  BY <1>2, LinkEffect DEF Others
<1> QED BY <1>1, <1>2, HandEffect DEF Next, vars, WindowPasses

\* No event is lost, or loses its link.
LEMMA EventsGrow ==
  ASSUME TypeOK, [Next]_vars, NEW k \in Keys, NEW e \in events[k]
  PROVE  \E f \in events'[k] : f.order = e.order /\ f.status = e.status /\ (e.linked => f.linked)
<1>1. e = [status |-> e.status, order |-> e.order, linked |-> e.linked, fresh |-> e.fresh]
  BY DEF TypeOK
<1>2. CASE events' = events
  BY <1>2
<1>3. ASSUME NEW s \in Sessions, StoreEvent(s) PROVE events[k] \subseteq events'[k]
  BY <1>3, StoreEffect
<1>4. ASSUME NEW s \in Sessions, LinkEvent(s)
      PROVE  e \in events'[k] \/ [e EXCEPT !.linked = TRUE] \in events'[k]
  BY <1>4, LinkEffect
<1>5. ASSUME NEW j \in Keys, WindowPasses(j)
      PROVE  e \in events'[k] \/ [e EXCEPT !.fresh = FALSE] \in events'[k]
  BY <1>5 DEF WindowPasses, TypeOK
<1>6. LET f == [e EXCEPT !.linked = TRUE] IN f.order = e.order /\ f.status = e.status /\ f.linked
  BY <1>1
<1>7. LET f == [e EXCEPT !.fresh = FALSE]
      IN f.order = e.order /\ f.status = e.status /\ f.linked = e.linked
  BY <1>1
<1> QED BY <1>2, <1>3, <1>4, <1>5, <1>6, <1>7, EventsElsewhere

\* A request that comes to link has stored its event.
LEMMA LinkStep ==
  ASSUME TypeOK, SessionsInv, LinkInv, [Next]_vars
  PROVE  LinkInv'
<1>1. SUFFICES ASSUME NEW s \in Sessions, session'[s].pc = "link"
               PROVE  \E e \in events'[session'[s].key] : e.order = session'[s].order
  BY DEF LinkInv
<1>2. CASE session'[s] = session[s]
  <2>1. PICK e \in events[session[s].key] : e.order = session[s].order
    BY <1>1, <1>2 DEF LinkInv
  <2>2. session[s].key \in Keys
    BY <1>1, <1>2, RequestFields DEF TypeOK
  <2> QED BY <1>2, <2>1, <2>2, EventsGrow
<1>3. ASSUME StoreEvent(s)
      PROVE  \E e \in events'[session'[s].key] : e.order = session'[s].order
  <2>1. Carried(s) /\ Linkable(s)
    BY <1>1, <1>3, StoreEffect
  <2>2. EventOf(s) \in events'[session[s].key]
    BY <1>3, <2>1, StoreEffect DEF Linkable
  <2>3. EventOf(s).order = session[s].order
    BY DEF EventOf
  <2> QED BY <2>1, <2>2, <2>3 DEF Carried
<1>4. ASSUME session'[s] # session[s] PROVE StoreEvent(s)
  <2>1. ASSUME NEW v \in Sessions, v # s,
               Check(v) \/ Choose(v) \/ Book(v) \/ SetRoute(v) \/ Send(v) \/ Wait(v) \/ Fail(v)
                 \/ StoreEvent(v) \/ LinkEvent(v) \/ \E k \in Keys : Receive(v, k)
        PROVE  FALSE
    <3>1. Others(v)
      BY <2>1, CheckEffect, ChooseEffect, BookEffect, SetRouteEffect, SendEffect, WaitEffect,
         FailEffect, StoreEffect, LinkEffect, ReceiveEffect DEF Carried
    <3> QED BY <1>4, <2>1, <3>1 DEF Others
  <2>2. ASSUME Check(s) \/ Choose(s) \/ Book(s) \/ SetRoute(s) \/ Send(s) \/ Wait(s) \/ Fail(s)
                 \/ LinkEvent(s) \/ \E k \in Keys : Receive(s, k)
        PROVE  FALSE
    BY <1>1, <2>2, CheckEffect, ChooseEffect, BookEffect, SetRouteEffect, SendEffect, WaitEffect,
       FailEffect, LinkEffect, ReceiveEffect
  <2>3. ASSUME Crash PROVE FALSE
    <3>1. session'[s] = Idle
      BY <2>3, CrashEffect
    <3> QED BY <1>1, <3>1
  <2> QED BY <1>4, <2>1, <2>2, <2>3, HandEffect DEF Next, vars, WindowPasses
<1> QED BY <1>2, <1>3, <1>4

\* A recent event is linked, or about to be.
LEMMA EventsStep ==
  ASSUME TypeOK, SessionsInv, LockInv, EventsInv, [Next]_vars
  PROVE  EventsInv'
<1> DEFINE Witness(k, e) ==
      \E t \in Sessions : /\ session[t].pc = "link" /\ session[t].key = k
                          /\ session[t].order = e.order
<1>1. ASSUME NEW k \in Keys, NEW e \in events[k], e \in events'[k], e.fresh,
             ~ \E s \in Sessions : LinkEvent(s) /\ session[s].key = k
      PROVE  e.status \in RecentStatuses /\ (crashed' \/ e.linked \/ Witness(k, e)')
  <2>1. e.status \in RecentStatuses /\ (crashed \/ e.linked \/ Witness(k, e))
    BY <1>1 DEF EventsInv, EventInv
  <2>2. CASE Witness(k, e)
    <3>1. PICK t \in Sessions : /\ session[t].pc = "link" /\ session[t].key = k
                                /\ session[t].order = e.order
      BY <2>2
    <3>2. session'[t] = session[t] \/ Crash
      BY <1>1, <3>1, LinkWaits
    <3> QED BY <2>1, <3>1, <3>2, CrashEffect
  <2> QED BY <2>1, <2>2, CrashedStays
<1>2. CASE events' = events /\ ~ \E s \in Sessions : LinkEvent(s)
  BY <1>1, <1>2 DEF EventsInv, EventInv
<1>3. ASSUME NEW s \in Sessions, StoreEvent(s) PROVE EventsInv'
  <2>1. ~ \E t \in Sessions : LinkEvent(t)
    <3>1. session'[s].pc # "event" /\ session[s].pc = "event"
      BY <1>3, StoreEffect DEF StoreEvent
    <3> QED BY <3>1, LinkEffect DEF Others, LinkEvent
  <2>2. SUFFICES ASSUME NEW k \in Keys, NEW e \in events'[k], e.fresh
                 PROVE  e.status \in RecentStatuses /\ (crashed' \/ e.linked \/ Witness(k, e)')
    BY DEF EventsInv, EventInv
  <2>3. CASE e \in events[k]
    BY <1>1, <2>1, <2>2, <2>3
  <2>4. CASE e \notin events[k]
    <3>1. k = session[s].key /\ e = EventOf(s) /\ session[s].order # 0
      BY <1>3, <2>2, <2>4, StoreEffect
    <3>2. e.status = session[s].reply /\ e.order = session[s].order /\ e.status \in RecentStatuses
      BY <2>2, <3>1 DEF EventOf
    <3>3. Linkable(s)
      BY <3>1, <3>2 DEF Linkable, RecentStatuses
    <3>4. session'[s].pc = "link" /\ Carried(s)
      BY <1>3, <3>3, StoreEffect
    <3> QED BY <3>1, <3>2, <3>4 DEF Carried
  <2> QED BY <2>3, <2>4
<1>4. ASSUME NEW s \in Sessions, LinkEvent(s) PROVE EventsInv'
  <2>1. SUFFICES ASSUME NEW k \in Keys, NEW e \in events'[k], e.fresh
                 PROVE  e.status \in RecentStatuses /\ (crashed' \/ e.linked \/ Witness(k, e)')
    BY DEF EventsInv, EventInv
  <2>2. CASE k # session[s].key
    <3>1. e \in events[k]
      BY <1>4, <2>1, <2>2, LinkEffect
    <3>2. ASSUME NEW t \in Sessions, LinkEvent(t) PROVE t = s
      <4>1. session'[t] = Idle /\ session[t].pc = "link" /\ (t # s => session'[t] = session[t])
        BY <1>4, <3>2, LinkEffect DEF Others, LinkEvent
      <4> QED BY <4>1
    <3> QED BY <1>1, <2>1, <2>2, <3>1, <3>2
  <2>3. CASE k = session[s].key
    <3>1. PICK f \in events[k] :
            e = IF f.order = session[s].order THEN [f EXCEPT !.linked = TRUE] ELSE f
      BY <1>4, <2>1, <2>3, LinkEffect
    <3>2. f = [status |-> f.status, order |-> f.order, linked |-> f.linked, fresh |-> f.fresh]
      BY DEF TypeOK
    <3>3. e.status = f.status /\ e.fresh = f.fresh /\ (f.linked => e.linked)
          /\ (f.order = session[s].order => e.linked)
      BY <3>1, <3>2
    <3>4. f.status \in RecentStatuses /\ (crashed \/ f.linked \/ Witness(k, f))
      BY <2>1, <3>3 DEF EventsInv, EventInv
    <3>5. Witness(k, f) => f.order = session[s].order
      BY <1>4, <2>3 DEF LockInv, LinkEvent
    <3> QED BY <3>3, <3>4, <3>5, CrashedStays
  <2> QED BY <2>2, <2>3
<1>5. ASSUME NEW j \in Keys, WindowPasses(j) PROVE EventsInv'
  <2>1. SUFFICES ASSUME NEW k \in Keys, NEW e \in events'[k], e.fresh
                 PROVE  e.status \in RecentStatuses /\ (crashed' \/ e.linked \/ Witness(k, e)')
    BY DEF EventsInv, EventInv
  <2>2. session' = session /\ crashed' = crashed
    BY <1>5 DEF WindowPasses, envVars
  <2>3. CASE k # j
    <3>1. e \in events[k]
      BY <1>5, <2>1, <2>3 DEF WindowPasses, TypeOK
    <3> QED BY <2>1, <2>2, <3>1 DEF EventsInv, EventInv
  <2>4. CASE k = j
    <3>1. PICK f \in events[k] : e = [f EXCEPT !.fresh = FALSE]
      BY <1>5, <2>1, <2>4 DEF WindowPasses, TypeOK
    <3>2. f = [status |-> f.status, order |-> f.order, linked |-> f.linked, fresh |-> f.fresh]
      BY DEF TypeOK
    <3> QED BY <2>1, <3>1, <3>2
  <2> QED BY <2>3, <2>4
<1> QED BY <1>2, <1>3, <1>4, <1>5, EventsElsewhere

\* A duplicate is refused with a linked event at hand.
LEMMA DuplicateStep ==
  ASSUME TypeOK, SessionsInv, LockInv, EventsInv, DuplicateNamesOrder, [Next]_vars
  PROVE  DuplicateNamesOrder'
<1> DEFINE Answers(s) == session[s].pc = "event" /\ session[s].reply = "duplicate"
           Named(s) == crashed \/ \E e \in events[session[s].key] :
                                     e.linked /\ e.status \in RecentStatuses
<1>1. SUFFICES ASSUME NEW s \in Sessions, Answers(s)' PROVE Named(s)'
  BY DEF DuplicateNamesOrder
<1>2. CASE session'[s] = session[s]
  <2>1. Named(s)
    BY <1>1, <1>2 DEF DuplicateNamesOrder
  <2>2. session[s].key \in Keys
    BY <1>1, <1>2, RequestFields DEF TypeOK
  <2> QED BY <1>2, <2>1, <2>2, EventsGrow, CrashedStays
<1>3. ASSUME Check(s) PROVE Named(s)'
  <2>1. Carried(s) /\ Recent(session[s].key) # {} /\ session[s].pc = "check"
    BY <1>1, <1>3, CheckEffect DEF Check
  <2>2. events' = events /\ session[s].key \in Keys
    BY <1>3, <2>1, RequestFields DEF Check, TypeOK
  <2>3. PICK e \in events[session[s].key] : e.fresh
    BY <2>1 DEF Recent
  <2>4. /\ e.status \in RecentStatuses
        /\ \/ crashed \/ e.linked
           \/ \E t \in Sessions : session[t].pc = "link" /\ session[t].key = session[s].key
    BY <2>2, <2>3 DEF EventsInv, EventInv
  <2>5. ~ \E t \in Sessions : session[t].pc = "link" /\ session[t].key = session[s].key
    BY <2>1 DEF LockInv
  <2> QED BY <2>1, <2>2, <2>4, <2>5, CrashedStays DEF Carried
<1>4. ASSUME session'[s] # session[s] PROVE Check(s)
  <2>1. ASSUME NEW v \in Sessions, v # s,
               Check(v) \/ Choose(v) \/ Book(v) \/ SetRoute(v) \/ Send(v) \/ Wait(v) \/ Fail(v)
                 \/ StoreEvent(v) \/ LinkEvent(v) \/ \E k \in Keys : Receive(v, k)
        PROVE  FALSE
    <3>1. Others(v)
      BY <2>1, CheckEffect, ChooseEffect, BookEffect, SetRouteEffect, SendEffect, WaitEffect,
         FailEffect, StoreEffect, LinkEffect, ReceiveEffect DEF Carried
    <3> QED BY <1>4, <2>1, <3>1 DEF Others
  <2>2. ASSUME Choose(s) \/ Book(s) \/ SetRoute(s) \/ Send(s) \/ Wait(s) \/ Fail(s)
                 \/ StoreEvent(s) \/ LinkEvent(s) \/ \E k \in Keys : Receive(s, k)
        PROVE  ~Answers(s)'
    BY <2>2, ChooseEffect, BookEffect, SetRouteEffect, SendEffect, WaitEffect,
       FailEffect, StoreEffect, LinkEffect, ReceiveEffect
  <2>3. ASSUME Crash PROVE FALSE
    <3>1. session'[s] = Idle
      BY <2>3, CrashEffect
    <3> QED BY <1>1, <3>1
  <2> QED BY <1>1, <1>4, <2>1, <2>2, <2>3, HandEffect DEF Next, vars, WindowPasses
<1> QED BY <1>2, <1>3, <1>4

\* An order in force stays held or told of.
LEMMA ReportStep ==
  ASSUME TypeOK, SessionsInv, LinkInv, NothingUnreported, [Next]_vars
  PROVE  NothingUnreported'
<1> DEFINE Held(o) == \E s \in Sessions : Holds(s, o)
           Told(o, e) == /\ e.order = o
                         /\ e.linked \/ (routeOf[order[o].key[2]] = "group" /\ e.status = "error")
           Reported(o) == crashed \/ Held(o) \/ \E e \in events[order[o].key] : Told(o, e)
<1>1. SUFFICES ASSUME NEW o \in Booked' PROVE Reported(o)'
  BY DEF NothingUnreported, Holds
<1>2. routeOf' = routeOf
  BY RoutesStay
<1>3. CASE o \notin Used
  <2>1. PICK s \in Sessions : Book(s)
    BY <1>1, <1>3, RowsStep DEF NoneNew, Booked, Used
  <2>2. order' # order
    BY <1>1, <1>3 DEF Booked, Used
  <2>3. session'[s].order = o /\ session'[s].pc \in {"send", "route"}
    BY <1>1, <1>3, <2>1, <2>2, BookEffect DEF Booked, Used
  <2> QED BY <2>3 DEF Holds
<1>4. CASE o \in Used
  <2>1. o \in Booked /\ order'[o].key = order[o].key /\ order[o].key \in Keys
    BY <1>1, <1>4, RowsStep, RowFields DEF RowsKept, Worked, Booked, Used, TypeOK
  <2>2. crashed \/ Held(o) \/ \E e \in events[order[o].key] : Told(o, e)
    BY <2>1 DEF NothingUnreported, Holds
  <2>3. CASE \E e \in events[order[o].key] : Told(o, e)
    BY <1>2, <2>1, <2>3, EventsGrow
  <2>4. ASSUME NEW s \in Sessions, Holds(s, o) PROVE Reported(o)'
    <3>1. session[s].key = order[o].key /\ o # 0
      BY <2>1, <2>4, OrderNumbers DEF SessionsInv, SessionInv, Holds, Booked
    <3>2. CASE session'[s] = session[s]
      BY <2>4, <3>2 DEF Holds
    <3>3. CASE Check(s) \/ Choose(s) \/ SetRoute(s) \/ Send(s) \/ Wait(s) \/ Fail(s)
      <4>1. Carried(s) /\ session'[s].pc # "idle"
        BY <3>3, CheckEffect, ChooseEffect, SetRouteEffect, SendEffect, WaitEffect, FailEffect
      <4> QED BY <2>4, <4>1 DEF Holds, Carried
    <3>4. ASSUME Book(s) \/ \E k \in Keys : Receive(s, k) PROVE FALSE
      BY <2>4, <3>1, <3>4 DEF Holds, Book, Receive, SessionsInv, SessionInv
    <3>5. CASE StoreEvent(s)
      <4>1. CASE Linkable(s)
        BY <2>4, <3>5, <4>1, StoreEffect DEF Holds, Carried
      <4>2. CASE ~Linkable(s)
        <5>1. RouteFor(s) = "group" /\ session[s].reply = "error"
          BY <2>4, <3>1, <4>2 DEF Linkable, Holds
        <5>2. EventOf(s) \in events'[order[o].key]
          BY <2>4, <3>1, <3>5, StoreEffect DEF Holds
        <5>3. EventOf(s).order = o /\ EventOf(s).status = "error"
          BY <2>4, <5>1 DEF EventOf, Holds
        <5> QED BY <1>2, <2>1, <3>1, <5>1, <5>2, <5>3 DEF RouteFor
      <4> QED BY <4>1, <4>2
    <3>6. CASE LinkEvent(s)
      <4>1. PICK e \in events[order[o].key] : e.order = o
        BY <2>4, <3>1, <3>6 DEF LinkInv, LinkEvent, Holds
      <4>2. [e EXCEPT !.linked = TRUE] \in events'[order[o].key]
        BY <2>4, <3>1, <3>6, <4>1, LinkEffect DEF Holds
      <4>3. e = [status |-> e.status, order |-> e.order, linked |-> e.linked, fresh |-> e.fresh]
        BY <2>1, <4>1 DEF TypeOK
      <4>4. LET f == [e EXCEPT !.linked = TRUE] IN f.order = o /\ f.linked
        BY <4>1, <4>3
      <4> QED BY <2>1, <4>2, <4>4
    <3>7. ASSUME NEW v \in Sessions, v # s,
                 Check(v) \/ Choose(v) \/ Book(v) \/ SetRoute(v) \/ Send(v) \/ Wait(v) \/ Fail(v)
                   \/ StoreEvent(v) \/ LinkEvent(v) \/ \E k \in Keys : Receive(v, k)
          PROVE  session'[s] = session[s]
      <4>1. Others(v)
        BY <3>7, CheckEffect, ChooseEffect, BookEffect, SetRouteEffect, SendEffect, WaitEffect,
           FailEffect, StoreEffect, LinkEffect, ReceiveEffect DEF Carried
      <4> QED BY <3>7, <4>1 DEF Others
    <3>8. CASE Crash
      BY <3>8, CrashEffect
    <3>9. session'[s] = session[s] \/ Crash \/ StoreEvent(s) \/ LinkEvent(s)
          \/ Check(s) \/ Choose(s) \/ SetRoute(s) \/ Send(s) \/ Wait(s) \/ Fail(s)
      BY <3>4, <3>7, HandEffect DEF Next, vars, WindowPasses
    <3> QED BY <3>2, <3>3, <3>5, <3>6, <3>8, <3>9
  <2> QED BY <2>2, <2>3, <2>4, CrashedStays
<1> QED BY <1>3, <1>4

\* A new order is the one of the request that has the lock and found nothing recent.
LEMMA CreationStep ==
  ASSUME TypeOK, SessionsInv, LockInv, [Next]_vars
  PROVE  CreatedAlone
<1>1. SUFFICES ASSUME NEW o \in Orders \ Used, order'[o].status # "none", NEW k, k = order'[o].key
               PROVE  /\ Recent(k) = {}
                      /\ Cardinality({s \in Sessions : Busy(s) /\ session[s].key = k}) = 1
  BY DEF CreatedAlone
<1>2. PICK s \in Sessions : Book(s)
  BY <1>1, RowsStep DEF NoneNew, Used
<1>3. order' # order
  BY <1>1 DEF Used
<1>4. k = session[s].key
  BY <1>1, <1>2, <1>3, BookEffect DEF Used
<1>5. session[s].pc = "book" /\ Recent(k) = {}
  BY <1>2, <1>4 DEF Book, SessionsInv, SessionInv
<1>6. {t \in Sessions : Busy(t) /\ session[t].key = k} = {s}
  BY <1>4, <1>5 DEF LockInv
<1> QED BY <1>5, <1>6, FS_Singleton

-----------------------------------------------------------------------------
(* The theorems. *)

IInv == /\ TypeOK /\ SessionsInv /\ LockInv /\ EventsInv /\ LinkInv
        /\ ClaimsExclusive /\ DuplicateNamesOrder /\ NothingUnreported

\* Nothing is under way at the start.
LEMMA InitInv == Init => IInv
<1> SUFFICES ASSUME Init PROVE IInv
  OBVIOUS
<1>1. TypeOK
  <2>1. crashed \in BOOLEAN
    BY DEF Init
  <2>2. troubles \in 0..MaxTroubles
    BY ScansAssumption DEF Init
  <2>3. session \in [Sessions -> SessionStates] /\ order \in [Orders -> OrderRows]
    BY DEF Init
  <2>4. events \in [Keys -> SUBSET [status : Replies, order : Orders \cup {0},
                                    linked : BOOLEAN, fresh : BOOLEAN]]
    BY DEF Init
  <2> QED BY <2>1, <2>2, <2>3, <2>4 DEF Init, TypeOK
<1>2. Used = {} /\ Booked = {}
  BY DEF Init, Used, Booked
<1>3. \A s \in Sessions : ~Busy(s) /\ session[s] = Idle
  BY DEF Init
<1>4. \A k \in Keys : events[k] = {}
  BY DEF Init
<1>5. SessionsInv
  BY <1>3 DEF SessionsInv, SessionInv
<1> QED BY <1>1, <1>2, <1>3, <1>4, <1>5
        DEF IInv, LockInv, EventsInv, EventInv, LinkInv, ClaimsExclusive, DuplicateNamesOrder,
            NothingUnreported

\* The inductive invariant of the scans: what a request has read and holds, the lock,
\* and what its events say, together with the safety properties.
THEOREM Inductive == Spec => []IInv
<1>1. IInv /\ [Next]_vars => IInv'
  BY TypeStep, SessionsStep, LockStep, EventsStep, LinkStep, ClaimStep, DuplicateStep, ReportStep
     DEF IInv
<1> QED BY <1>1, InitInv, PTL DEF Spec

\* The rows, the requests and the events are what the code stores (scanner_service.py).
THEOREM Types == Spec => []TypeOK
<1>1. IInv => TypeOK
  BY DEF IInv
<1> QED BY <1>1, Inductive, PTL

\* No two claimed orders in force share a rack or a destination, for any number of
\* requests and routes (fifo_service.py 446-474).
THEOREM Claims == Spec => []ClaimsExclusive
<1>1. IInv => ClaimsExclusive
  BY DEF IInv
<1> QED BY <1>1, Inductive, PTL

\* A refusal as duplicate can always name an order (scanner_service.py 3168-3187).
THEOREM Duplicates == Spec => []DuplicateNamesOrder
<1>1. IInv => DuplicateNamesOrder
  BY DEF IInv
<1> QED BY <1>1, Inductive, PTL

\* Every order in force is held by its request or named by an event
\* (scanner_service.py 3569-3802).
THEOREM Reports == Spec => []NothingUnreported
<1>1. IInv => NothingUnreported
  BY DEF IInv
<1> QED BY <1>1, Inductive, PTL

\* One scan, repeated or raced, makes one order (scanner_service.py 3075-3187).
THEOREM OneOrder == Spec => OneOrderPerScan
<1>1. IInv /\ [Next]_vars => [CreatedAlone]_vars
  BY CreationStep DEF IInv
<1> QED BY <1>1, Inductive, PTL DEF Spec, OneOrderPerScan
==============================================================================
