--------------------------- MODULE InventoryProofs ---------------------------
(***************************************************************************)
(* Proofs, for any orders, racks, cells, attempts and bounds, that the     *)
(* inventory stays well formed, that the route of an order stands while    *)
(* its request may move the rack, that the cell editor overwrites nothing, *)
(* and that a finished rack synchronisation tells the truth.               *)
(***************************************************************************)
EXTENDS RackSync, TLAPS

\* The route of an active order stands as it was claimed.
Placed(o) ==
  /\ cell[order[o].src].rack = order[o].rack
  /\ cell[order[o].dst].rack = NoRack
  /\ rack[order[o].rack].status = "reserved"
RouteInv == \A o \in Orders : Active(o) => Placed(o)

\* Active orders share neither rack nor destination.
Apart(o, p) == order[o].rack # order[p].rack /\ order[o].dst # order[p].dst
ExclusiveInv == \A o, p \in Orders : o # p /\ Active(o) /\ Active(p) => Apart(o, p)

\* The request never left, or what left was refused, or done: it moves nothing.
Unsent(o) == copies[o] = 0 /\ remote[o] = "none"
Settled(o) == call[o].at = "stored" /\ (remote[o] \in {"refused", "over"} \/ Unsent(o))

\* What a call has learned of its request, and an order of its call.
CallInv(o) ==
  LET c == call[o]
      status == order[o].status
  IN /\ c.at = "idle" => Unsent(o)
     /\ c.at = "trying" => c.tries < Attempts
     /\ c.at = "trying" /\ c.unsent /\ ~c.seen => Unsent(o)
     /\ c.at = "done" /\ c.result = "not_sent" => Unsent(o)
     /\ c.at = "done" /\ c.result = "rejected" => remote[o] = "refused"
     /\ status \in {"none", "pending"} => c.at = "idle"
     /\ status \in {"dispatched", "cancel_error"} => c.at = "stored"
     /\ status \in {"refused", "closed"} => Settled(o)
CallsInv == \A o \in Orders : CallInv(o)

IInv == TypeOK /\ RouteInv /\ ExclusiveInv /\ CallsInv

USE DEF ActiveStatuses

-----------------------------------------------------------------------------
(* Rows *)

\* A row of an order has its fields.
LEMMA OrderFields ==
  ASSUME TablesOK, NEW o \in Orders
  PROVE  /\ order[o].status \in ActiveStatuses \cup {"none", "closed", "deleted"}
         /\ order[o].status # "none" =>
              order[o].rack \in Racks /\ order[o].src \in Cells /\ order[o].dst \in Cells
         /\ order[o] = [status |-> order[o].status, rack |-> order[o].rack,
                        src |-> order[o].src, dst |-> order[o].dst]
         /\ order[o] \in OrderRows
BY DEF TablesOK, OrderRows

\* One order changes its state.
LEMMA StatusUpdate ==
  ASSUME TablesOK, NEW o \in Orders, order[o].status # "none",
         NEW status \in ActiveStatuses \cup {"closed", "deleted"},
         order' = [order EXCEPT ![o].status = status]
  PROVE  /\ order' \in [Orders -> OrderRows]
         /\ order'[o].status = status /\ order'[o].rack = order[o].rack
         /\ order'[o].src = order[o].src /\ order'[o].dst = order[o].dst
         /\ \A p \in Orders \ {o} : order'[p] = order[p]
<1> DEFINE q == [order[o] EXCEPT !.status = status]
<1>1. order' = [order EXCEPT ![o] = q] /\ order \in [Orders -> OrderRows]
  BY DEF TablesOK
<1>2. /\ q \in OrderRows /\ q.status = status /\ q.rack = order[o].rack
      /\ q.src = order[o].src /\ q.dst = order[o].dst
  BY OrderFields DEF OrderRows
<1> HIDE DEF q
<1> QED BY <1>1, <1>2

\* One cell, or one rack, is written.
LEMMA RackUpdate ==
  ASSUME TablesOK, NEW r \in Racks, NEW status \in {"available", "reserved"}, SetRack(r, status)
  PROVE  /\ rack' \in [Racks -> RackRows]
         /\ rack'[r].status = status
         /\ \A q \in Racks \ {r} : rack'[q] = rack[q]
<1> DEFINE q == [status |-> status, ver |-> rack[r].ver + 1]
<1>1. rack \in [Racks -> RackRows] /\ rack[r].ver \in Nat
  BY DEF TablesOK, RackRows
<1>2. q \in RackRows /\ q.status = status
  BY <1>1 DEF RackRows
<1>3. rack' = [rack EXCEPT ![r] = q]
  BY <1>1 DEF SetRack
<1> HIDE DEF q
<1> QED BY <1>1, <1>2, <1>3

\* Likewise one cell.
LEMMA CellUpdate ==
  ASSUME TablesOK, NEW c \in Cells, NEW r \in Racks \cup {NoRack}, NEW n \in Nat,
         cell' = [cell EXCEPT ![c] = [rack |-> r, ver |-> n]]
  PROVE  /\ cell' \in [Cells -> CellRows]
         /\ cell'[c].rack = r
         /\ \A d \in Cells \ {c} : cell'[d] = cell[d]
<1> DEFINE q == [rack |-> r, ver |-> n]
<1>1. cell \in [Cells -> CellRows]
  BY DEF TablesOK
<1>2. q \in CellRows /\ q.rack = r
  BY DEF CellRows
<1>3. cell' = [cell EXCEPT ![c] = q]
  OBVIOUS
<1> HIDE DEF q
<1> QED BY <1>1, <1>2, <1>3

-----------------------------------------------------------------------------
(* Writes by hand and by orders: each keeps the rows well formed, and the  *)
(* routes of the active orders standing.                                   *)

Routes == TablesOK /\ RouteInv /\ ExclusiveInv

\* Orders that keep their rows, or leave the active ones.
LEMMA OrdersFrame ==
  ASSUME TablesOK, RouteInv, ExclusiveInv, UNCHANGED <<cell, rack, draft>>,
         order' \in [Orders -> OrderRows],
         \A o \in Orders : /\ order'[o].status # "none" <=> order[o].status # "none"
                           /\ Active(o)' => Active(o)
                           /\ order'[o].rack = order[o].rack /\ order'[o].src = order[o].src
                           /\ order'[o].dst = order[o].dst
  PROVE  Routes'
BY DEF TablesOK, Routes, RouteInv, ExclusiveInv, Placed, Apart

\* A claim finds its rack available, its cell empty, and neither in use.
LEMMA CreateStep ==
  ASSUME TablesOK, RouteInv, ExclusiveInv, NEW o \in Orders, NEW s \in Cells, NEW d \in Cells, Create(o, s, d)
  PROVE  Routes'
<1> DEFINE r == cell[s].rack
           q == [status |-> "pending", rack |-> r, src |-> s, dst |-> d]
<1>1. /\ order[o].status = "none" /\ r \in Racks /\ rack[r].status = "available"
      /\ cell[d].rack = NoRack /\ r # NoRack
      /\ \A p \in Orders : Active(p) => order[p].rack # r /\ order[p].dst # d
      /\ order' = [order EXCEPT ![o] = q] /\ cell' = cell
      /\ SetRack(r, "reserved") /\ draft' = draft
  BY DEF Create, TablesOK, CellRows
<1>2. q \in OrderRows /\ q.status = "pending" /\ q.rack = r /\ q.src = s /\ q.dst = d
  BY <1>1 DEF OrderRows
<1>3. /\ order' \in [Orders -> OrderRows] /\ order'[o] = q
      /\ \A p \in Orders \ {o} : order'[p] = order[p]
  <2> HIDE DEF q
  <2> QED BY <1>1, <1>2 DEF TablesOK
<1>4. /\ rack' \in [Racks -> RackRows] /\ rack'[r].status = "reserved"
      /\ \A p \in Racks \ {r} : rack'[p] = rack[p]
  BY <1>1, RackUpdate
<1> HIDE DEF q, r
<1>5. TablesOK'
  BY <1>1, <1>2, <1>3, <1>4 DEF TablesOK
<1>6. ASSUME NEW p \in Orders, Active(p)' PROVE Placed(p)'
  <2>1. CASE p = o
    BY <1>1, <1>2, <1>3, <1>4, <2>1 DEF Placed, r
  <2>2. CASE p # o
    <3>1. Active(p) /\ Placed(p) /\ order'[p] = order[p] /\ order[p].rack # r
      BY <1>1, <1>3, <1>6, <2>2 DEF Active, RouteInv
    <3>2. order[p].rack \in Racks
      BY <3>1, OrderFields DEF Active
    <3> QED BY <1>1, <1>4, <3>1, <3>2 DEF Placed
  <2> QED BY <2>1, <2>2
<1>7. ExclusiveInv'
  BY <1>1, <1>2, <1>3 DEF ExclusiveInv, Apart, Active
<1> QED BY <1>5, <1>6, <1>7 DEF Routes, RouteInv

\* A compensation gives up a rack that is no other order's.
LEMMA RollbackStep ==
  ASSUME TablesOK, RouteInv, ExclusiveInv, NEW o \in Orders, Rollback(o)
  PROVE  Routes'
<1> DEFINE r == order[o].rack
<1>1. Active(o) /\ r \in Racks /\ order[o].status # "none" /\ UNCHANGED <<cell, draft>>
  BY OrderFields DEF Rollback, Active
<1>2. /\ order' \in [Orders -> OrderRows] /\ order'[o].status = "closed"
      /\ order'[o].rack = r /\ order'[o].src = order[o].src /\ order'[o].dst = order[o].dst
      /\ \A p \in Orders \ {o} : order'[p] = order[p]
  BY <1>1, StatusUpdate DEF Rollback
<1>3. rack' \in [Racks -> RackRows] /\ \A p \in Racks \ {r} : rack'[p] = rack[p]
  BY <1>1, RackUpdate DEF Rollback
<1>4. TablesOK'
  BY <1>1, <1>2, <1>3 DEF TablesOK
<1>5. ASSUME NEW p \in Orders, Active(p)'
      PROVE  p # o /\ Active(p) /\ order'[p] = order[p]
  BY <1>2, <1>5 DEF Active
<1>6. ASSUME NEW p \in Orders, Active(p)' PROVE Placed(p)'
  <2>1. Placed(p) /\ order[p].rack # r /\ order[p].rack \in Racks
    BY <1>1, <1>5, <1>6, OrderFields DEF RouteInv, ExclusiveInv, Apart, Active
  <2> QED BY <1>1, <1>3, <1>5, <1>6, <2>1 DEF Placed
<1>7. ExclusiveInv'
  BY <1>5 DEF ExclusiveInv, Apart
<1> QED BY <1>4, <1>6, <1>7 DEF Routes, RouteInv

\* A completion moves a rack that stands nowhere else into an empty cell.
LEMMA CompleteStep ==
  ASSUME TablesOK, RouteInv, ExclusiveInv, NEW o \in Orders, Complete(o)
  PROVE  Routes'
<1> DEFINE r == order[o].rack
           s == order[o].src
           d == order[o].dst
           left == [rack |-> NoRack, ver |-> cell[s].ver + 1]
           came == [rack |-> r, ver |-> cell[d].ver + 1]
<1>1. /\ Active(o) /\ order[o].status # "none" /\ r \in Racks /\ s \in Cells /\ d \in Cells
      /\ cell[s].rack = r /\ cell[d].rack = NoRack /\ r # NoRack
      /\ draft' = draft
  BY OrderFields, InventoryAssumption DEF Complete, Active
<1>2. /\ order' \in [Orders -> OrderRows] /\ order'[o].status = "closed"
      /\ order'[o].rack = r /\ order'[o].src = s /\ order'[o].dst = d
      /\ \A p \in Orders \ {o} : order'[p] = order[p]
  BY <1>1, StatusUpdate DEF Complete
<1>3. rack' \in [Racks -> RackRows] /\ \A p \in Racks \ {r} : rack'[p] = rack[p]
  BY <1>1, RackUpdate DEF Complete
<1>4. left \in CellRows /\ came \in CellRows /\ left.rack = NoRack /\ came.rack = r
  BY <1>1 DEF TablesOK, CellRows
<1>5. s # d
  BY <1>1
<1>6. cell' = [cell EXCEPT ![s] = left, ![d] = came] /\ cell \in [Cells -> CellRows]
  BY <1>1, <1>5 DEF Complete, TablesOK
<1> HIDE DEF left, came
<1>7. /\ cell' \in [Cells -> CellRows] /\ cell'[s].rack = NoRack /\ cell'[d].rack = r
      /\ \A c \in Cells \ {s, d} : cell'[c] = cell[c]
  BY <1>1, <1>4, <1>5, <1>6
<1> HIDE DEF r, s, d
<1>8. \A c \in Cells : cell'[c].rack = r => c = d
  BY <1>1, <1>7 DEF TablesOK
<1>9. \A c \in Cells, e \in Cells : cell'[c].rack = cell'[e].rack /\ cell'[c].rack # NoRack => c = e
  BY <1>1, <1>7, <1>8 DEF TablesOK
<1>10. TablesOK'
  BY <1>1, <1>2, <1>3, <1>7, <1>9 DEF TablesOK
<1>11. ASSUME NEW p \in Orders, Active(p)'
       PROVE  p # o /\ Active(p) /\ order'[p] = order[p]
  BY <1>2, <1>11 DEF Active
<1>12. ASSUME NEW p \in Orders, Active(p)' PROVE Placed(p)'
  <2>1. /\ Placed(p) /\ order[p].rack # r /\ order[p].dst # d
        /\ order[p].rack \in Racks /\ order[p].src \in Cells /\ order[p].dst \in Cells
    BY <1>1, <1>11, <1>12, OrderFields DEF RouteInv, ExclusiveInv, Apart, Active, r, d
  <2>2. order[p].src # s /\ order[p].src # d
    BY <1>1, <2>1, InventoryAssumption DEF Placed
  <2>3. cell'[order[p].dst].rack = NoRack
    BY <1>7, <2>1 DEF Placed
  <2> QED BY <1>3, <1>7, <1>11, <1>12, <2>1, <2>2, <2>3 DEF Placed
<1>13. ExclusiveInv'
  BY <1>11 DEF ExclusiveInv, Apart
<1> QED BY <1>10, <1>12, <1>13 DEF Routes, RouteInv

\* The steps that only give one order a new status.
LEMMA StatusSteps ==
  ASSUME TablesOK, RouteInv, ExclusiveInv, NEW o \in Orders,
         Dispatch(o) \/ StoreResult(o) \/ CancelFails(o)
  PROVE  Routes'
<1>1. /\ UNCHANGED <<cell, rack, draft>>
      /\ order[o].status \in {"none", "closed", "deleted"} => order' = order
      /\ \E status \in {"uncertain", "refused", "dispatched", "cancel_error"} :
           order' = order \/ order' = [order EXCEPT ![o].status = status]
  <2>1. CASE Dispatch(o) BY <2>1 DEF Dispatch
  <2>2. CASE CancelFails(o) BY <2>2 DEF CancelFails
  <2>3. CASE StoreResult(o)
    <3>1. order[o].status \in ActiveStatuses \cup {"none", "closed", "deleted"}
      BY OrderFields
    <3>2. order = [order EXCEPT ![o].status = order[o].status]
      BY OrderFields DEF TablesOK
    <3> QED BY <2>3, <3>1, <3>2 DEF StoreResult
  <2> QED BY <2>1, <2>2, <2>3
<1>2. CASE order' = order
  BY <1>1, <1>2, OrdersFrame DEF Active, TablesOK
<1>3. CASE order' # order
  <2>1. PICK status \in {"uncertain", "refused", "dispatched", "cancel_error"} :
          order' = [order EXCEPT ![o].status = status]
    BY <1>1, <1>3
  <2>2. order[o].status # "none" /\ Active(o)
    BY <1>1, <1>3, OrderFields DEF Active
  <2>3. /\ order' \in [Orders -> OrderRows]
        /\ order'[o].status = status /\ order'[o].rack = order[o].rack
        /\ order'[o].src = order[o].src /\ order'[o].dst = order[o].dst
        /\ \A p \in Orders \ {o} : order'[p] = order[p]
    BY <2>1, <2>2, StatusUpdate
  <2> QED BY <1>1, <2>2, <2>3, OrdersFrame DEF Active
<1> QED BY <1>2, <1>3

\* A window's orders are gone.
LEMMA DeleteStep ==
  ASSUME TablesOK, RouteInv, ExclusiveInv, DeleteWindow
  PROVE  Routes'
<1> DEFINE gone(o) == [order[o] EXCEPT !.status = "deleted"]
<1>1. ASSUME NEW o \in Orders, order[o].status # "none"
      PROVE  /\ gone(o) \in OrderRows /\ gone(o).status = "deleted"
             /\ gone(o).rack = order[o].rack /\ gone(o).src = order[o].src
             /\ gone(o).dst = order[o].dst
  BY OrderFields DEF OrderRows
<1>2. /\ UNCHANGED <<cell, rack, draft>>
      /\ order' = [o \in Orders |-> IF o \in WindowOrders /\ order[o].status # "none"
                                   THEN gone(o) ELSE order[o]]
  BY DEF DeleteWindow
<1> HIDE DEF gone
<1>3. ASSUME NEW o \in Orders
      PROVE  \/ order'[o] = order[o]
             \/ order[o].status # "none" /\ order'[o] = gone(o)
  BY <1>2
<1>4. order' \in [Orders -> OrderRows]
  BY <1>1, <1>2, OrderFields
<1>5. \A o \in Orders : /\ order'[o].status # "none" <=> order[o].status # "none"
                        /\ Active(o)' => Active(o)
                        /\ order'[o].rack = order[o].rack /\ order'[o].src = order[o].src
                        /\ order'[o].dst = order[o].dst
  BY <1>1, <1>3 DEF Active
<1> QED BY <1>2, <1>4, <1>5, OrdersFrame

\* Rows that no active order needs are written: its cells and its rack stay.
LEMMA RowsFrame ==
  ASSUME TablesOK, RouteInv, ExclusiveInv, UNCHANGED order, TablesOK',
         \A o \in Orders : Active(o) =>
           /\ cell'[order[o].src].rack = cell[order[o].src].rack
           /\ cell'[order[o].dst].rack = cell[order[o].dst].rack
           /\ rack[order[o].rack].status = "reserved" => rack'[order[o].rack].status = "reserved"
  PROVE  Routes'
BY DEF Routes, RouteInv, ExclusiveInv, Placed, Apart, Active

\* One cell gets a rack that stands nowhere else.
LEMMA Unique ==
  ASSUME TablesOK, NEW c \in Cells, NEW r \in Racks \cup {NoRack}, Assignable(r, c),
         cell'[c].rack = r, \A d \in Cells \ {c} : cell'[d] = cell[d]
  PROVE  \A d, e \in Cells : cell'[d].rack = cell'[e].rack /\ cell'[d].rack # NoRack => d = e
BY DEF TablesOK, Assignable, CellOf

\* The older endpoint of locations, behind the guard.
LEMMA PutStep ==
  ASSUME TablesOK, RouteInv, ExclusiveInv, NEW c \in Cells, NEW r \in Racks \cup {NoRack},
         NEW others \in BOOLEAN, PutLocation(c, r, others)
  PROVE  Routes'
<1> DEFINE n == IF others THEN cell[c].ver + 1 ELSE cell[c].ver
<1>1. cell[c].ver \in Nat /\ cell \in [Cells -> CellRows]
  BY DEF TablesOK, CellRows
<1>2. n \in Nat
  BY <1>1
<1>3. cell' = [cell EXCEPT ![c] = [rack |-> r, ver |-> n]]
  BY <1>1 DEF PutLocation
<1> HIDE DEF n
<1>4. /\ cell' \in [Cells -> CellRows] /\ cell'[c].rack = r
      /\ \A d \in Cells \ {c} : cell'[d] = cell[d]
  BY <1>2, <1>3, CellUpdate
<1>5. UNCHANGED <<rack, order, draft>> /\ Assignable(r, c)
  BY DEF PutLocation
<1>6. TablesOK'
  BY <1>4, <1>5, Unique DEF TablesOK
<1>7. \A o \in Orders : Active(o) => order[o].src # c /\ order[o].dst # c
  BY DEF PutLocation, Unguarded, GuardedOrders
<1>8. \A o \in Orders : Active(o) => order[o].src \in Cells /\ order[o].dst \in Cells
  BY OrderFields DEF Active
<1>9. \A o \in Orders : Active(o) => cell'[order[o].src] = cell[order[o].src]
                                   /\ cell'[order[o].dst] = cell[order[o].dst]
  BY <1>4, <1>7, <1>8
<1> QED BY <1>5, <1>6, <1>9, RowsFrame

\* The older endpoints of racks: the guard, or a reservation, which harms no order.
LEMMA RackSteps ==
  ASSUME TablesOK, RouteInv, ExclusiveInv, NEW r \in Racks, NEW status \in {"available", "reserved"},
         UpdateRack(r, status) \/ (ReserveRack(r) /\ status = "reserved")
  PROVE  Routes'
<1>1. SetRack(r, status) /\ UNCHANGED <<cell, order, draft>>
  BY DEF UpdateRack, ReserveRack
<1>2. /\ rack' \in [Racks -> RackRows] /\ rack'[r].status = status
      /\ \A q \in Racks \ {r} : rack'[q] = rack[q]
  BY <1>1, RackUpdate
<1>3. TablesOK'
  BY <1>1, <1>2 DEF TablesOK
<1>4. \A o \in Orders : Active(o) => order[o].rack # r \/ status = "reserved"
  BY DEF UpdateRack, ReserveRack, Unguarded, GuardedOrders
<1>5. \A o \in Orders : Active(o) => order[o].rack \in Racks
  BY OrderFields DEF Active
<1> QED BY <1>1, <1>2, <1>3, <1>4, <1>5, RowsFrame

\* What save_context_cell checks and writes.
LEMMA SaveStep ==
  ASSUME TablesOK, RouteInv, ExclusiveInv, NEW r \in Racks \cup {NoRack},
         NEW what \in SUBSET {"cell", "rack", "reservation"}, SaveCell(r, what)
  PROVE  Routes'
<1> DEFINE c == draft.cell
           now == cell[c].rack
           R == {now, r} \ {NoRack}
<1>1. c \in Cells /\ cell[c].ver \in Nat /\ now \in Racks \cup {NoRack} /\ cell \in [Cells -> CellRows]
  BY DEF SaveCell, TablesOK, CellRows
<1>2. /\ UNCHANGED order /\ draft' = NoDraft /\ Unguarded({c}, R) /\ Assignable(r, c)
      /\ cell' = [cell EXCEPT ![c] = [rack |-> r, ver |-> cell[c].ver + 1]] \/ (cell' = cell /\ r = now)
  BY <1>1 DEF SaveCell
<1>3. /\ cell' \in [Cells -> CellRows] /\ cell'[c].rack = r
      /\ \A d \in Cells \ {c} : cell'[d] = cell[d]
  <2>1. CASE cell' = cell /\ r = now BY <1>1, <2>1
  <2>2. CASE cell' = [cell EXCEPT ![c] = [rack |-> r, ver |-> cell[c].ver + 1]]
    <3>1. cell[c].ver + 1 \in Nat
      BY <1>1
    <3> QED BY <1>1, <2>2, <3>1, CellUpdate
  <2> QED BY <1>2, <2>1, <2>2
<1>4. /\ rack' \in [Racks -> RackRows] /\ \A q \in Racks \ R : rack'[q] = rack[q]
  <2>1. /\ DOMAIN rack' = Racks /\ rack' = [q \in Racks |-> rack'[q]]
        /\ \A q \in Racks :
             \/ rack'[q] = rack[q]
             \/ /\ q \in R
                /\ \E status \in {"available", "reserved", rack[q].status} :
                     rack'[q] = [status |-> status, ver |-> rack[q].ver + 1]
    BY DEF SaveCell
  <2>2. ASSUME NEW q \in Racks PROVE rack[q] \in RackRows /\ rack'[q] \in RackRows
    <3>1. rack[q] \in RackRows /\ rack[q].status \in {"available", "reserved"} /\ rack[q].ver + 1 \in Nat
      BY DEF TablesOK, RackRows
    <3> QED BY <2>1, <3>1 DEF RackRows
  <2> QED BY <2>1, <2>2
<1>5. TablesOK'
  BY <1>1, <1>2, <1>3, <1>4, Unique DEF TablesOK, NoDraft
<1>6. \A o \in Orders : Active(o) => order[o].src # c /\ order[o].dst # c /\ order[o].rack \notin R
  BY <1>2 DEF Unguarded, GuardedOrders
<1>7. \A o \in Orders : Active(o) => /\ order[o].src \in Cells /\ order[o].dst \in Cells
                                   /\ order[o].rack \in Racks
  BY OrderFields DEF Active
<1>8. \A o \in Orders : Active(o) =>
        /\ cell'[order[o].src] = cell[order[o].src] /\ cell'[order[o].dst] = cell[order[o].dst]
        /\ rack'[order[o].rack] = rack[order[o].rack]
  BY <1>3, <1>4, <1>6, <1>7
<1> QED BY <1>2, <1>5, <1>8, RowsFrame

\* The editor is opened on a cell.
LEMMA OpenStep ==
  ASSUME TablesOK, RouteInv, ExclusiveInv, NEW c \in Cells, NEW r \in Racks \cup {NoRack}, OpenCell(c, r)
  PROVE  Routes'
<1>1. UNCHANGED <<cell, rack, order>> /\ draft'.cell = c
  BY DEF OpenCell, tableVars
<1>2. TablesOK'
  BY <1>1 DEF TablesOK
<1> QED BY <1>1, <1>2, RowsFrame

\* Every step of the tables keeps them.
LEMMA InventoryRoutes ==
  ASSUME TablesOK, RouteInv, ExclusiveInv, InventoryStep
  PROVE  Routes'
<1>1. CASE \E o \in Orders : \/ \E s, d \in Cells : Create(o, s, d)
                             \/ Dispatch(o) \/ StoreResult(o) \/ Rollback(o) \/ CancelFails(o) \/ Complete(o)
  BY <1>1, CreateStep, StatusSteps, RollbackStep, CompleteStep
<1>2. CASE DeleteWindow
  BY <1>2, DeleteStep
<1>3. CASE \E c \in Cells, r \in Racks \cup {NoRack} :
             OpenCell(c, r) \/ \E others \in BOOLEAN : PutLocation(c, r, others)
  BY <1>3, OpenStep, PutStep
<1>4. CASE \E r \in Racks : ReserveRack(r) \/ \E s \in {"available", "reserved"} : UpdateRack(r, s)
  BY <1>4, RackSteps
<1>5. CASE \E r \in Racks \cup {NoRack}, what \in SUBSET {"cell", "rack", "reservation"} : SaveCell(r, what)
  BY <1>5, SaveStep
<1> QED BY <1>1, <1>2, <1>3, <1>4, <1>5 DEF InventoryStep

-----------------------------------------------------------------------------
(* Requests: what a call knows of its copies and of the task stays true.   *)

\* What a call holds.
LEMMA CallFields ==
  ASSUME CallsOK, NEW o \in Orders
  PROVE  /\ call[o] \in Calls
         /\ call[o] = [at |-> call[o].at, tries |-> call[o].tries, unsent |-> call[o].unsent,
                       seen |-> call[o].seen, result |-> call[o].result]
         /\ call[o].at \in {"idle", "trying", "done", "stored"} /\ call[o].tries \in 0..Attempts
         /\ call[o].unsent \in BOOLEAN /\ call[o].seen \in BOOLEAN /\ call[o].result \in Results
         /\ copies[o] \in Nat /\ remote[o] \in {"none", "live", "refused", "over"}
BY DEF CallsOK, Calls

\* A step of one order's request, or of its row, leaves the others alone.
LEMMA CallFrame ==
  ASSUME CallsInv, NEW o \in Orders, CallInv(o)',
         \A p \in Orders \ {o} : /\ order'[p].status = order[p].status /\ call'[p] = call[p]
                                 /\ copies'[p] = copies[p] /\ remote'[p] = remote[p]
  PROVE  CallsInv'
BY DEF CallsInv, CallInv, Settled, Unsent

\* One call is updated.
LEMMA CallUpdate ==
  ASSUME CallsOK, NEW o \in Orders, NEW c \in Calls, call' = [call EXCEPT ![o] = c]
  PROVE  /\ call' \in [Orders -> Calls] /\ call'[o] = c
         /\ \A p \in Orders \ {o} : call'[p] = call[p]
BY DEF CallsOK

\* A new call, put in a state.
LEMMA NewCall ==
  ASSUME NEW at \in {"idle", "trying", "done", "stored"}
  PROVE  LET d == [NoCall EXCEPT !.at = at] IN
         d \in Calls /\ d.at = at /\ d.tries = 0 /\ d.unsent /\ ~d.seen
<1>1. 0 \in 0..Attempts
  BY AttemptsAssumption
<1>2. NoCall \in Calls /\ NoCall.tries = 0 /\ NoCall.unsent /\ ~NoCall.seen
  BY <1>1 DEF Calls, NoCall, Results
<1> QED BY <1>2 DEF Calls

\* A failure leaves the call trying, or ends it with what is known of the request.
LEMMA RetriedIs ==
  ASSUME NEW c \in Calls, NEW connect \in BOOLEAN, c.at = "trying", c.tries < Attempts
  PROVE  LET d == Retried(c, connect) IN
         /\ d \in Calls /\ d.seen = c.seen /\ (d.unsent <=> c.unsent /\ connect)
         /\ \/ d.at = "trying" /\ d.tries < Attempts
            \/ d.at = "done" /\ d.result = "error"
            \/ d.at = "done" /\ d.result = "not_sent" /\ connect /\ c.unsent /\ ~c.seen
<1> DEFINE next == [c EXCEPT !.tries = @ + 1, !.unsent = @ /\ connect]
           result == IF ConfirmedNotSent(c, connect) THEN "not_sent" ELSE "error"
           last == [next EXCEPT !.at = "done", !.result = result]
<1>1. /\ c = [at |-> c.at, tries |-> c.tries, unsent |-> c.unsent, seen |-> c.seen, result |-> c.result]
      /\ c.at \in {"idle", "trying", "done", "stored"} /\ c.tries \in 0..Attempts
      /\ c.unsent \in BOOLEAN /\ c.seen \in BOOLEAN /\ c.result \in Results
  BY DEF Calls
<1>2. c.tries + 1 \in 0..Attempts
  BY <1>1, AttemptsAssumption
<1>3. (c.unsent /\ connect) \in BOOLEAN
  OBVIOUS
<1>4. /\ next \in Calls /\ next.at = "trying" /\ next.tries = c.tries + 1 /\ next.seen = c.seen
      /\ next.unsent = (c.unsent /\ connect)
  BY <1>1, <1>2, <1>3 DEF Calls
<1>5. result \in Results /\ (result = "not_sent" => connect /\ c.unsent /\ ~c.seen) /\ result \in {"not_sent", "error"}
  BY DEF Results, ConfirmedNotSent
<1>6. Retried(c, connect) = IF next.tries < Attempts THEN next ELSE last
  BY DEF Retried
<1> HIDE DEF next, result
<1>7. /\ last \in Calls /\ last.at = "done" /\ last.result = result /\ last.seen = next.seen
      /\ last.unsent = next.unsent
  BY <1>4, <1>5 DEF Calls
<1> HIDE DEF last
<1>8. CASE next.tries < Attempts BY <1>4, <1>6, <1>8
<1>9. CASE ~(next.tries < Attempts) BY <1>4, <1>5, <1>6, <1>7, <1>9
<1> QED BY <1>8, <1>9

\* An attempt that failed.
LEMMA FailSteps ==
  ASSUME CallsOK, CallsInv, NEW o \in Orders, UNCHANGED order, ConnectFails(o) \/ AnswerLost(o)
  PROVE  CallsOK' /\ CallsInv'
<1> DEFINE connect == copies' = copies
           d == Retried(call[o], connect)
<1>1. /\ call[o].at = "trying" /\ remote' = remote /\ connect \in BOOLEAN
      /\ call' = [call EXCEPT ![o] = d]
      /\ connect \/ copies' = [copies EXCEPT ![o] = @ + 1]
  <2>1. CASE ConnectFails(o)
    <3>1. connect = TRUE BY <2>1 DEF ConnectFails
    <3> QED BY <2>1, <3>1 DEF ConnectFails, Trying
  <2>2. CASE AnswerLost(o)
    <3>1. copies[o] \in Nat /\ copies' = [copies EXCEPT ![o] = @ + 1] /\ copies \in [Orders -> Nat]
      BY <2>2, CallFields DEF AnswerLost, CallsOK
    <3>2. copies'[o] # copies[o]
      BY <3>1
    <3>3. connect = FALSE
      BY <3>2
    <3> QED BY <2>2, <3>3 DEF AnswerLost, Trying
  <2> QED BY <2>1, <2>2
<1> HIDE DEF connect
<1>2. call[o] \in Calls /\ call[o].tries < Attempts /\ CallInv(o)
  BY <1>1, CallFields DEF CallsInv, CallInv
<1>3. /\ d \in Calls /\ d.seen = call[o].seen /\ (d.unsent <=> call[o].unsent /\ connect)
      /\ \/ d.at = "trying" /\ d.tries < Attempts
         \/ d.at = "done" /\ d.result = "error"
         \/ d.at = "done" /\ d.result = "not_sent" /\ connect /\ call[o].unsent /\ ~call[o].seen
  BY <1>1, <1>2, RetriedIs
<1> HIDE DEF d
<1>4. /\ call' \in [Orders -> Calls] /\ call'[o] = d
      /\ \A p \in Orders \ {o} : call'[p] = call[p]
  BY <1>1, <1>3, CallUpdate
<1>5. copies' \in [Orders -> Nat] /\ \A p \in Orders \ {o} : copies'[p] = copies[p]
  BY <1>1 DEF CallsOK, connect
<1>6. connect => (Unsent(o) => Unsent(o)')
  BY <1>1 DEF connect, Unsent
<1>7. order[o].status \notin {"none", "pending", "dispatched", "cancel_error", "refused", "closed"}
  BY <1>1, <1>2 DEF CallInv, Settled
<1>8. CallInv(o)'
  BY <1>1, <1>2, <1>3, <1>4, <1>6, <1>7 DEF CallInv
<1>9. CallsInv'
  BY <1>1, <1>4, <1>5, <1>8, CallFrame
<1> QED BY <1>1, <1>4, <1>5, <1>9 DEF CallsOK

\* A redirect was seen: nothing is certain of the request any more.
LEMMA RedirectStep ==
  ASSUME CallsOK, CallsInv, NEW o \in Orders, UNCHANGED order, Redirected(o)
  PROVE  CallsOK' /\ CallsInv'
<1> DEFINE d == [NoCall EXCEPT !.at = "trying", !.seen = TRUE]
<1>0. 0 < Attempts
  BY AttemptsAssumption
<1>1. d \in Calls /\ d.at = "trying" /\ d.seen /\ d.tries = 0
  <2> DEFINE n == [NoCall EXCEPT !.at = "trying"]
  <2>1. n \in Calls /\ n.at = "trying" /\ n.tries = 0
    BY NewCall
  <2>2. d = [n EXCEPT !.seen = TRUE]
    OBVIOUS
  <2> HIDE DEF n
  <2> QED BY <2>1, <2>2 DEF Calls
<1>2. call[o].at = "trying" /\ remote' = remote /\ call' = [call EXCEPT ![o] = d]
  BY DEF Redirected, Trying
<1> HIDE DEF d
<1>3. /\ call' \in [Orders -> Calls] /\ call'[o] = d
      /\ \A p \in Orders \ {o} : call'[p] = call[p]
  BY <1>1, <1>2, CallUpdate
<1>4. copies' \in [Orders -> Nat] /\ \A p \in Orders \ {o} : copies'[p] = copies[p]
  BY DEF Redirected, CallsOK
<1>5. order[o].status \notin {"none", "pending", "dispatched", "cancel_error", "refused", "closed"}
  BY <1>2 DEF CallsInv, CallInv, Settled
<1>6. CallInv(o)'
  BY <1>0, <1>1, <1>3, <1>5 DEF CallInv
<1> QED BY <1>2, <1>3, <1>4, <1>6, CallFrame DEF CallsOK

\* An answer is read.
LEMMA AnswerStep ==
  ASSUME CallsOK, CallsInv, NEW o \in Orders, UNCHANGED order, Answered(o)
  PROVE  CallsOK' /\ CallsInv'
<1>1. PICK verdict \in Verdicts(o) : \E result \in Read(verdict) :
        /\ remote' = [remote EXCEPT ![o] = verdict]
        /\ call' = [call EXCEPT ![o].at = "done", ![o].result = result]
  BY DEF Answered
<1>2. PICK result \in Read(verdict) :
        /\ remote' = [remote EXCEPT ![o] = verdict]
        /\ call' = [call EXCEPT ![o].at = "done", ![o].result = result]
  BY <1>1
<1> DEFINE d == [call[o] EXCEPT !.at = "done", !.result = result]
<1>3. call[o].at = "trying" /\ copies' = copies /\ call' = [call EXCEPT ![o] = d]
  BY <1>2 DEF Answered, Trying, CallsOK
<1>4. /\ result \in Results /\ result # "not_sent" /\ (result = "rejected" => verdict = "refused")
      /\ verdict \in {"live", "refused", "over"}
  BY CallFields DEF Read, Results, Verdicts
<1>5. d \in Calls /\ d.at = "done" /\ d.result = result
  BY <1>4, CallFields DEF Calls
<1> HIDE DEF d
<1>6. /\ call' \in [Orders -> Calls] /\ call'[o] = d
      /\ \A p \in Orders \ {o} : call'[p] = call[p]
  BY <1>3, <1>5, CallUpdate
<1>7. /\ remote' \in [Orders -> {"none", "live", "refused", "over"}] /\ remote'[o] = verdict
      /\ \A p \in Orders \ {o} : remote'[p] = remote[p]
  BY <1>2, <1>4 DEF CallsOK
<1>8. order[o].status \notin {"none", "pending", "dispatched", "cancel_error", "refused", "closed"}
  BY <1>3 DEF CallsInv, CallInv, Settled
<1>9. CallInv(o)'
  BY <1>4, <1>5, <1>6, <1>7, <1>8 DEF CallInv
<1> QED BY <1>3, <1>6, <1>7, <1>9, CallFrame DEF CallsOK

\* A copy that arrives finds the task that is there, or makes it; a lost one nothing.
LEMMA CopySteps ==
  ASSUME CallsOK, CallsInv, NEW o \in Orders, UNCHANGED order, CopyArrives(o) \/ CopyLost(o)
  PROVE  CallsOK' /\ CallsInv'
<1>1. /\ call' = call /\ copies[o] > 0 /\ copies' = [copies EXCEPT ![o] = @ - 1]
      /\ \E verdict \in Verdicts(o) \cup {remote[o]} : remote' = [remote EXCEPT ![o] = verdict]
  <2>1. CASE CopyArrives(o) BY <2>1 DEF CopyArrives
  <2>2. CASE CopyLost(o)
    <3>1. remote' = [remote EXCEPT ![o] = remote[o]]
      BY <2>2 DEF CopyLost, CallsOK
    <3> QED BY <2>2, <3>1 DEF CopyLost
  <2> QED BY <2>1, <2>2
<1>2. copies' \in [Orders -> Nat] /\ \A p \in Orders \ {o} : copies'[p] = copies[p]
  BY <1>1 DEF CallsOK
<1>3. PICK verdict \in Verdicts(o) \cup {remote[o]} : remote' = [remote EXCEPT ![o] = verdict]
  BY <1>1
<1>4. verdict \in {"none", "live", "refused", "over"} /\ (remote[o] # "none" => verdict = remote[o])
  BY CallFields DEF Verdicts
<1>5. /\ remote' \in [Orders -> {"none", "live", "refused", "over"}] /\ remote'[o] = verdict
      /\ \A p \in Orders \ {o} : remote'[p] = remote[p]
  BY <1>3, <1>4 DEF CallsOK
<1>6. ~Unsent(o)
  BY <1>1 DEF Unsent
<1>7. CallInv(o)'
  BY <1>1, <1>4, <1>5, <1>6 DEF CallsInv, CallInv, Settled
<1> QED BY <1>1, <1>2, <1>5, <1>7, CallFrame DEF CallsOK

\* A task that ends was no settled order's.
LEMMA TaskEndsStep ==
  ASSUME CallsOK, CallsInv, NEW o \in Orders, UNCHANGED order, TaskEnds(o)
  PROVE  CallsOK' /\ CallsInv'
<1>1. /\ UNCHANGED <<call, copies>> /\ remote[o] = "live"
      /\ remote' \in [Orders -> {"none", "live", "refused", "over"}] /\ remote'[o] = "over"
      /\ \A p \in Orders \ {o} : remote'[p] = remote[p]
  BY DEF TaskEnds, CallsOK
<1>2. CallInv(o)'
  BY <1>1 DEF CallsInv, CallInv, Settled, Unsent
<1> QED BY <1>1, <1>2, CallFrame DEF CallsOK

\* A restart ends the calls; what was settled stays so.
LEMMA RestartCalls ==
  ASSUME CallsOK, CallsInv, UNCHANGED order, Restart
  PROVE  CallsOK' /\ CallsInv'
<1> DEFINE d == [NoCall EXCEPT !.at = "stored"]
<1>1. d \in Calls /\ d.at = "stored"
  BY NewCall
<1>2. /\ call' = [o \in Orders |-> IF call[o].at \in {"trying", "done"} THEN d ELSE call[o]]
      /\ copies' = [o \in Orders |-> copies[o] + IF Trying(o) THEN 1 ELSE 0]
      /\ remote' = remote
  BY DEF Restart
<1> HIDE DEF d
<1>3. CallsOK'
  BY <1>1, <1>2, CallFields DEF CallsOK
<1>4. ASSUME NEW o \in Orders PROVE CallInv(o)'
  <2>1. CASE call[o].at \in {"trying", "done"}
    <3>1. call'[o].at = "stored"
      BY <1>1, <1>2, <2>1
    <3>2. order[o].status \notin {"none", "pending", "refused", "closed"}
      BY <2>1 DEF CallsInv, CallInv, Settled
    <3> QED BY <3>1, <3>2 DEF CallInv
  <2>2. CASE call[o].at \notin {"trying", "done"}
    <3>1. call'[o] = call[o] /\ copies'[o] = copies[o] /\ remote'[o] = remote[o]
      <4>1. ~Trying(o) /\ copies[o] \in Nat
        BY <2>2, CallFields DEF Trying
      <4>2. copies'[o] = copies[o] + 0
        BY <1>2, <4>1
      <4> QED BY <1>2, <2>2, <4>1, <4>2
    <3> QED BY <3>1 DEF CallsInv, CallInv, Settled, Unsent
  <2> QED BY <2>1, <2>2
<1> QED BY <1>3, <1>4 DEF CallsInv

\* An order's row changes, and its request does not: the new state is one that the
\* request allows.
LEMMA RowCalls ==
  ASSUME CallsOK, CallsInv, NEW o \in Orders, UNCHANGED clientVars,
         \A p \in Orders \ {o} : order'[p].status = order[p].status,
         \/ order[o].status = "none" /\ order'[o].status = "pending"
         \/ order[o].status \in {"dispatched"} /\ order'[o].status = "cancel_error"
         \/ order[o].status = "refused" /\ order'[o].status = "closed"
         \/ /\ order[o].status \in {"dispatched", "cancel_error"} /\ remote[o] = "over"
            /\ order'[o].status = "closed"
         \/ order'[o].status = "deleted"
  PROVE  CallsOK' /\ CallsInv'
<1>1. UNCHANGED <<call, copies, remote>>
  BY DEF clientVars
<1>2. CallInv(o)'
  BY <1>1 DEF CallsInv, CallInv, Settled, Unsent
<1> QED BY <1>1, <1>2, CallFrame DEF CallsOK

\* A dispatch starts from a request that never left.
LEMMA DispatchCalls ==
  ASSUME TablesOK, CallsOK, CallsInv, NEW o \in Orders, Dispatch(o)
  PROVE  CallsOK' /\ CallsInv'
<1> DEFINE d == [NoCall EXCEPT !.at = "trying"]
<1>0. 0 < Attempts
  BY AttemptsAssumption
<1>1. d \in Calls /\ d.at = "trying" /\ d.tries = 0
  BY NewCall
<1>2. /\ call[o].at = "idle" /\ UNCHANGED <<copies, remote>> /\ call' = [call EXCEPT ![o] = d]
      /\ order[o].status = "pending" /\ order' = [order EXCEPT ![o].status = "uncertain"]
  BY DEF Dispatch, StartCall
<1> HIDE DEF d
<1>3. /\ call' \in [Orders -> Calls] /\ call'[o] = d
      /\ \A p \in Orders \ {o} : call'[p] = call[p]
  BY <1>1, <1>2, CallUpdate
<1>4. order'[o].status = "uncertain" /\ \A p \in Orders \ {o} : order'[p] = order[p]
  BY <1>2, StatusUpdate
<1>5. Unsent(o)'
  BY <1>2 DEF CallsInv, CallInv, Unsent
<1>6. CallInv(o)'
  BY <1>0, <1>1, <1>3, <1>4, <1>5 DEF CallInv
<1> QED BY <1>2, <1>3, <1>4, <1>6, CallFrame DEF CallsOK

\* An outcome is stored: an order is refused only when its request moves nothing.
LEMMA StoreCalls ==
  ASSUME TablesOK, CallsOK, CallsInv, NEW o \in Orders, StoreResult(o)
  PROVE  CallsOK' /\ CallsInv'
<1> DEFINE d == [call[o] EXCEPT !.at = "stored"]
           s == order[o].status
           status == IF s # "uncertain" THEN s
                     ELSE IF call[o].result = "accepted" THEN "dispatched"
                     ELSE IF call[o].result \in {"rejected", "not_sent"} THEN "refused" ELSE s
<1>1. d \in Calls /\ d.at = "stored"
  BY CallFields DEF Calls
<1>2. /\ call[o].at = "done" /\ UNCHANGED <<copies, remote>> /\ call' = [call EXCEPT ![o] = d]
      /\ order' = [order EXCEPT ![o].status = status]
  BY DEF StoreResult, CallsOK
<1>3. s \notin {"none", "pending", "dispatched", "cancel_error", "refused", "closed"}
      /\ s \in ActiveStatuses \cup {"none", "closed", "deleted"}
  BY <1>2, OrderFields DEF CallsInv, CallInv, Settled
<1>4. /\ status \in {"uncertain", "deleted", "dispatched", "refused"}
      /\ status = "refused" => call[o].result \in {"rejected", "not_sent"}
  BY <1>3
<1> HIDE DEF d, status
<1>5. /\ call' \in [Orders -> Calls] /\ call'[o] = d
      /\ \A p \in Orders \ {o} : call'[p] = call[p]
  BY <1>1, <1>2, CallUpdate
<1>6. order'[o].status = status /\ \A p \in Orders \ {o} : order'[p] = order[p]
  BY <1>2, <1>3, <1>4, StatusUpdate
<1>7. status = "refused" => remote[o] = "refused" \/ Unsent(o)
  BY <1>2, <1>4 DEF CallsInv, CallInv
<1>8. Unsent(o) => Unsent(o)'
  BY <1>2 DEF Unsent
<1>9. CallInv(o)'
  BY <1>1, <1>2, <1>4, <1>5, <1>6, <1>7, <1>8 DEF CallInv, Settled
<1> QED BY <1>2, <1>5, <1>6, <1>9, CallFrame DEF CallsOK

-----------------------------------------------------------------------------
(* Runs of the synchronisation: each stays what its steps make of it.      *)

\* What a run holds.
LEMMA JobFields ==
  ASSUME NEW C, NEW D, NEW q \in Runs(C, D)
  PROVE  /\ q = [at |-> q.at, busy |-> q.busy, list |-> q.list, found |-> q.found]
         /\ q.at \in {"idle", "counted", "listed", "compared", "bound", "ended"}
         /\ q.busy \in BOOLEAN /\ q.list \in [C -> CellRows] /\ q.found \in [D -> Tags]
BY DEF Runs

\* One run takes a step.
LEMMA JobUpdate ==
  ASSUME JobsOK, NEW j \in Jobs, NEW C \in SUBSET Cells, NEW D \in SUBSET Cells, NEW q \in Runs(C, D),
         job' = [job EXCEPT ![j] = q], rcsPos' \in [Racks -> Cells \cup {NoCell}]
  PROVE  JobsOK'
<1>1. job'[j] = q /\ \A i \in Jobs \ {j} : job'[i] = job[i]
  BY DEF JobsOK
<1>2. job' = [i \in Jobs |-> job'[i]]
  BY DEF JobsOK
<1>3. ASSUME NEW i \in Jobs PROVE \E A, B \in SUBSET Cells : job'[i] \in Runs(A, B)
  BY <1>1 DEF JobsOK
<1> QED BY <1>2, <1>3 DEF JobsOK

\* A run that has not begun.
LEMMA NoJobFits == NoJob \in Runs({}, {}) /\ NoJob.list \in [{} -> CellRows] /\ NoJob.found \in [{} -> Tags]
<1>1. Nothing \in [{} -> CellRows] /\ Nothing \in [{} -> Tags]
  BY DEF Nothing
<1> HIDE DEF Nothing
<1> QED BY <1>1 DEF NoJob, Runs

\* A run counts the orders.
LEMMA CountStep ==
  ASSUME JobsOK, NEW j \in Jobs, SyncCount(j)
  PROVE  JobsOK'
<1> DEFINE busy == \E o \in Orders : Counted(o)
           q == [NoJob EXCEPT !.at = "counted", !.busy = busy]
<1>1. job' = [job EXCEPT ![j] = q] /\ rcsPos' = rcsPos
  BY DEF SyncCount
<1>2. busy \in BOOLEAN
  OBVIOUS
<1> HIDE DEF busy
<1>3. q \in Runs({}, {})
  BY <1>2, NoJobFits DEF Runs
<1> HIDE DEF q
<1>4. {} \in SUBSET Cells
  OBVIOUS
<1> QED BY <1>1, <1>3, <1>4, JobUpdate DEF JobsOK

\* It reads the rows.
LEMMA ListStep ==
  ASSUME TablesOK, JobsOK, NEW j \in Jobs, SyncList(j)
  PROVE  JobsOK'
<1> DEFINE S == {d \in Cells : cell[d].rack # NoRack}
           q == [job[j] EXCEPT !.at = "listed", !.list = Rows]
<1>1. Rows \in [S -> CellRows] /\ S \in SUBSET Cells
  BY DEF Rows, TablesOK
<1>2. PICK C \in SUBSET Cells, D \in SUBSET Cells : job[j] \in Runs(C, D)
  BY DEF JobsOK
<1> HIDE DEF S
<1>3. q \in Runs(S, D)
  BY <1>1, <1>2, JobFields DEF Runs
<1>4. job' = [job EXCEPT ![j] = q] /\ rcsPos' = rcsPos
  BY DEF SyncList, JobsOK
<1> HIDE DEF q
<1> QED BY <1>1, <1>2, <1>3, <1>4, JobUpdate DEF JobsOK

\* It compares them with the RCS.
LEMMA QueryStep ==
  ASSUME JobsOK, NEW j \in Jobs, SyncQuery(j)
  PROVE  JobsOK'
<1>1. PICK C \in SUBSET Cells, D \in SUBSET Cells : job[j] \in Runs(C, D)
  BY DEF JobsOK
<1>2. DOMAIN job[j].list = C
  BY <1>1, JobFields
<1>3. PICK failed \in SUBSET C :
        job' = [job EXCEPT ![j].at = "compared", ![j].found =
                  [c \in C |-> IF c \in failed THEN "query_error" ELSE QueryStatus(job[j].list[c].rack, c)]]
  BY <1>2 DEF SyncQuery
<1> DEFINE f == [c \in C |-> IF c \in failed THEN "query_error" ELSE QueryStatus(job[j].list[c].rack, c)]
           q == [job[j] EXCEPT !.at = "compared", !.found = f]
<1>4. f \in [C -> Tags]
  BY DEF Tags, QueryStatus
<1>5. job' = [job EXCEPT ![j] = q] /\ rcsPos' = rcsPos
  BY <1>3 DEF SyncQuery, JobsOK
<1> HIDE DEF f
<1>6. q \in Runs(C, C)
  BY <1>1, <1>4, JobFields DEF Runs
<1> HIDE DEF q
<1> QED BY <1>5, <1>6, JobUpdate DEF JobsOK

\* It binds cells of its list.
LEMMA BindStep ==
  ASSUME JobsOK, NEW j \in Jobs, SyncBind(j)
  PROVE  JobsOK'
<1>1. PICK C \in SUBSET Cells, D \in SUBSET Cells : job[j] \in Runs(C, D)
  BY DEF JobsOK
<1> DEFINE wrong == {c \in DOMAIN job[j].list : job[j].found[c] = "mismatch"}
<1>2. PICK status \in [wrong -> {"bind_ok", "bind_rejected", "bind_error"}] :
      \E lost \in SUBSET {c \in wrong : status[c] = "bind_error"} :
        LET bound == {c \in wrong : status[c] = "bind_ok"} \cup lost
            at(r) == {c \in bound : job[j].list[c].rack = r}
        IN  /\ rcsPos' = [r \in Racks |-> IF at(r) # {} THEN CHOOSE c \in at(r) : TRUE ELSE rcsPos[r]]
            /\ job' = [job EXCEPT ![j].at = "bound", ![j].found =
                        [c \in DOMAIN @ |-> IF c \in wrong THEN status[c] ELSE @[c]]]
  BY DEF SyncBind
<1>3. PICK lost \in SUBSET {c \in wrong : status[c] = "bind_error"} :
        LET bound == {c \in wrong : status[c] = "bind_ok"} \cup lost
            at(r) == {c \in bound : job[j].list[c].rack = r}
        IN  /\ rcsPos' = [r \in Racks |-> IF at(r) # {} THEN CHOOSE c \in at(r) : TRUE ELSE rcsPos[r]]
            /\ job' = [job EXCEPT ![j].at = "bound", ![j].found =
                        [c \in DOMAIN @ |-> IF c \in wrong THEN status[c] ELSE @[c]]]
  BY <1>2
<1> DEFINE bound == {c \in wrong : status[c] = "bind_ok"} \cup lost
           at(r) == {c \in bound : job[j].list[c].rack = r}
           f == [c \in D |-> IF c \in wrong THEN status[c] ELSE job[j].found[c]]
           q == [job[j] EXCEPT !.at = "bound", !.found = f]
<1>4. wrong \subseteq C /\ C \subseteq Cells /\ job[j].found \in [D -> Tags]
  BY <1>1, JobFields
<1> HIDE DEF wrong
<1>5. f \in [D -> Tags]
  BY <1>4 DEF Tags
<1>6. rcsPos' = [r \in Racks |-> IF at(r) # {} THEN CHOOSE c \in at(r) : TRUE ELSE rcsPos[r]]
  BY <1>3
<1>7. ASSUME NEW r \in Racks PROVE at(r) \subseteq Cells
  BY <1>4
<1>8. job' = [job EXCEPT ![j] = q]
  BY <1>3, <1>4 DEF JobsOK
<1> HIDE DEF at, f
<1>9. rcsPos' \in [Racks -> Cells \cup {NoCell}]
  <2>1. ASSUME NEW r \in Racks, at(r) # {} PROVE (CHOOSE c \in at(r) : TRUE) \in Cells
    BY <1>7, <2>1
  <2> QED BY <1>6, <2>1 DEF JobsOK
<1>10. q \in Runs(C, D)
  BY <1>1, <1>4, <1>5, JobFields DEF Runs
<1> HIDE DEF q
<1> QED BY <1>8, <1>9, <1>10, JobUpdate

\* It ends.
LEMMA EndStep ==
  ASSUME JobsOK, NEW j \in Jobs, SyncEnd(j)
  PROVE  JobsOK'
<1>1. PICK C \in SUBSET Cells, D \in SUBSET Cells : job[j] \in Runs(C, D)
  BY DEF JobsOK
<1> DEFINE q == [job[j] EXCEPT !.at = "ended"]
<1>2. q \in Runs(C, D)
  BY <1>1, JobFields DEF Runs
<1>3. job' = [job EXCEPT ![j] = q] /\ rcsPos' = rcsPos
  BY DEF SyncEnd, JobsOK
<1> HIDE DEF q
<1> QED BY <1>2, <1>3, JobUpdate DEF JobsOK

\* A restart forgets the runs that had not ended.
LEMMA RestartJobs ==
  ASSUME JobsOK, Restart
  PROVE  JobsOK'
<1>1. job' = [j \in Jobs |-> IF job[j].at = "ended" THEN job[j] ELSE NoJob] /\ rcsPos' = rcsPos
  BY DEF Restart
<1>2. job' = [j \in Jobs |-> job'[j]]
  BY <1>1
<1>3. {} \in SUBSET Cells
  OBVIOUS
<1>4. ASSUME NEW j \in Jobs PROVE \E C, D \in SUBSET Cells : job'[j] \in Runs(C, D)
  <2>1. job'[j] \in {job[j], NoJob}
    BY <1>1
  <2> QED BY <1>3, <2>1, NoJobFits DEF JobsOK
<1> QED BY <1>1, <1>2, <1>4 DEF JobsOK

\* The rack of a task that ends stands in the order's destination.
LEMMA TaskEndsJobs ==
  ASSUME TablesOK, CallsInv, JobsOK, NEW o \in Orders, TaskEnds(o)
  PROVE  JobsOK'
<1>1. order[o].status # "none"
  BY DEF TaskEnds, CallsInv, CallInv, Unsent
<1>2. order[o].dst \in Cells
  BY <1>1 DEF TablesOK
<1>3. rcsPos' = [rcsPos EXCEPT ![order[o].rack] = order[o].dst] /\ job' = job
  BY DEF TaskEnds
<1> QED BY <1>2, <1>3 DEF JobsOK

-----------------------------------------------------------------------------
(* The invariant, and what follows from it                                 *)

\* The rows start well formed, without orders, calls or runs.
LEMMA InitHolds == Init => IInv
<1> SUFFICES ASSUME Init PROVE IInv
  OBVIOUS
<1>1. TablesOK
  <2>1. /\ cell \in [Cells -> CellRows] /\ rack \in [Racks -> RackRows]
        /\ order \in [Orders -> OrderRows] /\ \A o \in Orders : order[o].status = "none"
    BY DEF Init, CellRows, RackRows, OrderRows, NewOrder
  <2> QED BY <2>1 DEF TablesOK, Init, NoDraft
<1>2. /\ call = [o \in Orders |-> NoCall] /\ copies = [o \in Orders |-> 0]
      /\ remote = [o \in Orders |-> "none"] /\ \A o \in Orders : order[o].status = "none"
  BY DEF Init, NewOrder
<1>3. NoCall \in Calls /\ NoCall.at = "idle"
  BY AttemptsAssumption DEF NoCall, Calls, Results
<1>4. CallsOK /\ CallsInv
  BY <1>2, <1>3 DEF CallsOK, CallsInv, CallInv, Unsent
<1>5. JobsOK
  <2>1. {} \in SUBSET Cells
    OBVIOUS
  <2> QED BY <2>1, NoJobFits DEF Init, JobsOK
<1>6. RouteInv /\ ExclusiveInv
  BY <1>2 DEF RouteInv, ExclusiveInv, Active
<1> QED BY <1>1, <1>4, <1>5, <1>6 DEF IInv, TypeOK

\* What the steps of the tables leave of the requests.
LEMMA InventoryCalls ==
  ASSUME TablesOK, CallsOK, CallsInv, InventoryStep
  PROVE  CallsOK' /\ CallsInv'
<1>1. ASSUME NEW o \in Orders, NEW s \in Cells, NEW d \in Cells, Create(o, s, d)
      PROVE  CallsOK' /\ CallsInv'
  <2> DEFINE q == [status |-> "pending", rack |-> cell[s].rack, src |-> s, dst |-> d]
  <2>1. order[o].status = "none" /\ UNCHANGED clientVars /\ order' = [order EXCEPT ![o] = q] /\ q.status = "pending"
    BY <1>1 DEF Create
  <2> HIDE DEF q
  <2>2. order'[o].status = "pending" /\ \A p \in Orders \ {o} : order'[p].status = order[p].status
    BY <2>1 DEF TablesOK
  <2> QED BY <2>1, <2>2, RowCalls
<1>2. ASSUME NEW o \in Orders, Rollback(o) \/ CancelFails(o) \/ Complete(o)
      PROVE  CallsOK' /\ CallsInv'
  <2>1. PICK status \in {"closed", "cancel_error"} : order' = [order EXCEPT ![o].status = status]
    BY <1>2 DEF Rollback, CancelFails, Complete
  <2>2. order[o].status # "none" /\ UNCHANGED clientVars
    BY <1>2 DEF Rollback, CancelFails, Complete
  <2>3. order'[o].status = status /\ \A p \in Orders \ {o} : order'[p] = order[p]
    BY <2>1, <2>2, StatusUpdate
  <2>4. \/ order[o].status = "dispatched" /\ order'[o].status = "cancel_error"
        \/ order[o].status = "refused" /\ order'[o].status = "closed"
        \/ /\ order[o].status \in {"dispatched", "cancel_error"} /\ remote[o] = "over"
           /\ order'[o].status = "closed"
    <3>1. CASE Rollback(o)
      <4>1. order[o].status = "refused" /\ order' = [order EXCEPT ![o].status = "closed"]
        BY <3>1 DEF Rollback
      <4> QED BY <4>1, StatusUpdate
    <3>2. CASE CancelFails(o)
      <4>1. order[o].status = "dispatched" /\ order' = [order EXCEPT ![o].status = "cancel_error"]
        BY <3>2 DEF CancelFails
      <4> QED BY <4>1, StatusUpdate
    <3>3. CASE Complete(o)
      <4>1. /\ order[o].status \in {"dispatched", "cancel_error"} /\ remote[o] = "over"
            /\ order' = [order EXCEPT ![o].status = "closed"]
        BY <3>3 DEF Complete
      <4> QED BY <4>1, StatusUpdate
    <3> QED BY <1>2, <3>1, <3>2, <3>3
  <2> QED BY <2>2, <2>3, <2>4, RowCalls
<1>3. ASSUME UNCHANGED <<clientVars, order>> PROVE CallsOK' /\ CallsInv'
  BY <1>3 DEF clientVars, CallsOK, CallsInv, CallInv, Settled, Unsent
<1>4. CASE DeleteWindow
  <2>1. UNCHANGED <<call, copies, remote>>
    BY <1>4 DEF DeleteWindow, clientVars
  <2>2. \A o \in Orders : order'[o].status \in {order[o].status, "deleted"}
    BY <1>4, OrderFields DEF DeleteWindow
  <2> QED BY <2>1, <2>2 DEF CallsOK, CallsInv, CallInv, Settled, Unsent
<1>5. CASE \E c \in Cells, r \in Racks \cup {NoRack} :
             OpenCell(c, r) \/ \E others \in BOOLEAN : PutLocation(c, r, others)
  BY <1>3, <1>5 DEF OpenCell, PutLocation, tableVars
<1>6. CASE \E r \in Racks : ReserveRack(r) \/ \E s \in {"available", "reserved"} : UpdateRack(r, s)
  BY <1>3, <1>6 DEF ReserveRack, UpdateRack
<1>7. CASE \E r \in Racks \cup {NoRack}, what \in SUBSET {"cell", "rack", "reservation"} : SaveCell(r, what)
  <2>1. PICK r \in Racks \cup {NoRack}, what \in SUBSET {"cell", "rack", "reservation"} : SaveCell(r, what)
    BY <1>7
  <2>2. UNCHANGED <<clientVars, order>>
    BY <2>1 DEF SaveCell
  <2> QED BY <1>3, <2>2
<1>8. CASE \E o \in Orders : Dispatch(o) \/ StoreResult(o)
  BY <1>8, DispatchCalls, StoreCalls
<1> QED BY <1>1, <1>2, <1>4, <1>5, <1>6, <1>7, <1>8 DEF InventoryStep

\* Tables that no step touches.
LEMMA StillRoutes ==
  ASSUME TablesOK, RouteInv, ExclusiveInv, UNCHANGED <<cell, rack, order, draft>>
  PROVE  Routes'
BY DEF TablesOK, Routes, RouteInv, ExclusiveInv, Placed, Apart, Active

\* Runs that no step touches.
LEMMA StillJobs == ASSUME JobsOK, UNCHANGED <<job, rcsPos>> PROVE JobsOK'
BY DEF JobsOK

\* Requests that no step touches.
LEMMA StillCalls == ASSUME CallsOK, CallsInv, UNCHANGED <<order, call, copies, remote>> PROVE CallsOK' /\ CallsInv'
BY DEF CallsOK, CallsInv, CallInv, Settled, Unsent

\* Every step keeps the invariant, part by part.
LEMMA NextHolds == IInv /\ [Next]_vars => IInv'
<1> SUFFICES ASSUME IInv, [Next]_vars PROVE IInv'
  OBVIOUS
<1>1. TablesOK /\ CallsOK /\ JobsOK /\ RouteInv /\ ExclusiveInv /\ CallsInv
  BY DEF IInv, TypeOK
<1> SUFFICES Routes' /\ CallsOK' /\ JobsOK' /\ CallsInv'
  BY DEF IInv, TypeOK, Routes
<1>2. CASE UNCHANGED vars
  <2>1. UNCHANGED <<cell, rack, order, draft, call, copies, remote, job, rcsPos>>
    BY <1>2 DEF vars, inventoryVars, tableVars, clientVars, syncVars
  <2> QED BY <1>1, <2>1, StillRoutes, StillJobs, StillCalls
<1>3. CASE InventoryStep /\ UNCHANGED syncVars
  <2>1. UNCHANGED <<job, rcsPos>>
    BY <1>3 DEF syncVars
  <2> QED BY <1>1, <1>3, <2>1, InventoryRoutes, InventoryCalls, StillJobs
<1>4. CASE \E o \in Orders : CallStep(o) /\ UNCHANGED <<tableVars, draft, edits, syncVars>>
  <2>1. PICK o \in Orders : CallStep(o) /\ UNCHANGED <<tableVars, draft, edits, syncVars>>
    BY <1>4
  <2>2. UNCHANGED <<cell, rack, order, draft, job, rcsPos>>
    BY <2>1 DEF tableVars, syncVars
  <2>3. CallsOK' /\ CallsInv'
    BY <1>1, <2>1, <2>2, FailSteps, RedirectStep, AnswerStep, CopySteps DEF CallStep
  <2> QED BY <1>1, <2>2, <2>3, StillRoutes, StillJobs
<1>5. CASE \E o \in Orders : TaskEnds(o)
  <2>1. PICK o \in Orders : TaskEnds(o)
    BY <1>5
  <2>2. UNCHANGED <<cell, rack, order, draft>>
    BY <2>1 DEF TaskEnds, tableVars
  <2> QED BY <1>1, <2>1, <2>2, StillRoutes, TaskEndsStep, TaskEndsJobs
<1>6. CASE Restart
  <2>1. UNCHANGED <<cell, rack, order, draft>>
    BY <1>6 DEF Restart, tableVars
  <2> QED BY <1>1, <1>6, <2>1, StillRoutes, RestartCalls, RestartJobs
<1>7. CASE \E j \in Jobs : SyncCount(j) \/ SyncList(j) \/ SyncQuery(j) \/ SyncBind(j) \/ SyncEnd(j)
  <2>1. UNCHANGED <<cell, rack, order, draft, call, copies, remote>>
    BY <1>7 DEF SyncCount, SyncList, SyncQuery, SyncBind, SyncEnd, inventoryVars, tableVars, clientVars
  <2>2. JobsOK'
    BY <1>1, <1>7, CountStep, ListStep, QueryStep, BindStep, EndStep
  <2> QED BY <1>1, <2>1, <2>2, StillRoutes, StillCalls
<1> QED BY <1>2, <1>3, <1>4, <1>5, <1>6, <1>7 DEF Next, SyncStep

\* The inductive invariant holds in every reachable state.
THEOREM Inductive == Spec => []IInv
BY InitHolds, NextHolds, PTL DEF Spec

\* The rows, the calls and the runs are well typed, and no rack ever stands in two
\* cells, however the editor, the orders and the older endpoints interleave.
THEOREM Types == Spec => []TypeOK
<1>1. IInv => TypeOK
  BY DEF IInv
<1> QED BY <1>1, Inductive, PTL

\* As long as an order's request may still move its rack, whatever the client was told
\* of it, the order is active and its route stands (_confirmed_not_sent and
\* _guard_admin_inventory_edit).
THEOREM Routed == Spec => []RouteKept
<1>1. IInv => RouteKept
  <2> SUFFICES ASSUME IInv, NEW o \in Orders, order[o].status # "deleted", Active(o) \/ MayMove(o)
               PROVE  Active(o) /\ Placed(o)
    BY DEF RouteKept, Placed
  <2>1. order[o].status \in ActiveStatuses \cup {"none", "closed"} /\ CallInv(o) /\ copies[o] \in Nat
    BY OrderFields, CallFields DEF IInv, TypeOK, CallsInv
  <2>2. Active(o)
    <3>1. CASE order[o].status = "none"
      BY <2>1, <3>1 DEF CallInv, Unsent, MayMove, Trying, Active
    <3>2. CASE order[o].status = "closed"
      BY <2>1, <3>2 DEF CallInv, Settled, Unsent, MayMove, Trying, Active
    <3> QED BY <2>1, <3>1, <3>2 DEF Active
  <2> QED BY <2>2 DEF IInv, RouteInv
<1> QED BY <1>1, Inductive, PTL

\* The editor's save finds what its form was opened on (save_context_cell).
THEOREM NoLost == Spec => NoLostEdit
<1>1. IInv /\ [Next]_vars => [SavedFresh]_vars
  <2> SUFFICES ASSUME IInv, Next, Saves PROVE SavedFresh
    BY DEF SavedFresh
  <2>1. draft' # draft
    BY DEF Saves
  <2>2. InventoryStep
    BY <2>1 DEF Next, SyncStep, SyncCount, SyncList, SyncQuery, SyncBind, SyncEnd, TaskEnds, Restart, inventoryVars
  <2>3. PICK r \in Racks \cup {NoRack}, what \in SUBSET {"cell", "rack", "reservation"} : SaveCell(r, what)
    <3>1. ASSUME NEW k \in Cells, NEW r \in Racks \cup {NoRack}, OpenCell(k, r) PROVE FALSE
      <4>1. draft'.open = TRUE
        BY <3>1 DEF OpenCell
      <4> QED BY <4>1 DEF Saves
    <3>2. CASE \E o \in Orders : \/ \E s, d \in Cells : Create(o, s, d)
                                 \/ Dispatch(o) \/ StoreResult(o) \/ Rollback(o) \/ CancelFails(o) \/ Complete(o)
      BY <2>1, <3>2 DEF Create, Dispatch, StoreResult, Rollback, CancelFails, Complete
    <3>3. CASE DeleteWindow \/ \E r \in Racks : ReserveRack(r) \/ \E s \in {"available", "reserved"} : UpdateRack(r, s)
      BY <2>1, <3>3 DEF DeleteWindow, ReserveRack, UpdateRack
    <3>4. ASSUME NEW k \in Cells, NEW r \in Racks \cup {NoRack}, NEW others \in BOOLEAN, PutLocation(k, r, others)
          PROVE  FALSE
      BY <2>1, <3>4 DEF PutLocation
    <3> QED BY <2>2, <3>1, <3>2, <3>3, <3>4 DEF InventoryStep
  <2> DEFINE c == draft.cell
             now == cell[c].rack
             R == {now, r} \ {NoRack}
  <2>4. c \in Cells /\ cell \in [Cells -> CellRows]
    BY DEF IInv, TypeOK, TablesOK, Saves
  <2>5. /\ cell[c] = draft.row /\ R \subseteq DOMAIN draft.racks
        /\ \A q \in R : RackFingerprint(q) = draft.racks[q]
        /\ cell' = [cell EXCEPT ![c] = [rack |-> r, ver |-> cell[c].ver + 1]] \/ (cell' = cell /\ r = now)
    BY <2>3, <2>4 DEF SaveCell
  <2>6. cell'[c].rack = r
    BY <2>4, <2>5
  <2>7. \A q \in R : rack[q] = draft.racks[q][1] /\ CellOf(q) = draft.racks[q][2]
    BY <2>5 DEF RackFingerprint
  <2> QED BY <2>5, <2>6, <2>7 DEF SavedFresh
<1> QED BY <1>1, Inductive, PTL DEF Spec, NoLostEdit

-----------------------------------------------------------------------------
(* Runs against the inventory and the RCS: what a run found holds, or some *)
(* list shows that things have changed since.                              *)

\* Only tasks that have ended had ended when a list was read.
SeenInv == \A seen \in lists : seen.ended \subseteq Ended

\* Some list differs from the run's, or a task has ended since one was read.
Superseded(j) == \E seen \in lists : seen.rows # job[j].list \/ seen.ended # Ended

\* A run has its list from the rows, with a rack at most once.
HasRead(j) ==
  /\ \E seen \in lists : seen.rows = job[j].list
  /\ \A c \in DOMAIN job[j].list : job[j].list[c].rack \in Racks
  /\ \A c, d \in DOMAIN job[j].list : job[j].list[c].rack = job[j].list[d].rack => c = d

\* What it found right is right still.
StandsAt(j, c) == rcsPos[job[j].list[c].rack] = c
HasFound(j) ==
  /\ DOMAIN job[j].found = DOMAIN job[j].list
  /\ \A c \in DOMAIN job[j].list :
       job[j].found[c] \in {"match", "bind_ok"} => StandsAt(j, c) \/ Superseded(j)

RunInv(j) ==
  /\ job[j].at \in {"listed", "compared", "bound", "ended"} => HasRead(j)
  /\ job[j].at \in {"compared", "bound", "ended"} => HasFound(j)
RunsInv == SeenInv /\ \A j \in Jobs : RunInv(j)

\* A run that no step touches.
LEMMA RunFrame ==
  ASSUME NEW j \in Jobs, RunInv(j), job'[j] = job[j], lists \subseteq lists', Ended' = Ended,
         \A c \in DOMAIN job[j].list :
           HasRead(j) /\ StandsAt(j, c) => StandsAt(j, c)' \/ Superseded(j)'
  PROVE  RunInv(j)'
<1>1. HasRead(j) => HasRead(j)'
  BY DEF HasRead
<1>2. Superseded(j) => Superseded(j)'
  BY DEF Superseded
<1>3. HasRead(j) /\ HasFound(j) => HasFound(j)'
  BY <1>2 DEF HasFound
<1> QED BY <1>1, <1>3 DEF RunInv

\* Neither does one that leaves the RCS and the runs alone.
LEMMA StillRuns ==
  ASSUME RunsInv, UNCHANGED <<job, rcsPos, lists>>, Ended' = Ended
  PROVE  RunsInv'
<1>1. SeenInv'
  BY DEF RunsInv, SeenInv
<1>2. ASSUME NEW j \in Jobs PROVE RunInv(j)'
  BY RunFrame DEF RunsInv, StandsAt
<1> QED BY <1>1, <1>2 DEF RunsInv

\* A run that has just begun, or was cut short.
LEMMA NewRun ==
  ASSUME NEW j \in Jobs, job'[j].at \in {"idle", "counted"}
  PROVE  RunInv(j)'
BY DEF RunInv

\* One run takes a step.
LEMMA OneRun ==
  ASSUME JobsOK, NEW j \in Jobs, NEW q, job' = [job EXCEPT ![j] = q]
  PROVE  job'[j] = q /\ \A i \in Jobs \ {j} : job'[i] = job[i]
BY DEF JobsOK

\* It counts the orders.
LEMMA CountRuns ==
  ASSUME JobsOK, RunsInv, NEW j \in Jobs, SyncCount(j)
  PROVE  RunsInv'
<1> DEFINE busy == \E o \in Orders : Counted(o)
           q == [NoJob EXCEPT !.at = "counted", !.busy = busy]
<1>1. job' = [job EXCEPT ![j] = q] /\ UNCHANGED <<rcsPos, lists, remote>>
  BY DEF SyncCount, inventoryVars, clientVars
<1>2. q.at = "counted" 
  BY DEF NoJob
<1> HIDE DEF q
<1>3. job'[j].at = "counted" /\ \A i \in Jobs \ {j} : job'[i] = job[i]
  BY <1>1, <1>2, OneRun
<1>4. Ended' = Ended
  BY <1>1 DEF Ended
<1>5. ASSUME NEW i \in Jobs PROVE RunInv(i)'
  <2>1. CASE i = j BY <1>3, <2>1, NewRun
  <2>2. CASE i # j BY <1>1, <1>3, <1>4, <2>2, RunFrame DEF RunsInv, StandsAt
  <2> QED BY <2>1, <2>2
<1> QED BY <1>1, <1>4, <1>5 DEF RunsInv, SeenInv

\* It reads the rows, where no rack stands twice.
LEMMA ListRuns ==
  ASSUME TablesOK, JobsOK, RunsInv, NEW j \in Jobs, SyncList(j)
  PROVE  RunsInv'
<1> DEFINE now == [rows |-> Rows, ended |-> Ended]
           q == [job[j] EXCEPT !.at = "listed", !.list = Rows]
<1>1. PICK C \in SUBSET Cells, D \in SUBSET Cells : job[j] \in Runs(C, D)
  BY DEF JobsOK
<1>2. q.at = "listed" /\ q.list = Rows
  BY <1>1, JobFields DEF Runs
<1>3. job' = [job EXCEPT ![j] = q] /\ UNCHANGED <<rcsPos, remote>> /\ lists' = lists \cup {now}
  BY DEF SyncList, inventoryVars, clientVars, JobsOK
<1> HIDE DEF q
<1>4. job'[j].at = "listed" /\ job'[j].list = Rows /\ \A i \in Jobs \ {j} : job'[i] = job[i]
  BY <1>2, <1>3, OneRun
<1>5. Ended' = Ended
  BY <1>3 DEF Ended
<1>6. HasRead(j)'
  <2>1. /\ \A c \in DOMAIN Rows : Rows[c].rack \in Racks
        /\ \A c, d \in DOMAIN Rows : Rows[c].rack = Rows[d].rack => c = d
    BY DEF Rows, TablesOK, CellRows
  <2>2. now \in lists' /\ now.rows = Rows
    BY <1>3
  <2> QED BY <1>4, <2>1, <2>2 DEF HasRead
<1>7. ASSUME NEW i \in Jobs PROVE RunInv(i)'
  <2>1. CASE i = j BY <1>4, <1>6, <2>1 DEF RunInv
  <2>2. CASE i # j BY <1>3, <1>4, <1>5, <2>2, RunFrame DEF RunsInv, StandsAt
  <2> QED BY <2>1, <2>2
<1>8. SeenInv'
  BY <1>3, <1>5 DEF RunsInv, SeenInv
<1> QED BY <1>7, <1>8 DEF RunsInv

\* It compares them with what the RCS has.
LEMMA QueryRuns ==
  ASSUME JobsOK, RunsInv, NEW j \in Jobs, SyncQuery(j)
  PROVE  RunsInv'
<1>1. PICK C \in SUBSET Cells, D \in SUBSET Cells : job[j] \in Runs(C, D)
  BY DEF JobsOK
<1>2. DOMAIN job[j].list = C
  BY <1>1, JobFields
<1>3. PICK failed \in SUBSET C :
        job' = [job EXCEPT ![j].at = "compared", ![j].found =
                  [c \in C |-> IF c \in failed THEN "query_error" ELSE QueryStatus(job[j].list[c].rack, c)]]
  BY <1>2 DEF SyncQuery
<1> DEFINE f == [c \in C |-> IF c \in failed THEN "query_error" ELSE QueryStatus(job[j].list[c].rack, c)]
           q == [job[j] EXCEPT !.at = "compared", !.found = f]
<1>4. \A c \in C : f[c] \in {"match", "bind_ok"} => StandsAt(j, c)
  BY DEF QueryStatus, StandsAt
<1>5. DOMAIN f = C
  OBVIOUS
<1>6. job' = [job EXCEPT ![j] = q] /\ UNCHANGED <<rcsPos, remote, lists>>
  BY <1>3 DEF SyncQuery, JobsOK, inventoryVars, clientVars
<1> HIDE DEF f
<1>7. q.at = "compared" /\ q.found = f /\ q.list = job[j].list
  BY <1>1, JobFields DEF Runs
<1> HIDE DEF q
<1>8. /\ job'[j].at = "compared" /\ job'[j].list = job[j].list /\ job'[j].found = f
      /\ \A i \in Jobs \ {j} : job'[i] = job[i]
  BY <1>6, <1>7, OneRun
<1>9. Ended' = Ended
  BY <1>6 DEF Ended
<1>10. RunInv(j)'
  <2>1. HasRead(j)'
    <3>1. HasRead(j)
      BY DEF RunsInv, RunInv, SyncQuery
    <3> QED BY <1>6, <1>8, <3>1 DEF HasRead
  <2>2. HasFound(j)'
    BY <1>2, <1>4, <1>5, <1>6, <1>8 DEF HasFound, StandsAt
  <2> QED BY <2>1, <2>2 DEF RunInv
<1>11. ASSUME NEW i \in Jobs PROVE RunInv(i)'
  <2>1. CASE i # j BY <1>6, <1>8, <1>9, <2>1, RunFrame DEF RunsInv, StandsAt
  <2> QED BY <1>10, <2>1
<1> QED BY <1>6, <1>9, <1>11 DEF RunsInv, SeenInv

\* It binds the racks of its list to their cells: a run with the same list finds
\* them there, one with another list is superseded.
LEMMA BindRuns ==
  ASSUME JobsOK, RunsInv, NEW k \in Jobs, SyncBind(k)
  PROVE  RunsInv'
<1>1. PICK C \in SUBSET Cells, D \in SUBSET Cells : job[k] \in Runs(C, D)
  BY DEF JobsOK
<1> DEFINE L == job[k].list
           wrong == {c \in DOMAIN L : job[k].found[c] = "mismatch"}
<1>0. PICK status \in [wrong -> {"bind_ok", "bind_rejected", "bind_error"}] :
      \E lost \in SUBSET {c \in wrong : status[c] = "bind_error"} :
        LET bound == {c \in wrong : status[c] = "bind_ok"} \cup lost
            at(r) == {c \in bound : L[c].rack = r}
        IN  /\ rcsPos' = [r \in Racks |-> IF at(r) # {} THEN CHOOSE c \in at(r) : TRUE ELSE rcsPos[r]]
            /\ job' = [job EXCEPT ![k].at = "bound", ![k].found =
                        [c \in DOMAIN @ |-> IF c \in wrong THEN status[c] ELSE @[c]]]
  BY DEF SyncBind
<1>2. PICK lost \in SUBSET {c \in wrong : status[c] = "bind_error"} :
        LET bound == {c \in wrong : status[c] = "bind_ok"} \cup lost
            at(r) == {c \in bound : L[c].rack = r}
        IN  /\ rcsPos' = [r \in Racks |-> IF at(r) # {} THEN CHOOSE c \in at(r) : TRUE ELSE rcsPos[r]]
            /\ job' = [job EXCEPT ![k].at = "bound", ![k].found =
                        [c \in DOMAIN @ |-> IF c \in wrong THEN status[c] ELSE @[c]]]
  BY <1>0
<1> DEFINE bound == {c \in wrong : status[c] = "bind_ok"} \cup lost
           at(r) == {c \in bound : L[c].rack = r}
           f == [c \in DOMAIN L |-> IF c \in wrong THEN status[c] ELSE job[k].found[c]]
           q == [job[k] EXCEPT !.at = "bound", !.found = f]
<1>3. HasRead(k) /\ HasFound(k) /\ DOMAIN job[k].found = DOMAIN L
  BY DEF SyncBind, RunsInv, RunInv, HasFound
<1>4. rcsPos' = [r \in Racks |-> IF at(r) # {} THEN CHOOSE c \in at(r) : TRUE ELSE rcsPos[r]]
  BY <1>2
<1>5. job' = [job EXCEPT ![k] = q] /\ UNCHANGED <<remote, lists>>
  BY <1>2, <1>3 DEF SyncBind, JobsOK, inventoryVars, clientVars
<1>6. DOMAIN f = DOMAIN L /\ \A c \in DOMAIN L : f[c] = IF c \in wrong THEN status[c] ELSE job[k].found[c]
  OBVIOUS
<1> HIDE DEF f
<1>7. q.at = "bound" /\ q.found = f /\ q.list = L
  BY <1>1, JobFields DEF Runs
<1> HIDE DEF q
<1>8. /\ job'[k].at = "bound" /\ job'[k].list = L /\ job'[k].found = f
      /\ \A i \in Jobs \ {k} : job'[i] = job[i]
  <2>1. job'[k] = q /\ \A i \in Jobs \ {k} : job'[i] = job[i]
    BY <1>5, OneRun
  <2> QED BY <1>7, <2>1
<1>9. Ended' = Ended
  BY <1>5 DEF Ended
<1>10. ASSUME NEW c \in DOMAIN L
       PROVE  /\ L[c].rack \in Racks
              /\ rcsPos'[L[c].rack] = c \/ (c \notin bound /\ rcsPos'[L[c].rack] = rcsPos[L[c].rack])
  <2>1. L[c].rack \in Racks /\ \A d \in bound : L[d].rack = L[c].rack => d = c
    BY <1>3 DEF HasRead
  <2>2. at(L[c].rack) = IF c \in bound THEN {c} ELSE {}
    BY <2>1
  <2> HIDE DEF at, bound
  <2>3. CASE c \in bound
    <3>1. (CHOOSE d \in {c} : TRUE) = c
      OBVIOUS
    <3> QED BY <1>4, <2>1, <2>2, <2>3, <3>1
  <2> QED BY <1>4, <2>1, <2>2, <2>3
<1> HIDE DEF at
<1>11. RunInv(k)'
  <2>1. HasRead(k)'
    BY <1>3, <1>5, <1>8 DEF HasRead
  <2>2. Superseded(k) => Superseded(k)'
    BY <1>5, <1>8, <1>9 DEF Superseded
  <2>3. ASSUME NEW c \in DOMAIN L, f[c] \in {"match", "bind_ok"}
        PROVE  rcsPos'[L[c].rack] = c \/ Superseded(k)
    <3>1. CASE c \in wrong
      <4>1. c \in bound
        BY <1>6, <2>3, <3>1
      <4> QED BY <1>10, <4>1
    <3>2. CASE c \notin wrong
      <4>1. rcsPos[L[c].rack] = c \/ Superseded(k)
        BY <1>3, <1>6, <2>3, <3>2 DEF HasFound, StandsAt
      <4> QED BY <1>10, <4>1
    <3> QED BY <3>1, <3>2
  <2>4. HasFound(k)'
    BY <1>6, <1>8, <2>2, <2>3 DEF HasFound, StandsAt
  <2> QED BY <2>1, <2>4 DEF RunInv
<1>12. ASSUME NEW i \in Jobs, i # k PROVE RunInv(i)'
  <2>1. ASSUME NEW c \in DOMAIN job[i].list, HasRead(i), StandsAt(i, c)
        PROVE  StandsAt(i, c)' \/ Superseded(i)'
    <3>1. CASE job[i].list = L
      BY <1>8, <1>10, <1>12, <2>1, <3>1 DEF StandsAt
    <3>2. CASE job[i].list # L
      BY <1>3, <1>5, <1>8, <1>12, <3>2 DEF HasRead, Superseded
    <3> QED BY <3>1, <3>2
  <2> QED BY <1>5, <1>8, <1>9, <1>12, <2>1, RunFrame DEF RunsInv
<1> QED BY <1>5, <1>9, <1>11, <1>12 DEF RunsInv, SeenInv

\* It ends.
LEMMA EndRuns ==
  ASSUME JobsOK, RunsInv, NEW j \in Jobs, SyncEnd(j)
  PROVE  RunsInv'
<1>1. PICK C \in SUBSET Cells, D \in SUBSET Cells : job[j] \in Runs(C, D)
  BY DEF JobsOK
<1> DEFINE q == [job[j] EXCEPT !.at = "ended"]
<1>2. q.at = "ended" /\ q.list = job[j].list /\ q.found = job[j].found
  BY <1>1, JobFields DEF Runs
<1>3. job' = [job EXCEPT ![j] = q] /\ UNCHANGED <<rcsPos, remote, lists>>
  BY DEF SyncEnd, JobsOK, inventoryVars, clientVars
<1> HIDE DEF q
<1>4. /\ job'[j].list = job[j].list /\ job'[j].found = job[j].found
      /\ \A i \in Jobs \ {j} : job'[i] = job[i]
  BY <1>2, <1>3, OneRun
<1>5. Ended' = Ended
  BY <1>3 DEF Ended
<1>6. RunInv(j)'
  BY <1>3, <1>4, <1>5 DEF SyncEnd, RunsInv, RunInv, HasRead, HasFound, StandsAt, Superseded
<1>7. ASSUME NEW i \in Jobs, i # j PROVE RunInv(i)'
  BY <1>3, <1>4, <1>5, <1>7, RunFrame DEF RunsInv, StandsAt
<1> QED BY <1>3, <1>5, <1>6, <1>7 DEF RunsInv, SeenInv

\* A restart.
LEMMA RestartRuns ==
  ASSUME JobsOK, RunsInv, Restart
  PROVE  RunsInv'
<1>1. /\ job' = [j \in Jobs |-> IF job[j].at = "ended" THEN job[j] ELSE NoJob]
      /\ UNCHANGED <<rcsPos, lists, remote>>
  BY DEF Restart
<1>2. Ended' = Ended
  BY <1>1 DEF Ended
<1>3. ASSUME NEW j \in Jobs PROVE RunInv(j)'
  <2>1. CASE job'[j] = NoJob
    BY <2>1, NewRun DEF NoJob
  <2>2. CASE job'[j] = job[j]
    BY <1>1, <1>2, <2>2, RunFrame DEF RunsInv, StandsAt
  <2> QED BY <1>1, <2>1, <2>2
<1> QED BY <1>1, <1>2, <1>3 DEF RunsInv, SeenInv

\* A task that ends supersedes every run that has read.
LEMMA TaskEndsRuns ==
  ASSUME CallsOK, RunsInv, NEW o \in Orders, TaskEnds(o)
  PROVE  RunsInv'
<1>1. /\ remote[o] = "live" /\ remote' = [remote EXCEPT ![o] = "over"]
      /\ UNCHANGED <<job, lists>>
  BY DEF TaskEnds
<1>2. remote'[o] = "over" /\ \A p \in Orders \ {o} : remote'[p] = remote[p]
  BY <1>1 DEF CallsOK
<1>3. Ended \subseteq Ended' /\ o \in Ended' /\ o \notin Ended
  BY <1>1, <1>2 DEF Ended
<1>4. SeenInv'
  BY <1>1, <1>3 DEF RunsInv, SeenInv
<1>5. ASSUME NEW j \in Jobs PROVE RunInv(j)'
  <2>1. HasRead(j) => HasRead(j)' /\ Superseded(j)'
    <3> SUFFICES ASSUME HasRead(j) PROVE HasRead(j)' /\ Superseded(j)'
      OBVIOUS
    <3>1. PICK seen \in lists : seen.rows = job[j].list
      BY DEF HasRead
    <3>2. seen.ended # Ended'
      BY <1>3 DEF RunsInv, SeenInv
    <3> QED BY <1>1, <3>1, <3>2 DEF HasRead, Superseded
  <2>2. HasRead(j) /\ HasFound(j) => HasFound(j)'
    BY <1>1, <2>1 DEF HasFound
  <2> QED BY <1>1, <2>1, <2>2 DEF RunsInv, RunInv
<1> QED BY <1>4, <1>5 DEF RunsInv

\* No answer, and no copy that arrives, ends a task.
LEMMA CallsEnd ==
  ASSUME CallsOK, NEW o \in Orders, CallStep(o)
  PROVE  Ended' = Ended
<1>1. \/ remote' = remote
      \/ \E verdict \in Verdicts(o) : remote' = [remote EXCEPT ![o] = verdict]
  BY DEF CallStep, ConnectFails, AnswerLost, Redirected, Answered, CopyArrives, CopyLost
<1>2. ASSUME NEW verdict \in Verdicts(o), remote' = [remote EXCEPT ![o] = verdict]
      PROVE  Ended' = Ended
  <2>1. verdict = "over" <=> remote[o] = "over"
    BY <1>2 DEF Verdicts
  <2>2. \A p \in Orders : remote'[p] = "over" <=> remote[p] = "over"
    BY <1>2, <2>1 DEF CallsOK
  <2> QED BY <2>2 DEF Ended
<1> QED BY <1>1, <1>2 DEF Ended

\* The steps of the tables end none either.
LEMMA TablesEnd ==
  ASSUME InventoryStep
  PROVE  remote' = remote
<1>1. CASE \E r \in Racks \cup {NoRack}, what \in SUBSET {"cell", "rack", "reservation"} : SaveCell(r, what)
  <2>1. PICK r \in Racks \cup {NoRack}, what \in SUBSET {"cell", "rack", "reservation"} : SaveCell(r, what)
    BY <1>1
  <2> QED BY <2>1 DEF SaveCell, clientVars
<1>2. CASE \E o \in Orders : \/ \E s, d \in Cells : Create(o, s, d)
                             \/ Dispatch(o) \/ StoreResult(o) \/ Rollback(o) \/ CancelFails(o) \/ Complete(o)
  BY <1>2 DEF Create, Dispatch, StoreResult, Rollback, CancelFails, Complete, clientVars
<1>3. CASE DeleteWindow \/ \E r \in Racks : ReserveRack(r) \/ \E s \in {"available", "reserved"} : UpdateRack(r, s)
  BY <1>3 DEF DeleteWindow, ReserveRack, UpdateRack, clientVars
<1>4. CASE \E c \in Cells, r \in Racks \cup {NoRack} :
             OpenCell(c, r) \/ \E others \in BOOLEAN : PutLocation(c, r, others)
  BY <1>4 DEF OpenCell, PutLocation, clientVars
<1> QED BY <1>1, <1>2, <1>3, <1>4 DEF InventoryStep

\* Every step keeps what the runs found.
LEMMA RunsHold == IInv /\ RunsInv /\ [Next]_vars => RunsInv'
<1> SUFFICES ASSUME IInv, RunsInv, [Next]_vars PROVE RunsInv'
  OBVIOUS
<1>1. TablesOK /\ CallsOK /\ JobsOK
  BY DEF IInv, TypeOK
<1>2. CASE UNCHANGED vars
  <2>1. UNCHANGED <<remote, job, rcsPos, lists>>
    BY <1>2 DEF vars, inventoryVars, clientVars, syncVars
  <2> QED BY <2>1, StillRuns DEF Ended
<1>3. CASE InventoryStep /\ UNCHANGED syncVars
  BY <1>3, TablesEnd, StillRuns DEF syncVars, Ended
<1>4. CASE \E o \in Orders : CallStep(o) /\ UNCHANGED <<tableVars, draft, edits, syncVars>>
  BY <1>1, <1>4, CallsEnd, StillRuns DEF syncVars
<1>5. CASE SyncStep
  BY <1>1, <1>5, CountRuns, ListRuns, QueryRuns, BindRuns, EndRuns, TaskEndsRuns, RestartRuns DEF SyncStep
<1> QED BY <1>2, <1>3, <1>4, <1>5 DEF Next

\* What a finished run reports as right stands where the inventory has it, as long as
\* the inventory is what every run read and no task has ended since
\* (_query_rack_sync_comparison, _bind_rack_sync_mismatches).
THEOREM Aligned == Spec => []SyncAligns
<1>1. Init => RunsInv
  BY DEF Init, RunsInv, SeenInv, RunInv, NoJob
<1>2. RunsInv => SyncAligns
  <2> SUFFICES ASSUME RunsInv, AsListed, NEW j \in Jobs, job[j].at = "ended",
                      NEW c \in DOMAIN job[j].list, job[j].found[c] \in {"match", "bind_ok"}
               PROVE  rcsPos[cell[c].rack] = c
    BY DEF SyncAligns
  <2>1. HasRead(j) /\ HasFound(j)
    BY DEF RunsInv, RunInv
  <2>2. job[j].list = Rows
    BY <2>1 DEF HasRead, AsListed
  <2>3. ~Superseded(j)
    BY <2>2 DEF Superseded, AsListed
  <2>4. rcsPos[job[j].list[c].rack] = c
    BY <2>1, <2>3 DEF HasFound, StandsAt
  <2> QED BY <2>2, <2>4 DEF Rows
<1>3. IInv /\ RunsInv /\ [Next]_vars => IInv' /\ RunsInv'
  BY NextHolds, RunsHold
<1> QED BY InitHolds, <1>1, <1>2, <1>3, PTL DEF Spec
====
