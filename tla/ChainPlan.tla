------------------------------ MODULE ChainPlan ------------------------------
(***************************************************************************)
(* The preview of a fifo_chain and what becomes of it.  Before the first   *)
(* order exists, scanner_service.py plays the legs one after another on a  *)
(* copy of the floor: occupancy, materials and states as each leg would    *)
(* leave them.  Then the legs are really run, one at a time and each with  *)
(* a selection of its own (fifo_chain_service.py, fifo_service.py), while  *)
(* other operators move racks.                                             *)
(*                                                                         *)
(* Racks and cells are numbered in the order the queries return them: a    *)
(* rack by the time it came in, a cell by row and column.  An end of a leg *)
(* is a cell, an area, a list of areas in order, or any area.              *)
(***************************************************************************)
EXTENDS TransitionRules, Sequences, Functions

CONSTANTS
  Racks,        \* 1, 2, ... in FIFO order
  Hidden,       \* enabled cells that the layout does not show
  AllAreas,     \* the sequence of the areas by id
  Unassigned,   \* the material SIN_MATERIAL, which an empty field stands for too
  Floors,       \* the floors a preview may find: [at, mat, stat]
  Plans,        \* the chains a label may ask for: [legs, sameCell]
  Tables,       \* the tables of transition rules
  Others,       \* another operator's orders open at the preview, None for none
  MaxOutside    \* how often others act once the chain is previewed

ASSUME ChainPlanAssumption ==
  /\ Racks \subseteq Nat /\ Cells \subseteq Nat /\ None \notin Racks
  /\ Hidden \subseteq Cells
  /\ \A p \in Plans : Len(p.legs) \in 2 .. 5

VARIABLES
  floor,      \* at: the rack of each cell; mat and stat: of each rack
  plan,       \* the chain the label asks for
  table,      \* the rules in force
  out,        \* the other operator's open order
  promised,   \* what the preview answered: a move for each leg
  made,       \* the orders of the chain
  pick,       \* the move the next leg has settled on
  phase,      \* where the chain stands
  arrived,    \* the rack whose order the monitor has yet to close
  outside,    \* what others did since the preview
  away        \* the racks others have moved since the pick was made (history)

vars == <<floor, plan, table, out, promised, made, pick, phase, arrived, outside, away>>

Ready    == {"available", "disponible"}
Barred   == {"reserved", "reservado", "inactive", "inactivo", "disabled", "deshabilitado"}
Shown    == Cells \ Hidden
Move     == [rack : Racks, src : Cells, dst : Cells]

\* A rack stands in one cell at most (the unique column of models.py:95).
ASSUME FloorsAssumption ==
  \A f \in Floors :
    /\ f = [at |-> f.at, mat |-> f.mat, stat |-> f.stat]
    /\ f.at \in [Cells -> Racks \cup {None}] /\ DOMAIN f.mat = Racks /\ DOMAIN f.stat = Racks
    /\ \A c, d \in Cells : f.at[c] = f.at[d] /\ f.at[c] # None => c = d

\* The ends a label may name: a configured cell is one of the layout's, and a list
\* names an area once (scanner_service.py:766).
Ends == [mode : {"cell", "area", "areas", "any"}, cell : Cells \cup {None},
         areas : Seq(Range(AllAreas))]
EndOK(end) ==
  /\ end \in Ends /\ IsInjective(end.areas)
  /\ end.mode = "cell" => end.cell \in Cells
  /\ end.mode = "area" => Len(end.areas) = 1

ASSUME PlansAssumption ==
  /\ AllAreas \in Seq(Range(AllAreas))
  /\ \A p \in Plans : p.legs \in Seq(Range(p.legs))
  /\ \A p \in Plans, k \in 1 .. 5 : k <= Len(p.legs) =>
       /\ p.legs[k] = [from |-> p.legs[k].from, mat |-> p.legs[k].mat, to |-> p.legs[k].to]
       /\ EndOK(p.legs[k].from) /\ EndOK(p.legs[k].to)
  /\ IsInjective(AllAreas)

\* A rule in force is one an administrator may send.
ASSUME TablesAssumption == Tables \subseteq Seq(Payloads)

\* Orders of others, before the chain; an order is no null value.
ASSUME OthersAssumption ==
  /\ Others \subseteq {None} \cup [rack : Racks, src : Cells, dst : Cells, status : STRING]
  /\ None \notin Move

\* The areas an end allows, in the order they are tried.
AreasOf(end)  == IF end.mode = "any" THEN AllAreas ELSE end.areas
Within(end)   == IF end.mode = "cell" THEN {end.cell}
                 ELSE {c \in Cells : AreaOf[c] \in Range(AreasOf(end))}
Turn(end, c)  == IF end.mode = "cell" THEN 0
                 ELSE CHOOSE i \in DOMAIN AreasOf(end) : AreasOf(end)[i] = AreaOf[c]

Least(S)      == CHOOSE n \in S : \A m \in S : n <= m
First(end, S) == LET t == Least({Turn(end, c) : c \in S})
                 IN Least({c \in S : Turn(end, c) = t})

\* Of the cells S, the one whose rack came in first.
Eldest(S, at) == CHOOSE c \in S : at[c] = Least({at[d] : d \in S})

\* Mutant: the cell the rack leaves stays taken.
PutAlso(at, m) == [at EXCEPT ![m.dst] = m.rack]
Put(at, m)    == [[at EXCEPT ![m.src] = None] EXCEPT ![m.dst] = m.rack]
\* Every leg of the chain inherits the label and the station of its scan.
Context(m, mat, stat) ==
  [scanned |-> TRUE, qr |-> plan.qr, station |-> plan.station,
   mat |-> mat, status |-> stat, src |-> m.src, dst |-> m.dst]

Unscanned(ctx) == [ctx EXCEPT !.scanned = FALSE, !.qr = None, !.station = None]

\* What a rule makes of a rack; without a rule, nothing.
After(i, mat, stat) ==
  IF i = 0 THEN <<mat, stat>>
  ELSE <<IF table[i].nextMat = None THEN mat ELSE table[i].nextMat,
         IF table[i].nextStatus = None THEN stat ELSE table[i].nextStatus>>

ActiveRules == {i \in DOMAIN table : table[i].active}

-----------------------------------------------------------------------------
(* The preview: _validate_fifo_chain_projected_state *)

\* The queries of the preview look for three statuses: an order whose
\* cancellation was asked for is not among them.
SeenStatuses == {"pending_dispatch", "dispatched", "in_progress"}
Seen         == out # None /\ out.status \in SeenStatuses
BusyRacks    == IF Seen THEN {out.rack} ELSE {}
BookedCells  == IF Seen THEN {out.dst} ELSE {}

ProjectedSources(leg, w) ==
  {c \in Shown \cap Within(leg.from) :
     LET r == w.at[c] IN
     /\ r # None
     /\ r \notin BusyRacks /\ w.stat[r] \notin Barred
     /\ w.mat[r] = leg.mat}

\* A cell that is free on the copy, another than the source; failing that the
\* source itself when the label allows it.
ProjectedTargets(leg, src, w) ==
  LET candidates == (Shown \cap Within(leg.to)) \ BookedCells
      free       == {c \in candidates : c # src /\ w.at[c] = None}
  IN IF free # {} THEN free
     ELSE IF plan.sameCell THEN candidates \cap {src} ELSE {}

\* _virtual_transition_for_fifo_chain_step takes the first of the ranking, even
\* when another of equal rank would give something else.
VirtualRule(m, mat, stat) ==
  LET tied == Tied(table, ActiveRules, Context(m, mat, stat))
  IN IF tied = {} THEN 0 ELSE Least(tied)

\* The copy once the move is made: what stood where, and what a rule made of it.
Played(w, m) ==
  LET after == After(VirtualRule(m, w.mat[m.rack], w.stat[m.rack]), w.mat[m.rack], w.stat[m.rack])
  IN [ok |-> TRUE, moves |-> Append(w.moves, m), at |-> Put(w.at, m),
      mat |-> [w.mat EXCEPT ![m.rack] = after[1]], stat |-> [w.stat EXCEPT ![m.rack] = after[2]]]

\* One leg on the copy w.
ProjectLeg(leg, w) ==
  LET sources == ProjectedSources(leg, w)
      src     == Eldest(sources, w.at)
      targets == ProjectedTargets(leg, src, w)
  IN IF sources = {} \/ targets = {} THEN [w EXCEPT !.ok = FALSE]
     ELSE Played(w, [rack |-> w.at[src], src |-> src, dst |-> First(leg.to, targets)])

\* The copy of the floor, before the first leg.
Copy == [ok |-> TRUE, moves |-> <<>>, at |-> floor.at, mat |-> floor.mat, stat |-> floor.stat]

\* Mutant: each leg is tried on the floor as it is, not as the last one leaves it.
ForgetfulProjection(legs) ==
  LET w == [k \in DOMAIN legs |-> ProjectLeg(legs[k], Copy)]
  IN [ok    |-> \A k \in DOMAIN legs : w[k].ok,
      moves |-> [k \in DOMAIN legs |-> IF w[k].ok THEN w[k].moves[1] ELSE None]]

\* The first leg that does not fit ends the projection.
ProjectNext(leg, w) == IF w.ok THEN ProjectLeg(leg, w) ELSE w

Projection(legs) ==
  LET w[k \in 0 .. Len(legs)] == IF k = 0 THEN Copy ELSE ProjectNext(legs[k], w[k-1])
  IN w[Len(legs)]

-----------------------------------------------------------------------------
(* The orders: what each leg selects when its time comes *)

Open     == IF phase = "moving" THEN {made[Len(made)]} ELSE {}
Active   == Open \cup {o \in {out} : o # None}
Reserved == {o.dst : o \in Active}

\* The empty material group also finds the racks without one, in one area.
Carries(r, m)  == floor.mat[r] = m \/ (m = Unassigned /\ floor.mat[r] = None)
ReadyAt(c)     == floor.at[c] # None /\ floor.stat[floor.at[c]] \in Ready
MoveFrom(c, d) == [rack |-> floor.at[c], src |-> c, dst |-> d]
Oldest(cells)  == Eldest(cells, floor.at)

\* resolve_fifo_request_by_material_any_area and ..._selected_areas for a list,
\* _select_rack_for_next_step and _find_fifo_candidate for the configured end.
Sources(end, m) ==
  CASE end.mode \in {"any", "areas"} ->
         {c \in Shown \cap Within(end) :
            ReadyAt(c) /\ floor.mat[floor.at[c]] = m
            /\ \A o \in Active : o.rack # floor.at[c]}
    [] end.mode = "area" -> {c \in Within(end) : ReadyAt(c) /\ Carries(floor.at[c], m)}
    [] end.mode = "cell" -> {c \in {end.cell} : ReadyAt(c) /\ floor.mat[floor.at[c]] = m}

\* A free cell of the first area that has one; a label that allows the same cell
\* settles for the source as soon as its area is full.
FreeIn(i, end, src, taken) ==
  LET area == {c \in Shown : AreaOf[c] = AreasOf(end)[i]}
      free == {c \in area : floor.at[c] = None /\ c \notin taken}
  IN IF free # {} THEN free
     ELSE IF plan.sameCell THEN (area \cap {src}) \ taken ELSE {}

TargetsBeside(end, src, taken) ==
  IF end.mode = "cell"
  THEN {c \in {end.cell} \ taken : floor.at[c] = None \/ (plan.sameCell /\ c = src)}
  ELSE LET turns == {i \in DOMAIN AreasOf(end) : FreeIn(i, end, src, taken) # {}}
       IN IF turns = {} THEN {} ELSE {Least(FreeIn(Least(turns), end, src, taken))}

Targets(end, src) == TargetsBeside(end, src, Reserved)

\* The moves a leg may settle on: one, or none when it has no rack or no room.
Choices(from, m, to) ==
  LET sources == Sources(from, m)
      src     == Oldest(sources)
  IN IF sources = {} THEN {} ELSE {MoveFrom(src, d) : d \in Targets(to, src)}

\* The first leg between two configured ends is resolved by area: the cells the
\* label names for it are not looked at.
AreaEnd(end) == IF end.mode = "cell" THEN [mode |-> "area", cell |-> end.cell, areas |-> <<AreaOf[end.cell]>>]
                ELSE end
Configured(leg)   == leg.from.mode \in {"cell", "area"} /\ leg.to.mode \in {"cell", "area"}
FirstChoices(leg) ==
  IF Configured(leg) THEN Choices(AreaEnd(leg.from), leg.mat, AreaEnd(leg.to))
  ELSE Choices(leg.from, leg.mat, leg.to)

\* _resolve_entities puts what that resolution found in place of those cells.
Resolved(leg) ==
  IF ~Configured(leg) THEN {leg}
  ELSE {[leg EXCEPT !.from.cell = m.src, !.to.cell = m.dst] : m \in FirstChoices(leg)}

-----------------------------------------------------------------------------
Init ==
  /\ floor \in Floors /\ plan \in Plans /\ table \in Tables
  /\ out \in {o \in Others : o # None =>
                /\ floor.at[o.src] = o.rack /\ floor.at[o.dst] = None
                /\ floor.stat[o.rack] = "reserved"}
  /\ \A r \in Racks : floor.stat[r] = "reserved" => out # None /\ out.rack = r
  /\ promised = <<>> /\ made = <<>> /\ pick = None
  /\ phase = "scan" /\ arrived = None /\ outside = 0 /\ away = {}

\* A leg that finds no rack or no room refuses the whole scan.
Refused == phase' = "refused" /\ UNCHANGED promised

\* A scan answers with the projection; it goes on when the whole chain fits.
Preview ==
  /\ phase = "scan"
  /\ \/ \E leg \in Resolved(plan.legs[1]) :
          LET w == Projection([plan.legs EXCEPT ![1] = leg])
          IN IF w.ok THEN promised' = w.moves /\ phase' = "book" ELSE Refused
     \/ Resolved(plan.legs[1]) = {} /\ Refused
  /\ UNCHANGED <<floor, plan, table, out, made, pick, arrived, outside, away>>

Take(m) ==
  /\ made' = Append(made, m)
  /\ floor' = [floor EXCEPT !.stat[m.rack] = "reserved"]
  /\ phase' = "moving"

\* The first order is selected anew, the preview only having looked.
Book ==
  /\ phase = "book"
  /\ \/ \E m \in FirstChoices(plan.legs[1]) : Take(m)
     \/ FirstChoices(plan.legs[1]) = {} /\ phase' = "refused" /\ UNCHANGED <<floor, made>>
  /\ UNCHANGED <<plan, table, out, promised, pick, arrived, outside, away>>

\* The rack an order brought: moved, available, and as the chosen rule leaves it.
Landed(m) ==
  LET ctx   == Context(m, floor.mat[m.rack], "available")
      i     == Chosen(table, ActiveRules, IF m = out THEN Unscanned(ctx) ELSE ctx)
      after == After(i, floor.mat[m.rack], "available")
  IN [at |-> Put(floor.at, m), mat |-> [floor.mat EXCEPT ![m.rack] = after[1]],
      stat |-> [floor.stat EXCEPT ![m.rack] = after[2]]]

NextLeg == plan.legs[Len(made) + 1]

Complete ==
  /\ phase = "moving" /\ arrived = None
  /\ floor' = Landed(made[Len(made)])
  /\ arrived' = made[Len(made)].rack
  /\ phase' = IF Len(made) = Len(plan.legs) THEN "done" ELSE "choose"
  /\ UNCHANGED <<plan, table, out, promised, made, pick, outside, away>>

\* create_fifo_chain_next_step up to the second lock
Choose ==
  /\ phase = "choose"
  /\ LET moves == Choices(NextLeg.from, NextLeg.mat, NextLeg.to) IN
       \/ \E m \in moves : pick' = m /\ phase' = "claim"
       \/ moves = {} /\ phase' = "waiting" /\ UNCHANGED pick
  /\ away' = {}
  /\ UNCHANGED <<floor, plan, table, out, promised, made, arrived, outside>>

\* _claim_movement_resources.  Mutant: the cells are not looked at again.
ClaimableRack(m) == floor.stat[m.rack] \in Ready /\ \A o \in Active : o.rack # m.rack
Claimable(m) ==
  /\ floor.stat[m.rack] \in Ready /\ \A o \in Active : o.rack # m.rack
  /\ floor.at[m.src] = m.rack
  /\ floor.at[m.dst] = None \/ (plan.sameCell /\ m.dst = m.src)
  /\ m.dst \notin Reserved

Claim ==
  /\ phase = "claim"
  /\ pick' = None
  /\ \/ Claimable(pick) /\ Take(pick)
     \/ ~Claimable(pick) /\ phase' = "waiting" /\ UNCHANGED <<floor, made>>
  /\ UNCHANGED <<plan, table, out, promised, arrived, outside, away>>

\* recover_fifo_chains at the next start of the server
Recover ==
  /\ phase = "waiting" /\ arrived = None
  /\ phase' = "choose"
  /\ UNCHANGED <<floor, plan, table, out, promised, made, pick, arrived, outside, away>>

\* _ensure_rack_available, when the hook is through with the next leg
Close ==
  /\ arrived # None /\ phase \notin {"choose", "claim"}
  /\ floor' = [floor EXCEPT !.stat[arrived] = IF \E o \in Active : o.rack = arrived THEN @ ELSE "available"]
  /\ arrived' = None
  /\ UNCHANGED <<plan, table, out, promised, made, pick, phase, outside, away>>

-----------------------------------------------------------------------------
(* Other operators; what they do before the preview is in Init. *)

Outside ==
  /\ phase \notin {"scan", "refused", "done"} /\ outside < MaxOutside
  /\ outside' = outside + 1
  /\ UNCHANGED <<plan, table, promised, made, pick, phase, arrived>>

OtherBooks ==
  /\ Outside /\ out = None
  /\ \E c \in Cells, d \in Shown :
       /\ ReadyAt(c) /\ floor.at[d] = None /\ d \notin Reserved
       /\ out' = [rack |-> floor.at[c], src |-> c, dst |-> d, status |-> "dispatched"]
       /\ floor' = [floor EXCEPT !.stat[floor.at[c]] = "reserved"]
  /\ UNCHANGED away

OtherArrives ==
  /\ Outside /\ out # None
  /\ floor' = [Landed(out) EXCEPT !.stat[out.rack] = "available"]
  /\ out' = None
  /\ away' = IF pick = None THEN away ELSE away \cup {out.rack}

OtherCancels ==
  /\ Outside /\ out # None
  /\ floor' = [floor EXCEPT !.stat[out.rack] = "available"]
  /\ out' = None
  /\ UNCHANGED away

Next == Preview \/ Book \/ Complete \/ Choose \/ Claim \/ Recover \/ Close
        \/ OtherBooks \/ OtherArrives \/ OtherCancels

Spec == Init /\ [][Next]_vars

-----------------------------------------------------------------------------
TypeOK ==
  /\ floor.at \in [Cells -> Racks \cup {None}]
  /\ DOMAIN floor.mat = Racks /\ DOMAIN floor.stat = Racks
  /\ \A c, d \in Cells : floor.at[c] = floor.at[d] /\ floor.at[c] # None => c = d
  /\ promised \in Seq(Move) /\ made \in Seq(Move)
  /\ Len(promised) \in {0, Len(plan.legs)} /\ Len(made) <= Len(promised)
  /\ phase = "claim" <=> pick # None
  /\ phase \in {"scan", "refused", "book", "moving", "choose", "claim", "waiting", "done"}

\* What the two searches agree under, one conjunct for each difference between them:
\* every enabled cell is shown; a rack is available or reserved, and stays so when a
\* rule rewrites it; nobody asks for the empty material group; a label that allows
\* the same cell keeps to ends that are one area or one cell; the others' orders are
\* not on their way to a cancellation; the rules are such as the diagnosis lets pass,
\* which says nothing of rules that ignore the material.
Regular ==
  /\ Hidden = {}
  /\ \A f \in Floors, r \in Racks : f.stat[r] \in {"available", "reserved"}
  /\ \A p \in Plans : \A k \in DOMAIN p.legs :
       /\ p.legs[k].mat # Unassigned
       /\ p.sameCell => p.legs[k].to.mode \in {"cell", "area"}
  /\ \A o \in Others : o # None => o.status \in SeenStatuses
  /\ \A t \in Tables : \A i, j \in {k \in DOMAIN t : t[k].active} :
       /\ t[i].nextStatus \in {None, "available"}
       /\ SimpleIsSimple(t[i]) /\ ~t[i].ignore
       /\ i # j => ~Rivals(t[i], t[j])

\* As long as nobody else touches the floor, the orders of a chain are the moves
\* its preview showed, rack by rack and cell by cell, and none of them is missing:
\* two searches written apart agree along a whole chain, transitions included
\* (scanner_service.py:1236, fifo_chain_service.py:454).
PlanKept ==
  outside = 0 =>
    /\ \A k \in DOMAIN made : made[k] = promised[k]
    /\ promised # <<>> => phase \notin {"waiting", "refused"}

\* Whatever others do meanwhile, an order of the chain takes a rack that stands
\* where it says and is nobody else's, to a cell that is free and booked by nobody
\* else, both within the ends of its leg; the rack carries what the leg asks for,
\* unless it went away and came back since it was selected, for the claim does not
\* look at the material again (fifo_chain_service.py:483, fifo_service.py:446).
Fits(m, leg) ==
  /\ floor.at[m.src] = m.rack /\ floor.stat[m.rack] \in Ready
  /\ Carries(m.rack, leg.mat) \/ m.rack \in away
  /\ floor.at[m.dst] = None \/ (plan.sameCell /\ m.dst = m.src)
  /\ \A o \in Active : o.rack # m.rack /\ o.dst # m.dst
  /\ m.src \in Within(leg.from) /\ m.dst \in Within(leg.to)

CreatedFits ==
  [][\A k \in DOMAIN made' \ DOMAIN made :
       Fits(made'[k], IF k = 1 THEN [plan.legs[1] EXCEPT !.from = AreaEnd(@), !.to = AreaEnd(@)]
                      ELSE plan.legs[k])]_vars
=============================================================================
