---------------------------- MODULE MCChainPlan ----------------------------
(* Four cells in three areas, three racks, chains of two and three legs. *)
EXTENDS ChainPlan

CONSTANTS Statuses, NRacks

MCRacks  == 1 .. NRacks
MCCells  == 1 .. 4
MCAreaOf == <<1, 1, 2, 3>>
MCAreas  == <<1, 2, 3>>

Cell(c)  == [mode |-> "cell", cell |-> c, areas |-> <<MCAreaOf[c]>>]
AreaE(a) == [mode |-> "area", cell |-> None, areas |-> <<a>>]
Areas(s) == [mode |-> "areas", cell |-> None, areas |-> s]
Any      == [mode |-> "any", cell |-> None, areas |-> <<>>]

Leg(f, m, t) == [from |-> f, mat |-> m, to |-> t]
Legs == {Leg(AreaE(1), "full", AreaE(2)), Leg(AreaE(1), "full", AreaE(1)),
         Leg(Cell(2), "full", Any), Leg(Any, "full", Areas(<<3, 1>>)),
         Leg(Areas(<<2, 3>>), "empty", Cell(1)), Leg(AreaE(2), "empty", AreaE(1)),
         Leg(Any, "empty", Any), Leg(Cell(3), "full", Areas(<<2, 1>>))}

LongLegs == {Leg(AreaE(1), "full", AreaE(2)), Leg(Any, "full", Areas(<<3, 1>>)),
             Leg(Areas(<<2, 3>>), "empty", Cell(1)), Leg(Any, "empty", Any)}

\* A label that allows the same cell keeps to ends that are one area or one cell.
Narrow(leg) == leg.to.mode \in {"cell", "area"}
MCPlans ==
  {[legs |-> l, sameCell |-> s, qr |-> "q", station |-> "s"] :
     l \in {<<a, b>> : a, b \in Legs} \cup {<<a, b, c>> : a, b, c \in LongLegs}, s \in BOOLEAN}
MCKeptPlans == {p \in MCPlans : p.sameCell => \A k \in DOMAIN p.legs : Narrow(p.legs[k])}

Rule == [qr |-> None, station |-> None, srcCell |-> None, srcArea |-> None, dstCell |-> None,
         dstArea |-> None, mat |-> None, status |-> None, anySource |-> FALSE, simple |-> FALSE,
         anyOrder |-> FALSE, ignore |-> FALSE, active |-> TRUE, nextMat |-> None,
         nextStatus |-> None, other |-> None, priority |-> 1]
Unload == [Rule EXCEPT !.dstArea = 2, !.mat = "full", !.nextMat = "empty", !.anySource = TRUE]
Reload == [Rule EXCEPT !.qr = "q", !.dstArea = 1, !.nextMat = "full"]
MCTables == {<<>>, <<Unload>>, <<Unload, Reload>>}
MCPayloads == {Unload, Reload}

MCFloors ==
  {[at |-> a, mat |-> m, stat |-> s] :
     a \in {f \in [MCCells -> MCRacks \cup {None}] :
              \A r \in MCRacks : \E c \in MCCells : f[c] = r /\ \A d \in MCCells \ {c} : f[d] # r},
     m \in [MCRacks -> {"full", "empty"}], s \in [MCRacks -> Statuses]}
MCOthers == {None} \cup
  {[rack |-> r, src |-> c, dst |-> d, status |-> "dispatched"] : r \in MCRacks, c, d \in MCCells}

\* The instance is one for which the preview is to be kept.
ASSUME RegularInstance == Regular
=============================================================================
