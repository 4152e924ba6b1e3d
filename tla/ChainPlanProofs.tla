--------------------------- MODULE ChainPlanProofs ---------------------------
(***************************************************************************)
(* Proofs, for any floor, chain, table of rules and operators, that the    *)
(* plan of a chain stays well formed and that what its legs create fits    *)
(* the floor.                                                              *)
(***************************************************************************)
EXTENDS ChainPlan, TLAPS, FiniteSetTheorems, SequenceTheorems, WellFoundedInduction

(* The floor *)

Floor(f) ==
  /\ f = [at |-> f.at, mat |-> f.mat, stat |-> f.stat]
  /\ f.at \in [Cells -> Racks \cup {None}] /\ DOMAIN f.mat = Racks /\ DOMAIN f.stat = Racks
  /\ \A c, d \in Cells : f.at[c] = f.at[d] /\ f.at[c] # None => c = d

\* An order holds its rack in its source and its destination free.
Holds(f, o) ==
  /\ o.rack \in Racks /\ o.src \in Cells /\ o.dst \in Cells
  /\ f.at[o.src] = o.rack /\ f.stat[o.rack] = "reserved"
  /\ f.at[o.dst] = None \/ o.dst = o.src

Last == made[Len(made)]
Moving == phase = "moving"

FloorInv ==
  /\ Floor(floor)
  /\ out # None => Holds(floor, out)
  /\ Moving => Holds(floor, Last)
  /\ out # None /\ Moving => out.rack # Last.rack /\ out.dst # Last.dst

(* The chain *)

Phases == {"scan", "refused", "book", "moving", "choose", "claim", "waiting", "done"}
ChainInv ==
  /\ plan \in Plans /\ phase \in Phases
  /\ made \in Seq(Move) /\ promised \in Seq(Move)
  /\ phase = "scan" => promised = <<>>
  /\ phase \notin {"scan", "refused"} => Len(promised) = Len(plan.legs)
  /\ phase = "refused" => Len(promised) \in {0, Len(plan.legs)}
  /\ phase \in {"scan", "refused", "book"} => Len(made) = 0
  /\ phase \in {"choose", "claim", "waiting"} => Len(made) < Len(plan.legs)
  /\ phase \in {"moving", "done"} => Len(made) \in 1..Len(plan.legs)
  /\ phase \in {"choose", "claim", "waiting"} => Len(made) > 0
  /\ arrived # None => arrived \in Racks

\* The pick is a move within the ends of the leg it was made for.
PickInv ==
  /\ phase = "claim" <=> pick # None
  /\ pick # None =>
       /\ pick \in Move /\ pick.src \in Within(NextLeg.from) /\ pick.dst \in Within(NextLeg.to)
       /\ Carries(pick.rack, NextLeg.mat) \/ pick.rack \in away

IInv == FloorInv /\ ChainInv /\ PickInv

-----------------------------------------------------------------------------
(* Selections *)

\* Some numbers have a least one.
LEMMA LeastIn ==
  ASSUME NEW S, S \subseteq Nat, S # {}
  PROVE  Least(S) \in S /\ \A y \in S : Least(S) <= y
<1> DEFINE R == OpToRel(<, Nat)
<1>1. IsWellFoundedOn(R, Nat)
  BY NatLessThanWellFounded
<1>2. PICK x \in S : \A y \in S : <<y, x>> \notin R
  <2> HIDE DEF R
  <2> QED BY <1>1, WFMin
<1>3. ASSUME NEW y \in S PROVE x <= y
  <2>1. CASE y < x
    <3>1. <<y, x>> \in R BY <2>1 DEF OpToRel
    <3> QED BY <1>2, <3>1
  <2>2. CASE ~(y < x)
    <3> HIDE DEF R
    <3>1. x \in Nat /\ y \in Nat OBVIOUS
    <3> QED BY <2>2, <3>1
  <2> QED BY <2>1, <2>2
<1> HIDE DEF R
<1> QED BY <1>3 DEF Least

\* The ends of the legs, and those that take their areas.
Proper(end) ==
  /\ end.mode \in {"cell", "area", "areas", "any"} /\ DOMAIN AreasOf(end) \subseteq Nat
  /\ end.mode = "cell" => end.cell \in Cells

LEMMA Legs ==
  ASSUME NEW p \in Plans, NEW k \in 1..Len(p.legs)
  PROVE  /\ k \in 1..5 /\ Proper(p.legs[k].from) /\ Proper(p.legs[k].to)
         /\ p.legs[k].from \in Ends /\ p.legs[k].to \in Ends
         /\ p.legs[k] = [from |-> p.legs[k].from, mat |-> p.legs[k].mat, to |-> p.legs[k].to]
<1>1. Len(p.legs) \in 2..5 /\ k \in 1..5 /\ k <= Len(p.legs)
  <2>1. Len(p.legs) \in 2..5 BY ChainPlanAssumption
  <2>2. PICK n : n = Len(p.legs) OBVIOUS
  <2>3. n \in 2..5 /\ k \in 1..n BY <2>1, <2>2
  <2>4. k \in Int /\ n \in Int /\ 1 <= k /\ k <= n /\ n <= 5 BY <2>3
  <2>5. k \in 1..5 BY <2>4
  <2> QED BY <2>1, <2>2, <2>4, <2>5
<1>2. ASSUME NEW end \in Ends, end.mode = "cell" => end.cell \in Cells PROVE Proper(end)
  <2>1. AllAreas \in Seq(Range(AllAreas)) BY PlansAssumption
  <2>2. end.areas \in Seq(Range(AllAreas)) BY DEF Ends
  <2>3. AreasOf(end) \in Seq(Range(AllAreas)) BY <2>1, <2>2 DEF AreasOf
  <2>4. DOMAIN AreasOf(end) \subseteq Nat BY <2>3
  <2> QED BY <1>2, <2>4 DEF Proper, Ends
<1>3. EndOK(p.legs[k].from) /\ EndOK(p.legs[k].to) BY <1>1, PlansAssumption
<1> QED BY <1>1, <1>2, <1>3, PlansAssumption DEF EndOK

LEMMA AreaEnds ==
  ASSUME NEW end \in Ends, Proper(end)
  PROVE  /\ Proper(AreaEnd(end)) /\ Within(end) \subseteq Within(AreaEnd(end))
         /\ end.mode \in {"area", "cell"} => AreaEnd(end).mode = "area"
<1>1. CASE end.mode # "cell" BY <1>1 DEF AreaEnd
<1>2. CASE end.mode = "cell"
  <2> DEFINE e == AreaEnd(end)
  <2>1. e = [mode |-> "area", cell |-> end.cell, areas |-> <<AreaOf[end.cell]>>]
    BY <1>2 DEF AreaEnd
  <2>2. e.mode = "area" /\ AreasOf(e) = <<AreaOf[end.cell]>> BY <2>1 DEF AreasOf
  <2>3. Range(<<AreaOf[end.cell]>>) = {AreaOf[end.cell]} BY DEF Range
  <2>4. Within(e) = {c \in Cells : AreaOf[c] = AreaOf[end.cell]} BY <2>2, <2>3 DEF Within
  <2>5. Within(end) = {end.cell} /\ end.cell \in Cells BY <1>2 DEF Within, Proper
  <2>6. DOMAIN AreasOf(e) \subseteq Nat BY <2>2
  <2> HIDE DEF e
  <2>7. Proper(e) BY <2>2, <2>6 DEF Proper
  <2> QED BY <2>2, <2>4, <2>5, <2>7 DEF e
<1> QED BY <1>1, <1>2

\* A source holds a rack that is ready and carries what is asked for.
LEMMA SourcesFit ==
  ASSUME Floor(floor), NEW end, Proper(end), NEW mat, NEW c \in Sources(end, mat)
  PROVE  /\ c \in Cells /\ c \in Within(end) /\ floor.at[c] \in Racks
         /\ floor.stat[floor.at[c]] \in Ready /\ Carries(floor.at[c], mat)
<1>1. c \in Cells /\ c \in Within(end) /\ ReadyAt(c) /\ Carries(floor.at[c], mat)
  <2>1. CASE end.mode \in {"any", "areas"} BY <2>1 DEF Sources, Carries, Shown
  <2>2. CASE end.mode = "area"
    <3>1. c \in Within(end) /\ ReadyAt(c) /\ Carries(floor.at[c], mat) BY <2>2 DEF Sources
    <3> QED BY <2>2, <3>1 DEF Within
  <2>3. CASE end.mode = "cell"
    <3>1. c = end.cell /\ ReadyAt(c) /\ floor.mat[floor.at[c]] = mat BY <2>3 DEF Sources
    <3> QED BY <2>3, <3>1 DEF Within, Proper, Carries
  <2> QED BY <2>1, <2>2, <2>3 DEF Proper
<1>2. floor.at[c] \in Racks BY <1>1 DEF Floor, ReadyAt
<1> QED BY <1>1, <1>2 DEF ReadyAt

\* The eldest rack's cell is one of the cells, and holds the least of their racks.
LEMMA EldestIn ==
  ASSUME NEW S, NEW at, S # {}, \A c \in S : at[c] \in Racks
  PROVE  Eldest(S, at) \in S /\ at[Eldest(S, at)] = Least({at[d] : d \in S})
<1> DEFINE R == {at[d] : d \in S}
<1>1. R \subseteq Nat /\ R # {} BY ChainPlanAssumption
<1>2. Least(R) \in R
  <2> HIDE DEF R
  <2> QED BY <1>1, LeastIn
<1>3. \E c \in S : at[c] = Least(R) BY <1>2
<1>4. Eldest(S, at) = CHOOSE c \in S : at[c] = Least(R) BY DEF Eldest
<1> HIDE DEF R
<1>5. Eldest(S, at) \in S /\ at[Eldest(S, at)] = Least(R) BY <1>3, <1>4
<1> QED BY <1>5 DEF R

LEMMA OldestIn ==
  ASSUME NEW S, S # {}, \A c \in S : floor.at[c] \in Racks
  PROVE  Oldest(S) \in S
BY EldestIn DEF Oldest

\* A target is a free cell of the end that nobody has booked.
LEMMA TargetsFit ==
  ASSUME NEW end, Proper(end), NEW src \in Cells, NEW taken, NEW d \in TargetsBeside(end, src, taken)
  PROVE  /\ d \in Cells /\ d \in Within(end) /\ d \notin taken
         /\ floor.at[d] = None \/ (plan.sameCell /\ d = src)
<1>1. CASE end.mode = "cell"
  BY <1>1 DEF TargetsBeside, Within, Proper
<1>2. CASE end.mode # "cell"
  <2> DEFINE turns == {i \in DOMAIN AreasOf(end) : FreeIn(i, end, src, taken) # {}}
  <2>1. turns # {} /\ d = Least(FreeIn(Least(turns), end, src, taken))
    BY <1>2 DEF TargetsBeside
  <2>2. turns \subseteq Nat BY DEF Proper
  <2>3. \A i \in turns : i \in DOMAIN AreasOf(end) /\ FreeIn(i, end, src, taken) # {} OBVIOUS
  <2> HIDE DEF turns
  <2>4. PICK i : i = Least(turns) OBVIOUS
  <2>5. i \in DOMAIN AreasOf(end) /\ FreeIn(i, end, src, taken) # {} BY <2>1, <2>2, <2>3, <2>4, LeastIn
  <2>6. FreeIn(i, end, src, taken) \subseteq Cells BY DEF FreeIn, Shown
  <2>7. FreeIn(i, end, src, taken) \subseteq Nat BY <2>6, ChainPlanAssumption
  <2>8. d \in FreeIn(i, end, src, taken) BY <2>1, <2>4, <2>5, <2>7, LeastIn
  <2>9. /\ AreaOf[d] = AreasOf(end)[i] /\ d \notin taken
        /\ floor.at[d] = None \/ (plan.sameCell /\ d = src)
    BY <2>8 DEF FreeIn
  <2>10. AreaOf[d] \in Range(AreasOf(end)) BY <2>5, <2>9 DEF Range
  <2> QED BY <1>2, <2>6, <2>8, <2>9, <2>10 DEF Within
<1> QED BY <1>1, <1>2

\* What a leg may settle on.
Settled(m, from, mat, to) ==
  /\ m \in Move /\ m.src \in Within(from) /\ m.dst \in Within(to)
  /\ floor.at[m.src] = m.rack /\ floor.stat[m.rack] \in Ready /\ Carries(m.rack, mat)
  /\ floor.at[m.dst] = None \/ (plan.sameCell /\ m.dst = m.src)
  /\ m.dst \notin Reserved

LEMMA ChoicesFit ==
  ASSUME Floor(floor), NEW from, NEW to, Proper(from), Proper(to), NEW mat,
         NEW m \in Choices(from, mat, to)
  PROVE  Settled(m, from, mat, to)
<1> DEFINE S == Sources(from, mat)
<1>1. S # {} /\ \A c \in S : floor.at[c] \in Racks BY SourcesFit DEF Choices
<1>2. Oldest(S) \in S
  <2> HIDE DEF S
  <2> QED BY <1>1, OldestIn
<1>3. PICK src : src = Oldest(S) OBVIOUS
<1>4. PICK d \in Targets(to, src) : m = MoveFrom(src, d) BY <1>3 DEF Choices
<1>5. /\ src \in Cells /\ src \in Within(from) /\ floor.at[src] \in Racks
      /\ floor.stat[floor.at[src]] \in Ready /\ Carries(floor.at[src], mat)
  BY <1>2, <1>3, SourcesFit
<1>6. /\ d \in Cells /\ d \in Within(to) /\ d \notin Reserved
      /\ floor.at[d] = None \/ (plan.sameCell /\ d = src)
  BY <1>4, <1>5, TargetsFit DEF Targets
<1>7. m = [rack |-> floor.at[src], src |-> src, dst |-> d] BY <1>4 DEF MoveFrom
<1>8. m \in Move /\ m.rack = floor.at[src] /\ m.src = src /\ m.dst = d BY <1>5, <1>6, <1>7 DEF Move
<1> HIDE DEF S
<1> QED BY <1>5, <1>6, <1>8 DEF Settled

LEMMA FirstFit ==
  ASSUME Floor(floor), plan \in Plans, NEW m \in FirstChoices(plan.legs[1])
  PROVE  Settled(m, AreaEnd(plan.legs[1].from), plan.legs[1].mat, AreaEnd(plan.legs[1].to))
<1>1. PICK leg : leg = plan.legs[1] OBVIOUS
<1>2. /\ Proper(leg.from) /\ Proper(leg.to) /\ leg.from \in Ends /\ leg.to \in Ends
  <2>1. Len(plan.legs) \in 2..5 BY ChainPlanAssumption
  <2>2. 1 \in 1..Len(plan.legs) BY <2>1
  <2> QED BY <1>1, <2>2, Legs
<1>3. CASE Configured(leg)
  <2>1. m \in Choices(AreaEnd(leg.from), leg.mat, AreaEnd(leg.to)) BY <1>1, <1>3 DEF FirstChoices
  <2>2. Proper(AreaEnd(leg.from)) /\ Proper(AreaEnd(leg.to)) BY <1>2, AreaEnds
  <2> QED BY <1>1, <2>1, <2>2, ChoicesFit
<1>4. CASE ~Configured(leg)
  <2>1. m \in Choices(leg.from, leg.mat, leg.to) BY <1>1, <1>4 DEF FirstChoices
  <2>2. Settled(m, leg.from, leg.mat, leg.to) BY <1>2, <2>1, ChoicesFit
  <2>3. Within(leg.from) \subseteq Within(AreaEnd(leg.from)) /\ Within(leg.to) \subseteq Within(AreaEnd(leg.to))
    BY <1>2, AreaEnds
  <2> QED BY <1>1, <2>2, <2>3 DEF Settled
<1> QED BY <1>3, <1>4

-----------------------------------------------------------------------------
(* The projection *)

\* The copy of the floor after the first j legs, while they fit.
Projected(w, j) ==
  /\ w.ok \in BOOLEAN /\ w.moves \in Seq(Move) /\ (w.ok => Len(w.moves) = j)
  /\ w.at \in [Cells -> Racks \cup {None}]

LEMMA ProjectedLeg ==
  ASSUME NEW leg, leg.to.mode = "cell" => leg.to.cell \in Cells,
         DOMAIN AreasOf(leg.to) \subseteq Nat, leg.from.mode = "cell" => leg.from.cell \in Cells,
         NEW w, NEW j \in Nat, Projected(w, j)
  PROVE  Projected(ProjectNext(leg, w), IF w.ok THEN j + 1 ELSE j)
<1>1. CASE ~w.ok BY <1>1 DEF ProjectNext, Projected
<1>2. CASE w.ok
  <2> DEFINE sources == ProjectedSources(leg, w)
             src     == Eldest(sources, w.at)
             rack    == w.at[src]
             targets == ProjectedTargets(leg, src, w)
  <2>1. ProjectNext(leg, w) = IF sources = {} \/ targets = {} THEN [w EXCEPT !.ok = FALSE]
                              ELSE Played(w, [rack |-> rack, src |-> src, dst |-> First(leg.to, targets)])
    BY <1>2 DEF ProjectNext, ProjectLeg
  <2>2. sources \subseteq Cells /\ \A c \in sources : w.at[c] \in Racks
    BY DEF ProjectedSources, Shown, Projected
  <2> HIDE DEF sources
  <2>3. CASE sources = {} \/ targets = {}
    <3> HIDE DEF rack, src, targets
    <3>1. ProjectNext(leg, w) = [w EXCEPT !.ok = FALSE] BY <2>1, <2>3
    <3> QED BY <3>1, <1>2 DEF Projected
  <2>4. CASE sources # {} /\ targets # {}
    <3>1. src \in sources BY <2>2, <2>4, EldestIn
    <3>2. src \in sources /\ w.at[src] = rack BY <3>1
    <3>3. targets \subseteq Cells /\ targets \subseteq Within(leg.to)
      BY DEF ProjectedTargets, Shown
    <3> HIDE DEF rack, src, targets
    <3>4. rack \in Racks /\ src \in Cells BY <2>2, <3>2
    <3>5. PICK S : S = targets OBVIOUS
    <3>6. First(leg.to, S) \in S
      <4>1. \A c \in S : Turn(leg.to, c) \in Nat
        <5> SUFFICES ASSUME NEW c \in S PROVE Turn(leg.to, c) \in Nat OBVIOUS
        <5>1. CASE leg.to.mode = "cell" BY <5>1 DEF Turn
        <5>2. CASE leg.to.mode # "cell"
          <6>1. AreaOf[c] \in Range(AreasOf(leg.to)) BY <3>3, <3>5, <5>2 DEF Within
          <6>2. \E i \in DOMAIN AreasOf(leg.to) : AreasOf(leg.to)[i] = AreaOf[c] BY <6>1 DEF Range
          <6>3. Turn(leg.to, c) \in DOMAIN AreasOf(leg.to) BY <5>2, <6>2 DEF Turn
          <6> QED BY <6>3
        <5> QED BY <5>1, <5>2
      <4> DEFINE T == {Turn(leg.to, c) : c \in S}
                 t == Least(T)
                 U == {c \in S : Turn(leg.to, c) = t}
      <4>2. T \subseteq Nat /\ T # {} BY <4>1, <2>4, <3>5
      <4>3. t \in T
        <5> HIDE DEF T
        <5> QED BY <4>2, LeastIn
      <4>4. U # {} /\ U \subseteq S BY <4>3
      <4>5. U \subseteq Nat BY <4>4, <3>3, <3>5, ChainPlanAssumption
      <4>6. First(leg.to, S) = Least(U) BY DEF First
      <4> HIDE DEF U
      <4>7. Least(U) \in U BY <4>4, <4>5, LeastIn
      <4> QED BY <4>4, <4>6, <4>7
    <3>7. PICK d \in Cells : d = First(leg.to, targets) BY <3>3, <3>5, <3>6
    <3>8. PICK m : m = [rack |-> rack, src |-> src, dst |-> d] OBVIOUS
    <3>9. m \in Move /\ m.rack \in Racks /\ m.src \in Cells /\ m.dst \in Cells BY <3>4, <3>7, <3>8 DEF Move
    <3>10. ProjectNext(leg, w) = Played(w, m) BY <2>1, <2>4, <3>7, <3>8
    <3>11. PICK u : u = Played(w, m) OBVIOUS
    <3>12. u.ok = TRUE /\ u.moves = Append(w.moves, m) /\ u.at = Put(w.at, m)
      BY <3>11 DEF Played
    <3>13. u.moves \in Seq(Move) /\ Len(u.moves) = j + 1
      BY <1>2, <3>9, <3>12 DEF Projected
    <3>14. u.at \in [Cells -> Racks \cup {None}]
      BY <3>9, <3>12 DEF Put, Projected
    <3> QED BY <1>2, <3>10, <3>11, <3>12, <3>13, <3>14 DEF Projected
  <2> QED BY <2>3, <2>4
<1> QED BY <1>1, <1>2 DEF Projected

\* The copies w of a projection, leg after leg.
Copies(legs, n, w) == w[0] = Copy /\ \A k \in 1..n : w[k] = ProjectNext(legs[k], w[k-1])

\* A chain of up to five legs is projected leg after leg.
LEMMA Projections ==
  ASSUME NEW legs, NEW n \in 1..5, n = Len(legs)
  PROVE  \E w : Projection(legs) = w[n] /\ Copies(legs, n, w)
<1> DEFINE Body(g) == [k \in 0..n |-> IF k = 0 THEN Copy ELSE ProjectNext(legs[k], g[k-1])]
           w1 == ProjectNext(legs[1], Copy)
           w2 == ProjectNext(legs[2], w1)
           w3 == ProjectNext(legs[3], w2)
           w4 == ProjectNext(legs[4], w3)
           w5 == ProjectNext(legs[5], w4)
           F == [k \in 0..n |-> IF k = 0 THEN Copy ELSE IF k = 1 THEN w1 ELSE IF k = 2 THEN w2
                                ELSE IF k = 3 THEN w3 ELSE IF k = 4 THEN w4 ELSE w5]
           W == CHOOSE g : g = Body(g)
<1>1. F = Body(F)
  <2>1. ASSUME NEW k \in 0..n PROVE F[k] = Body(F)[k]
    <3>1. k \in 0..5 /\ (k # 0 => k - 1 \in 0..n) OBVIOUS
    <3>2. F[0] = Copy OBVIOUS
    <3>3. CASE k = 0 BY <3>3
    <3>4. CASE k = 1
      <4>1. F[0] = Copy OBVIOUS
      <4>2. F[k] = w1 /\ Body(F)[k] = ProjectNext(legs[k], F[0]) BY <3>4
      <4> HIDE DEF F
      <4> QED BY <3>4, <4>1, <4>2
    <3>5. CASE k = 2
      <4>1. F[1] = w1 BY <3>1, <3>5
      <4>2. F[k] = w2 /\ Body(F)[k] = ProjectNext(legs[k], F[1]) BY <3>5
      <4> HIDE DEF F
      <4> QED BY <3>5, <4>1, <4>2
    <3>6. CASE k = 3
      <4>1. F[2] = w2 BY <3>1, <3>6
      <4>2. F[k] = w3 /\ Body(F)[k] = ProjectNext(legs[k], F[2]) BY <3>6
      <4> HIDE DEF F
      <4> QED BY <3>6, <4>1, <4>2
    <3>7. CASE k = 4
      <4>1. F[3] = w3 BY <3>1, <3>7
      <4>2. F[k] = w4 /\ Body(F)[k] = ProjectNext(legs[k], F[3]) BY <3>7
      <4> HIDE DEF F
      <4> QED BY <3>7, <4>1, <4>2
    <3>8. CASE k = 5
      <4>1. F[4] = w4 BY <3>1, <3>8
      <4>2. F[k] = w5 /\ Body(F)[k] = ProjectNext(legs[k], F[4]) BY <3>8
      <4> HIDE DEF F
      <4> QED BY <3>8, <4>1, <4>2
    <3> QED BY <3>1, <3>3, <3>4, <3>5, <3>6, <3>7, <3>8
  <2> HIDE DEF w1, w2, w3, w4, w5
  <2> QED BY <2>1
<1>2. W = Body(W)
  <2> HIDE DEF F
  <2> QED BY <1>1
<1>3. Projection(legs) = W[n] BY DEF Projection
<1> HIDE DEF W
<1>4. W[0] = Copy /\ \A k \in 1..n : W[k] = ProjectNext(legs[k], W[k-1]) BY <1>2
<1> QED BY <1>3, <1>4 DEF Copies

\* The leg the preview begins with differs from the label's in its cells only.
LEMMA ResolvedLeg ==
  ASSUME Floor(floor), plan \in Plans, NEW leg \in Resolved(plan.legs[1])
  PROVE  Proper(leg.from) /\ Proper(leg.to)
<1>1. PICK old : old = plan.legs[1] OBVIOUS
<1>2. /\ Proper(old.from) /\ Proper(old.to) /\ old.from \in Ends /\ old.to \in Ends
      /\ old = [from |-> old.from, mat |-> old.mat, to |-> old.to]
  <2>1. Len(plan.legs) \in 2..5 BY ChainPlanAssumption
  <2>2. 1 \in 1..Len(plan.legs) BY <2>1
  <2> QED BY <1>1, <2>2, Legs
<1>3. CASE leg = old BY <1>2, <1>3
<1>4. CASE leg # old
  <2>1. PICK m \in FirstChoices(old) : leg = [old EXCEPT !.from.cell = m.src, !.to.cell = m.dst]
    BY <1>1, <1>4 DEF Resolved
  <2>2. m \in Move BY <1>1, <2>1, FirstFit DEF Settled
  <2>3. m.src \in Cells /\ m.dst \in Cells BY <2>2 DEF Move
  <2>4. /\ leg.from = [old.from EXCEPT !.cell = m.src] /\ leg.to = [old.to EXCEPT !.cell = m.dst]
    BY <1>2, <2>1
  <2>5. ASSUME NEW end \in Ends, Proper(end), NEW c \in Cells, NEW e, e = [end EXCEPT !.cell = c]
        PROVE  Proper(e)
    <3>1. e.mode = end.mode /\ e.areas = end.areas /\ e.cell = c BY <2>5 DEF Ends
    <3>2. AreasOf(e) = AreasOf(end) BY <3>1 DEF AreasOf
    <3> QED BY <2>5, <3>1, <3>2 DEF Proper
  <2> QED BY <1>2, <2>3, <2>4, <2>5
<1> QED BY <1>3, <1>4

\* A chain that fits is promised a move for each leg.
LEMMA Promised ==
  ASSUME Floor(floor), plan \in Plans, NEW leg \in Resolved(plan.legs[1]),
         NEW w, w = Projection([plan.legs EXCEPT ![1] = leg]), w.ok
  PROVE  w.moves \in Seq(Move) /\ Len(w.moves) = Len(plan.legs)
<1> DEFINE legs == [plan.legs EXCEPT ![1] = leg]
<1>1. PICK n \in 2..5 : n = Len(plan.legs) BY ChainPlanAssumption
<1>2. plan.legs \in Seq(Range(plan.legs)) BY PlansAssumption
<1>3. /\ DOMAIN plan.legs = 1..n /\ legs \in Seq(Range(plan.legs) \cup {leg}) /\ Len(legs) = n
      /\ \A k \in 1..n : legs[k] = IF k = 1 THEN leg ELSE plan.legs[k]
  BY <1>1, <1>2
<1>4. \A k \in 1..n : Proper(legs[k].from) /\ Proper(legs[k].to)
  <2> SUFFICES ASSUME NEW k \in 1..n PROVE Proper(legs[k].from) /\ Proper(legs[k].to) OBVIOUS
  <2>1. CASE k = 1 BY <1>3, <2>1, ResolvedLeg
  <2>2. CASE k # 1 BY <1>1, <1>3, <2>2, Legs
  <2> QED BY <2>1, <2>2
<1>5. w = Projection(legs) OBVIOUS
<1> HIDE DEF legs
<1>6. n \in 1..5 BY <1>1
<1>7. PICK g : Projection(legs) = g[n] /\ Copies(legs, n, g)
  <2>1. PICK l : l = legs OBVIOUS
  <2>2. n = Len(l) BY <1>3, <2>1
  <2>3. \E g : Projection(l) = g[n] /\ Copies(l, n, g) BY <1>6, <2>2, Projections
  <2> QED BY <2>1, <2>3
<1> DEFINE Fine(k) == Projected(g[k], k) \/ (~g[k].ok /\ \E j \in 0..k : Projected(g[k], j))
<1>8. Fine(0)
  <2>1. <<>> \in Seq(Move) /\ Len(<<>>) = 0 OBVIOUS
  <2> QED BY <1>7, <2>1 DEF Copies, Copy, Projected, Floor
<1>9. ASSUME NEW k \in 1..n, Fine(k-1) PROVE Fine(k)
  <2>1. Proper(legs[k].from) /\ Proper(legs[k].to) BY <1>4
  <2>2. PICK j \in 0..(k-1) : Projected(g[k-1], j) /\ (g[k-1].ok => j = k-1)
    BY <1>1, <1>9
  <2>3. Projected(ProjectNext(legs[k], g[k-1]), IF g[k-1].ok THEN j + 1 ELSE j)
    BY <2>1, <2>2, ProjectedLeg DEF Proper
  <2>4. g[k] = ProjectNext(legs[k], g[k-1]) BY <1>7 DEF Copies
  <2>5. CASE g[k-1].ok
    <3>1. j + 1 = k BY <1>1, <2>2, <2>5
    <3> QED BY <2>3, <2>4, <2>5, <3>1
  <2>6. CASE ~g[k-1].ok
    <3>1. g[k] = g[k-1] BY <2>4, <2>6 DEF ProjectNext
    <3>2. j \in 0..k BY <1>1, <2>2
    <3> QED BY <2>2, <2>6, <3>1, <3>2
  <2> QED BY <2>5, <2>6
<1> HIDE DEF Fine
<1>10. Fine(n)
  <2>1. n >= 1 => Fine(1) BY <1>8, <1>9, <1>1
  <2>2. n >= 2 => Fine(2) BY <2>1, <1>9, <1>1
  <2>3. n >= 3 => Fine(3) BY <2>2, <1>9, <1>1
  <2>4. n >= 4 => Fine(4) BY <2>3, <1>9, <1>1
  <2>5. n >= 5 => Fine(5) BY <2>4, <1>9, <1>1
  <2>6. n = 2 \/ n = 3 \/ n = 4 \/ n = 5 BY <1>1
  <2>7. CASE n = 2 BY <2>2, <2>7
  <2>8. CASE n = 3 BY <2>3, <2>8
  <2>9. CASE n = 4 BY <2>4, <2>9
  <2>10. CASE n = 5 BY <2>5, <2>10
  <2> QED BY <2>6, <2>7, <2>8, <2>9, <2>10
<1>11. Projected(w, n) BY <1>5, <1>7, <1>10 DEF Fine
<1> QED BY <1>1, <1>11 DEF Projected

-----------------------------------------------------------------------------
(* The floor *)

\* The status of one rack is written, and nothing else of the floor.
Written(f, g, r, x) ==
  /\ Floor(g) /\ g.at = f.at /\ g.mat = f.mat /\ g.stat[r] = x
  /\ \A q \in Racks : q # r => g.stat[q] = f.stat[q]

LEMMA Restated ==
  ASSUME NEW f, Floor(f), NEW r \in Racks, NEW x, NEW g, g = [f EXCEPT !.stat[r] = x]
  PROVE  Written(f, g, r, x)
<1>1. f = [at |-> f.at, mat |-> f.mat, stat |-> f.stat] /\ DOMAIN f.stat = Racks BY DEF Floor
<1>2. g = [at |-> f.at, mat |-> f.mat, stat |-> [f.stat EXCEPT ![r] = x]] BY <1>1
<1>3. g.at = f.at /\ g.mat = f.mat /\ g.stat = [f.stat EXCEPT ![r] = x] BY <1>2
<1>4. DOMAIN g.stat = Racks /\ g.stat[r] = x /\ \A q \in Racks : q # r => g.stat[q] = f.stat[q]
  BY <1>1, <1>3
<1>5. g = [at |-> g.at, mat |-> g.mat, stat |-> g.stat] BY <1>2, <1>3
<1> QED BY <1>3, <1>4, <1>5 DEF Floor, Written

\* An arrival moves the rack of its order and changes nothing else.
LEMMA Arrived ==
  ASSUME Floor(floor), NEW m, Holds(floor, m), NEW g, g = Landed(m)
  PROVE  /\ Floor(g)
         /\ \A q \in Racks : q # m.rack => g.stat[q] = floor.stat[q] /\ g.mat[q] = floor.mat[q]
         /\ \A c \in Cells : g.at[c] = IF c = m.dst THEN m.rack ELSE IF c = m.src THEN None ELSE floor.at[c]
<1>1. PICK x, y : g = [at |-> Put(floor.at, m), mat |-> [floor.mat EXCEPT ![m.rack] = x],
                       stat |-> [floor.stat EXCEPT ![m.rack] = y]]
  BY DEF Landed
<1>2. g.at = Put(floor.at, m) /\ g.mat = [floor.mat EXCEPT ![m.rack] = x]
      /\ g.stat = [floor.stat EXCEPT ![m.rack] = y] /\ g = [at |-> g.at, mat |-> g.mat, stat |-> g.stat]
  BY <1>1
<1>3. /\ floor.at \in [Cells -> Racks \cup {None}] /\ m.src \in Cells /\ m.dst \in Cells /\ m.rack \in Racks
      /\ floor.at[m.src] = m.rack /\ DOMAIN floor.mat = Racks /\ DOMAIN floor.stat = Racks
  BY DEF Floor, Holds
<1>4. /\ g.at \in [Cells -> Racks \cup {None}]
      /\ \A c \in Cells : g.at[c] = IF c = m.dst THEN m.rack ELSE IF c = m.src THEN None ELSE floor.at[c]
  BY <1>2, <1>3 DEF Put
<1>5. /\ DOMAIN g.mat = Racks /\ DOMAIN g.stat = Racks
      /\ \A q \in Racks : q # m.rack => g.stat[q] = floor.stat[q] /\ g.mat[q] = floor.mat[q]
  BY <1>2, <1>3
<1>6. \A c, d \in Cells : g.at[c] = g.at[d] /\ g.at[c] # None => c = d
  <2>1. \A c, d \in Cells : floor.at[c] = floor.at[d] /\ floor.at[c] # None => c = d BY DEF Floor
  <2> SUFFICES ASSUME NEW c \in Cells, NEW d \in Cells, g.at[c] = g.at[d], g.at[c] # None, c # d
               PROVE  FALSE
    OBVIOUS
  <2>2. \A e \in Cells : g.at[e] = m.rack /\ e # m.dst => FALSE
    <3> SUFFICES ASSUME NEW e \in Cells, g.at[e] = m.rack, e # m.dst PROVE FALSE OBVIOUS
    <3>1. e # m.src BY <1>3, <1>4, ChainPlanAssumption
    <3>2. floor.at[e] = m.rack /\ m.rack # None BY <1>3, <1>4, <3>1, ChainPlanAssumption
    <3> QED BY <1>3, <2>1, <3>1, <3>2
  <2>3. c # m.dst /\ d # m.dst BY <1>3, <1>4, <2>2
  <2>4. c # m.src /\ d # m.src BY <1>4, <2>3
  <2> QED BY <1>4, <2>1, <2>3, <2>4
<1> QED BY <1>2, <1>4, <1>5, <1>6 DEF Floor

\* The arrival of one order leaves another's as it was.
LEMMA HoldsApart ==
  ASSUME Floor(floor), NEW m, Holds(floor, m), NEW o, Holds(floor, o),
         o.rack # m.rack, o.dst # m.dst, NEW g, g = Landed(m)
  PROVE  Holds(g, o)
<1>1. /\ o.rack \in Racks /\ o.src \in Cells /\ o.dst \in Cells /\ floor.at[o.src] = o.rack
      /\ m.rack \in Racks /\ m.src \in Cells /\ m.dst \in Cells /\ floor.at[m.src] = m.rack
      /\ floor.stat[o.rack] = "reserved" /\ (floor.at[o.dst] = None \/ o.dst = o.src)
      /\ (floor.at[m.dst] = None \/ m.dst = m.src)
  BY DEF Holds
<1>2. None \notin Racks BY ChainPlanAssumption
<1>3. o.src # m.src /\ o.src # m.dst BY <1>1, <1>2
<1>4. g.at[o.src] = o.rack /\ g.stat[o.rack] = "reserved" BY <1>1, <1>3, Arrived
<1>5. g.at[o.dst] = None \/ o.dst = o.src BY <1>1, Arrived
<1> QED BY <1>1, <1>4, <1>5 DEF Holds

-----------------------------------------------------------------------------
(* The steps *)

LEMMA InitKept == Init => IInv
<1> SUFFICES ASSUME Init PROVE IInv OBVIOUS
<1>1. Floor(floor) BY FloorsAssumption DEF Init, Floor
<1>2. ASSUME out # None PROVE Holds(floor, out)
  <2>1. /\ out \in [rack : Racks, src : Cells, dst : Cells, status : STRING]
        /\ floor.at[out.src] = out.rack /\ floor.at[out.dst] = None /\ floor.stat[out.rack] = "reserved"
    BY <1>2, OthersAssumption DEF Init
  <2> QED BY <2>1 DEF Holds
<1>3. FloorInv BY <1>1, <1>2 DEF Init, FloorInv, Moving
<1>4. <<>> \in Seq(Move) /\ Len(<<>>) = 0 OBVIOUS
<1>5. ChainInv BY <1>4 DEF Init, ChainInv, Phases
<1>6. PickInv BY DEF Init, PickInv
<1> QED BY <1>3, <1>5, <1>6 DEF IInv

\* The lengths the chain counts by.
LEMMA Lengths ==
  ASSUME ChainInv
  PROVE  Len(plan.legs) \in 2..5 /\ Len(made) \in Nat /\ Len(promised) \in Nat
BY ChainPlanAssumption DEF ChainInv

\* The rack of an open order is reserved.
LEMMA Opened ==
  ASSUME FloorInv
  PROVE  \A o \in Active : floor.stat[o.rack] = "reserved" /\ o.dst \in Reserved
<1>1. \A o \in Active : (Moving /\ o = Last) \/ (out # None /\ o = out)
  BY DEF Active, Open, Moving, Last
<1> QED BY <1>1 DEF FloorInv, Holds, Reserved

\* A created order holds its rack, and apart from the others.
LEMMA Taken ==
  ASSUME FloorInv, made \in Seq(Move), NEW m \in Move, Take(m), UNCHANGED out,
         floor.at[m.src] = m.rack, floor.stat[m.rack] \in Ready,
         floor.at[m.dst] = None \/ m.dst = m.src, m.dst \notin Reserved
  PROVE  /\ FloorInv' /\ made' \in Seq(Move) /\ Len(made') = Len(made) + 1
         /\ phase' = "moving" /\ made'[Len(made) + 1] = m
<1>1. made' = Append(made, m) /\ floor' = [floor EXCEPT !.stat[m.rack] = "reserved"] /\ phase' = "moving"
  BY DEF Take
<1>2. /\ made' \in Seq(Move) /\ Len(made') = Len(made) + 1 /\ made'[Len(made')] = m
      /\ made'[Len(made) + 1] = m
  BY <1>1
<1>3. Last' = m BY <1>2 DEF Last
<1>4. m.rack \in Racks /\ m.src \in Cells /\ m.dst \in Cells BY DEF Move
<1>5. Floor(floor) BY DEF FloorInv
<1>6. /\ Floor(floor') /\ floor'.at = floor.at /\ floor'.stat[m.rack] = "reserved"
      /\ \A q \in Racks : q # m.rack => floor'.stat[q] = floor.stat[q]
  <2>1. PICK h : h = floor' OBVIOUS
  <2>2. PICK r \in Racks : r = m.rack BY <1>4
  <2>3. h = [floor EXCEPT !.stat[r] = "reserved"] BY <1>1, <2>1, <2>2
  <2>4. Written(floor, h, r, "reserved") BY <1>5, <2>3, Restated
  <2> QED BY <2>1, <2>2, <2>4 DEF Written
<1>7. Holds(floor', m) BY <1>4, <1>6 DEF Holds
<1>8. ASSUME out # None PROVE Holds(floor', out) /\ out.rack # m.rack /\ out.dst # m.dst
  <2>1. Holds(floor, out) BY <1>8 DEF FloorInv
  <2>2. out.rack # m.rack BY <2>1 DEF Holds, Ready
  <2>3. Holds(floor', out) BY <1>6, <2>1, <2>2 DEF Holds
  <2>4. out.dst # m.dst BY <1>8 DEF Reserved, Active
  <2> QED BY <2>2, <2>3, <2>4
<1> QED BY <1>1, <1>2, <1>3, <1>6, <1>7, <1>8 DEF FloorInv

LEMMA PreviewKept == IInv /\ Preview => IInv'
<1> SUFFICES ASSUME IInv, Preview PROVE IInv' OBVIOUS
<1>1. /\ phase = "scan" /\ UNCHANGED <<floor, plan, table, out, made, pick, arrived, outside, away>>
  BY DEF Preview
<1>2. Floor(floor) /\ plan \in Plans /\ promised = <<>> /\ Len(made) = 0 /\ pick = None
  BY <1>1 DEF IInv, FloorInv, ChainInv, PickInv
<1>3. (phase' = "refused" /\ promised' = promised)
      \/ (phase' = "book" /\ promised' \in Seq(Move) /\ Len(promised') = Len(plan.legs))
  <2>1. CASE \E leg \in Resolved(plan.legs[1]) :
               LET w == Projection([plan.legs EXCEPT ![1] = leg])
               IN IF w.ok THEN promised' = w.moves /\ phase' = "book" ELSE Refused
    <3>1. PICK leg \in Resolved(plan.legs[1]) :
            LET w == Projection([plan.legs EXCEPT ![1] = leg])
            IN IF w.ok THEN promised' = w.moves /\ phase' = "book" ELSE Refused
      BY <2>1
    <3>2. PICK w : w = Projection([plan.legs EXCEPT ![1] = leg]) OBVIOUS
    <3>3. IF w.ok THEN promised' = w.moves /\ phase' = "book" ELSE Refused BY <3>1, <3>2
    <3>4. CASE w.ok BY <1>2, <3>2, <3>3, <3>4, Promised
    <3>5. CASE ~w.ok BY <3>3, <3>5 DEF Refused
    <3> QED BY <3>4, <3>5
  <2>2. CASE Refused BY <2>2 DEF Refused
  <2> QED BY <2>1, <2>2 DEF Preview
<1>4. FloorInv' BY <1>1, <1>3 DEF IInv, FloorInv, Moving
<1>5. ChainInv'
  <2>1. Len(<<>>) = 0 OBVIOUS
  <2> QED BY <1>1, <1>2, <1>3, <2>1 DEF IInv, ChainInv, Phases
<1>6. PickInv' BY <1>1, <1>2, <1>3 DEF PickInv
<1> QED BY <1>4, <1>5, <1>6 DEF IInv

\* The order of a leg is added to the chain.
LEMMA ChainGrows ==
  ASSUME ChainInv, Len(made) < Len(plan.legs), phase \in {"book", "claim"},
         UNCHANGED <<plan, promised, arrived>>, phase' = "moving",
         made' \in Seq(Move), Len(made') = Len(made) + 1
  PROVE  ChainInv'
<1>1. Len(made') \in 1..Len(plan.legs) BY Lengths
<1>2. Len(promised) = Len(plan.legs) BY DEF ChainInv
<1> QED BY <1>1, <1>2 DEF ChainInv, Phases

LEMMA BookKept == IInv /\ Book => IInv'
<1> SUFFICES ASSUME IInv, Book PROVE IInv' OBVIOUS
<1>1. phase = "book" /\ UNCHANGED <<plan, table, out, promised, pick, arrived, outside, away>>
  BY DEF Book
<1>2. FloorInv /\ ChainInv /\ PickInv /\ pick = None BY <1>1 DEF IInv, PickInv
<1>3. CASE \E m \in FirstChoices(plan.legs[1]) : Take(m)
  <2>1. PICK m \in FirstChoices(plan.legs[1]) : Take(m) BY <1>3
  <2>2. Settled(m, AreaEnd(plan.legs[1].from), plan.legs[1].mat, AreaEnd(plan.legs[1].to))
    BY <1>2, FirstFit DEF FloorInv, ChainInv
  <2>3. /\ m \in Move /\ floor.at[m.src] = m.rack /\ floor.stat[m.rack] \in Ready
        /\ floor.at[m.dst] = None \/ m.dst = m.src
        /\ m.dst \notin Reserved
    BY <2>2 DEF Settled
  <2>4. made \in Seq(Move) /\ out' = out BY <1>1, <1>2 DEF ChainInv
  <2>5. FloorInv' /\ made' \in Seq(Move) /\ Len(made') = Len(made) + 1 /\ phase' = "moving"
    BY <1>2, <2>1, <2>3, <2>4, Taken
  <2>6. Len(made) = 0 BY <1>1, <1>2 DEF ChainInv
  <2>7. Len(made) < Len(plan.legs) BY <1>2, <2>6, Lengths
  <2>8. ChainInv' BY <1>1, <1>2, <2>5, <2>7, ChainGrows
  <2>9. PickInv' BY <1>1, <1>2, <2>5 DEF PickInv
  <2> QED BY <2>5, <2>8, <2>9 DEF IInv
<1>4. CASE phase' = "refused" /\ UNCHANGED <<floor, made>>
  <2>1. FloorInv' BY <1>1, <1>2, <1>4 DEF FloorInv, Moving
  <2>2. ChainInv' BY <1>1, <1>2, <1>4 DEF ChainInv, Phases
  <2>3. PickInv' BY <1>1, <1>2, <1>4 DEF PickInv
  <2> QED BY <2>1, <2>2, <2>3 DEF IInv
<1> QED BY <1>3, <1>4 DEF Book

LEMMA CompleteKept == IInv /\ Complete => IInv'
<1> SUFFICES ASSUME IInv, Complete PROVE IInv' OBVIOUS
<1>1. /\ phase = "moving" /\ floor' = Landed(Last) /\ arrived' = Last.rack
      /\ phase' = IF Len(made) = Len(plan.legs) THEN "done" ELSE "choose"
      /\ UNCHANGED <<plan, table, out, promised, made, pick, outside, away>>
  BY DEF Complete, Last
<1>2. FloorInv /\ ChainInv /\ PickInv /\ pick = None BY <1>1 DEF IInv, PickInv
<1>3. PICK m : m = Last OBVIOUS
<1>4. Floor(floor) /\ Holds(floor, m) BY <1>1, <1>2, <1>3 DEF FloorInv, Moving
<1>5. Floor(floor') BY <1>1, <1>3, <1>4, Arrived
<1>6. ASSUME out # None PROVE Holds(floor', out)
  <2>1. Holds(floor, out) /\ out.rack # m.rack /\ out.dst # m.dst
    BY <1>1, <1>2, <1>3, <1>6 DEF FloorInv, Moving
  <2> QED BY <1>1, <1>3, <1>4, <2>1, HoldsApart
<1>7. FloorInv' BY <1>1, <1>5, <1>6 DEF FloorInv, Moving
<1>8. ChainInv'
  <2>1. Len(made) \in 1..Len(plan.legs) /\ Len(promised) = Len(plan.legs) BY <1>1, <1>2 DEF ChainInv
  <2>2. arrived' \in Racks BY <1>1, <1>3, <1>4 DEF Holds
  <2>3. Len(made) > 0 /\ (Len(made) # Len(plan.legs) => Len(made) < Len(plan.legs)) BY <1>2, <2>1, Lengths
  <2> QED BY <1>1, <1>2, <2>1, <2>2, <2>3 DEF ChainInv, Phases
<1>9. PickInv' BY <1>1, <1>2 DEF PickInv
<1> QED BY <1>7, <1>8, <1>9 DEF IInv

LEMMA ChooseKept == IInv /\ Choose => IInv'
<1> SUFFICES ASSUME IInv, Choose PROVE IInv' OBVIOUS
<1>1. /\ phase = "choose" /\ away' = {}
      /\ UNCHANGED <<floor, plan, table, out, promised, made, arrived, outside>>
  BY DEF Choose
<1>2. FloorInv /\ ChainInv /\ PickInv /\ pick = None BY <1>1 DEF IInv, PickInv
<1>3. (pick' \in Choices(NextLeg.from, NextLeg.mat, NextLeg.to) /\ phase' = "claim")
      \/ (pick' = pick /\ phase' = "waiting")
  BY DEF Choose
<1>4. FloorInv' BY <1>1, <1>2, <1>3 DEF FloorInv, Moving
<1>5. ChainInv' BY <1>1, <1>2, <1>3 DEF ChainInv, Phases
<1>6. PickInv'
  <2>1. CASE pick' \in Choices(NextLeg.from, NextLeg.mat, NextLeg.to) /\ phase' = "claim"
    <3>1. Len(made) + 1 \in 1..Len(plan.legs)
      <4>1. Len(made) < Len(plan.legs) BY <1>1, <1>2 DEF ChainInv
      <4> QED BY <1>2, <4>1, Lengths
    <3>2. plan \in Plans BY <1>2 DEF ChainInv
    <3>3. Proper(NextLeg.from) /\ Proper(NextLeg.to) BY <3>1, <3>2, Legs DEF NextLeg
    <3>4. PICK m \in Choices(NextLeg.from, NextLeg.mat, NextLeg.to) : m = pick' BY <2>1
    <3>5. Settled(m, NextLeg.from, NextLeg.mat, NextLeg.to)
      BY <1>2, <3>3, ChoicesFit DEF FloorInv
    <3>6. /\ m \in Move /\ m.src \in Within(NextLeg.from) /\ m.dst \in Within(NextLeg.to)
          /\ Carries(m.rack, NextLeg.mat)
      BY <3>5 DEF Settled
    <3>7. NextLeg' = NextLeg BY <1>1 DEF NextLeg
    <3>8. Carries(m.rack, NextLeg.mat)' <=> Carries(m.rack, NextLeg.mat) BY <1>1, <3>7 DEF Carries
    <3>9. m # None BY <3>6, OthersAssumption
    <3> QED BY <2>1, <3>4, <3>6, <3>7, <3>8, <3>9 DEF PickInv
  <2>2. CASE pick' = pick /\ phase' = "waiting" BY <1>2, <2>2 DEF PickInv
  <2> QED BY <1>3, <2>1, <2>2
<1> QED BY <1>4, <1>5, <1>6 DEF IInv

LEMMA ClaimKept == IInv /\ Claim => IInv'
<1> SUFFICES ASSUME IInv, Claim PROVE IInv' OBVIOUS
<1>1. /\ phase = "claim" /\ pick' = None
      /\ UNCHANGED <<plan, table, out, promised, arrived, outside, away>>
  BY DEF Claim
<1>2. FloorInv /\ ChainInv /\ PickInv BY DEF IInv
<1>3. pick \in Move /\ Len(made) < Len(plan.legs) /\ made \in Seq(Move)
  BY <1>1, <1>2 DEF PickInv, ChainInv
<1>4. CASE Claimable(pick) /\ Take(pick)
  <2>1. /\ floor.at[pick.src] = pick.rack /\ floor.stat[pick.rack] \in Ready
        /\ floor.at[pick.dst] = None \/ pick.dst = pick.src
        /\ pick.dst \notin Reserved
    BY <1>4 DEF Claimable
  <2>2. FloorInv' /\ made' \in Seq(Move) /\ Len(made') = Len(made) + 1 /\ phase' = "moving"
    BY <1>1, <1>2, <1>3, <1>4, <2>1, Taken
  <2>3. ChainInv' BY <1>1, <1>2, <1>3, <2>2, ChainGrows
  <2>4. PickInv' BY <1>1, <2>2 DEF PickInv
  <2> QED BY <2>2, <2>3, <2>4 DEF IInv
<1>5. CASE phase' = "waiting" /\ UNCHANGED <<floor, made>>
  <2>1. FloorInv' BY <1>1, <1>2, <1>5 DEF FloorInv, Moving
  <2>2. ChainInv' BY <1>1, <1>2, <1>5 DEF ChainInv, Phases
  <2>3. PickInv' BY <1>1, <1>5 DEF PickInv
  <2> QED BY <2>1, <2>2, <2>3 DEF IInv
<1> QED BY <1>4, <1>5 DEF Claim

LEMMA RecoverKept == IInv /\ Recover => IInv'
<1> SUFFICES ASSUME IInv, Recover PROVE IInv' OBVIOUS
<1>1. /\ phase = "waiting" /\ phase' = "choose"
      /\ UNCHANGED <<floor, plan, table, out, promised, made, pick, arrived, outside, away>>
  BY DEF Recover
<1>2. FloorInv' BY <1>1 DEF IInv, FloorInv, Moving
<1>3. ChainInv' BY <1>1 DEF IInv, ChainInv, Phases
<1>4. PickInv' BY <1>1 DEF IInv, PickInv
<1> QED BY <1>2, <1>3, <1>4 DEF IInv

LEMMA CloseKept == IInv /\ Close => IInv'
<1> SUFFICES ASSUME IInv, Close PROVE IInv' OBVIOUS
<1>1. /\ arrived # None /\ phase # "claim" /\ arrived' = None
      /\ floor' = [floor EXCEPT !.stat[arrived] =
                     IF \E o \in Active : o.rack = arrived THEN @ ELSE "available"]
      /\ UNCHANGED <<plan, table, out, promised, made, pick, phase, outside, away>>
  BY DEF Close
<1>2. FloorInv /\ ChainInv /\ PickInv /\ Floor(floor) BY DEF IInv, FloorInv
<1>3. arrived \in Racks BY <1>1, <1>2 DEF ChainInv
<1>4. PICK x : x = IF \E o \in Active : o.rack = arrived THEN floor.stat[arrived] ELSE "available"
  OBVIOUS
<1>5. floor' = [floor EXCEPT !.stat[arrived] = x]
  <2>1. floor = [at |-> floor.at, mat |-> floor.mat, stat |-> floor.stat] BY <1>2 DEF Floor
  <2>2. CASE \E o \in Active : o.rack = arrived BY <1>1, <1>4, <2>1, <2>2
  <2>3. CASE ~\E o \in Active : o.rack = arrived BY <1>1, <1>4, <2>3
  <2> QED BY <2>2, <2>3
<1>6. /\ Floor(floor') /\ floor'.at = floor.at /\ floor'.stat[arrived] = x
      /\ \A q \in Racks : q # arrived => floor'.stat[q] = floor.stat[q]
  <2>1. PICK h, r : h = floor' /\ r = arrived OBVIOUS
  <2>2. r \in Racks /\ h = [floor EXCEPT !.stat[r] = x] BY <1>3, <1>5, <2>1
  <2>3. Written(floor, h, r, x) BY <1>2, <2>2, Restated
  <2> QED BY <2>1, <2>3 DEF Written
<1>7. ASSUME NEW o \in Active, Holds(floor, o) PROVE Holds(floor', o)
  <2>1. floor'.stat[o.rack] = floor.stat[o.rack] BY <1>4, <1>6, <1>7 DEF Holds
  <2> QED BY <1>6, <1>7, <2>1 DEF Holds
<1>8. out # None => out \in Active BY DEF Active
<1>9. Moving => Last \in Active BY DEF Active, Open, Moving, Last
<1>10. out' = out /\ Last' = Last /\ (Moving' <=> Moving) BY <1>1 DEF Last, Moving
<1>11. FloorInv' BY <1>2, <1>6, <1>7, <1>8, <1>9, <1>10 DEF FloorInv
<1>12. ChainInv' BY <1>1, <1>2 DEF ChainInv
<1>13. PickInv' BY <1>1, <1>2 DEF PickInv
<1> QED BY <1>11, <1>12, <1>13 DEF IInv

\* Others leave the chain as it is, and the material a rack carries while it
\* does not move.
LEMMA Untouched ==
  ASSUME ChainInv, PickInv, Outside,
         pick # None => away \subseteq away' /\ (pick.rack \in away' \/ floor'.mat[pick.rack] = floor.mat[pick.rack])
  PROVE  ChainInv' /\ PickInv' /\ Last' = Last /\ (Moving' <=> Moving)
<1>1. UNCHANGED <<plan, table, promised, made, pick, phase, arrived>> BY DEF Outside
<1>2. ChainInv' BY <1>1 DEF ChainInv
<1>3. NextLeg' = NextLeg /\ Last' = Last /\ (Moving' <=> Moving) BY <1>1 DEF NextLeg, Last, Moving
<1>4. ASSUME pick # None PROVE Carries(pick.rack, NextLeg.mat)' \/ (pick.rack \in away)'
  <2>1. CASE pick.rack \in away BY <1>1, <1>4, <2>1
  <2>2. CASE pick.rack \notin away
    <3>1. Carries(pick.rack, NextLeg.mat) BY <1>4, <2>2 DEF PickInv
    <3> QED BY <1>1, <1>3, <1>4, <3>1 DEF Carries
  <2> QED BY <2>1, <2>2
<1>5. PickInv' BY <1>1, <1>3, <1>4 DEF PickInv
<1> QED BY <1>2, <1>3, <1>5

LEMMA OtherBooksKept == IInv /\ OtherBooks => IInv'
<1> SUFFICES ASSUME IInv, OtherBooks PROVE IInv' OBVIOUS
<1>1. PICK c \in Cells, d \in Shown :
        /\ ReadyAt(c) /\ floor.at[d] = None /\ d \notin Reserved
        /\ out' = [rack |-> floor.at[c], src |-> c, dst |-> d, status |-> "dispatched"]
        /\ floor' = [floor EXCEPT !.stat[floor.at[c]] = "reserved"]
  BY DEF OtherBooks
<1>2. FloorInv /\ ChainInv /\ PickInv /\ Floor(floor) BY DEF IInv, FloorInv
<1>3. PICK r \in Racks : r = floor.at[c] BY <1>1, <1>2 DEF ReadyAt, Floor
<1>4. d \in Cells /\ floor.stat[r] \in Ready BY <1>1, <1>3 DEF Shown, ReadyAt
<1>5. out'.rack = r /\ out'.src = c /\ out'.dst = d BY <1>1, <1>3
<1>6. floor' = [floor EXCEPT !.stat[r] = "reserved"] BY <1>1, <1>3
<1>7. /\ Floor(floor') /\ floor'.at = floor.at /\ floor'.mat = floor.mat /\ floor'.stat[r] = "reserved"
      /\ \A q \in Racks : q # r => floor'.stat[q] = floor.stat[q]
  <2>1. PICK h : h = floor' OBVIOUS
  <2>2. h = [floor EXCEPT !.stat[r] = "reserved"] BY <1>6, <2>1
  <2>3. Written(floor, h, r, "reserved") BY <1>2, <2>2, Restated
  <2> QED BY <2>1, <2>3 DEF Written
<1>8. Holds(floor', out') BY <1>1, <1>3, <1>4, <1>5, <1>7 DEF Holds
<1>9. ChainInv' /\ PickInv' /\ Last' = Last /\ (Moving' <=> Moving)
  BY <1>2, <1>7, Untouched DEF OtherBooks
<1>10. ASSUME Moving PROVE Holds(floor', Last) /\ out'.rack # Last.rack /\ out'.dst # Last.dst
  <2>1. Holds(floor, Last) BY <1>2, <1>10 DEF FloorInv
  <2>2. r # Last.rack BY <1>4, <2>1 DEF Holds, Ready
  <2>3. Holds(floor', Last) BY <1>7, <2>1, <2>2 DEF Holds
  <2>4. d # Last.dst BY <1>1, <1>10 DEF Reserved, Active, Open, Moving, Last
  <2> QED BY <1>5, <2>2, <2>3, <2>4
<1>11. FloorInv' BY <1>7, <1>8, <1>9, <1>10 DEF FloorInv
<1> QED BY <1>9, <1>11 DEF IInv

LEMMA OtherArrivesKept == IInv /\ OtherArrives => IInv'
<1> SUFFICES ASSUME IInv, OtherArrives PROVE IInv' OBVIOUS
<1>1. /\ Outside /\ out # None /\ out' = None
      /\ floor' = [Landed(out) EXCEPT !.stat[out.rack] = "available"]
      /\ away' = IF pick = None THEN away ELSE away \cup {out.rack}
  BY DEF OtherArrives
<1>2. FloorInv /\ ChainInv /\ PickInv BY DEF IInv
<1>3. PICK m : m = out OBVIOUS
<1>4. PICK g : g = Landed(m) OBVIOUS
<1>5. Floor(floor) /\ Holds(floor, m) /\ m.rack \in Racks BY <1>1, <1>2, <1>3 DEF FloorInv, Holds
<1>6. /\ Floor(g)
      /\ \A q \in Racks : q # m.rack => g.stat[q] = floor.stat[q] /\ g.mat[q] = floor.mat[q]
  BY <1>4, <1>5, Arrived
<1>7. floor' = [g EXCEPT !.stat[m.rack] = "available"] BY <1>1, <1>3, <1>4
<1>8. /\ Floor(floor') /\ floor'.at = g.at /\ floor'.mat = g.mat
      /\ \A q \in Racks : q # m.rack => floor'.stat[q] = g.stat[q]
  <2>1. PICK h : h = floor' OBVIOUS
  <2>2. h = [g EXCEPT !.stat[m.rack] = "available"] BY <1>7, <2>1
  <2>3. Written(g, h, m.rack, "available") BY <1>5, <1>6, <2>2, Restated
  <2> QED BY <2>1, <2>3 DEF Written
<1>9. ChainInv' /\ PickInv' /\ Last' = Last /\ (Moving' <=> Moving)
  <2>1. ASSUME pick # None
        PROVE  away \subseteq away' /\ (pick.rack \in away' \/ floor'.mat[pick.rack] = floor.mat[pick.rack])
    <3>1. pick.rack \in Racks BY <1>2, <2>1 DEF PickInv, Move
    <3> QED BY <1>1, <1>3, <1>6, <1>8, <2>1, <3>1
  <2> QED BY <1>1, <1>2, <2>1, Untouched
<1>10. ASSUME Moving PROVE Holds(floor', Last)
  <2>1. PICK o : o = Last OBVIOUS
  <2>2. Holds(floor, o) /\ o.rack # m.rack /\ o.dst # m.dst BY <1>1, <1>2, <1>3, <1>10, <2>1 DEF FloorInv
  <2>3. Holds(g, o) BY <1>4, <1>5, <2>2, HoldsApart
  <2>4. Holds(floor', o) BY <1>8, <2>2, <2>3 DEF Holds
  <2> QED BY <2>1, <2>4
<1>11. FloorInv' BY <1>1, <1>8, <1>9, <1>10 DEF FloorInv
<1> QED BY <1>9, <1>11 DEF IInv

LEMMA OtherCancelsKept == IInv /\ OtherCancels => IInv'
<1> SUFFICES ASSUME IInv, OtherCancels PROVE IInv' OBVIOUS
<1>1. /\ Outside /\ out # None /\ out' = None /\ away' = away
      /\ floor' = [floor EXCEPT !.stat[out.rack] = "available"]
  BY DEF OtherCancels
<1>2. FloorInv /\ ChainInv /\ PickInv /\ Floor(floor) BY DEF IInv, FloorInv
<1>3. PICK r \in Racks : r = out.rack BY <1>1, <1>2 DEF FloorInv, Holds
<1>4. floor' = [floor EXCEPT !.stat[r] = "available"] BY <1>1, <1>3
<1>5. /\ Floor(floor') /\ floor'.at = floor.at /\ floor'.mat = floor.mat
      /\ \A q \in Racks : q # r => floor'.stat[q] = floor.stat[q]
  <2>1. PICK h : h = floor' OBVIOUS
  <2>2. Written(floor, h, r, "available") BY <1>2, <1>4, <2>1, Restated
  <2> QED BY <2>1, <2>2 DEF Written
<1>6. ChainInv' /\ PickInv' /\ Last' = Last /\ (Moving' <=> Moving)
  BY <1>1, <1>2, <1>5, Untouched
<1>7. ASSUME Moving PROVE Holds(floor', Last)
  <2>1. Holds(floor, Last) /\ Last.rack # r BY <1>1, <1>2, <1>3, <1>7 DEF FloorInv
  <2> QED BY <1>5, <2>1 DEF Holds
<1>8. FloorInv' BY <1>1, <1>5, <1>6, <1>7 DEF FloorInv
<1> QED BY <1>6, <1>8 DEF IInv

LEMMA NextKept == IInv /\ [Next]_vars => IInv'
<1> SUFFICES ASSUME IInv, [Next]_vars PROVE IInv' OBVIOUS
<1>1. CASE Next
  BY <1>1, PreviewKept, BookKept, CompleteKept, ChooseKept, ClaimKept, RecoverKept, CloseKept,
     OtherBooksKept, OtherArrivesKept, OtherCancelsKept
  DEF Next
<1>2. CASE UNCHANGED vars
  <2>1. UNCHANGED <<floor, plan, out, promised, made, pick, phase, arrived, away>> BY <1>2 DEF vars
  <2>2. Last' = Last /\ (Moving' <=> Moving) /\ NextLeg' = NextLeg BY <2>1 DEF Last, Moving, NextLeg
  <2>3. FloorInv' BY <2>1, <2>2 DEF IInv, FloorInv
  <2>4. ChainInv' BY <2>1 DEF IInv, ChainInv
  <2>5. pick # None => (Carries(pick.rack, NextLeg.mat)' <=> Carries(pick.rack, NextLeg.mat))
    BY <2>1, <2>2 DEF Carries
  <2>6. PickInv' BY <2>1, <2>2, <2>5 DEF IInv, PickInv
  <2> QED BY <2>3, <2>4, <2>6 DEF IInv
<1> QED BY <1>1, <1>2

-----------------------------------------------------------------------------
(* The theorems *)

\* On any floor and under any acts of others, every order that is open, of the
\* chain or of another operator, holds its rack where it takes it from and finds
\* its destination free, and no two of them share a rack or a destination
\* (fifo_service.py:446, scanner_service.py:1236).
THEOREM ChainKept == Spec => []IInv
BY InitKept, NextKept, PTL DEF Spec

\* The plan is well formed, its floor has each rack in one cell at most, and a
\* chain never has more orders than its preview showed moves.
THEOREM Types == Spec => []TypeOK
<1>1. IInv => TypeOK
  <2> SUFFICES ASSUME IInv PROVE TypeOK OBVIOUS
  <2>1. Floor(floor) /\ ChainInv /\ PickInv BY DEF IInv, FloorInv
  <2>2. Len(promised) \in {0, Len(plan.legs)}
    <3>1. Len(<<>>) = 0 OBVIOUS
    <3> QED BY <2>1, <3>1 DEF ChainInv, Phases
  <2>3. Len(made) <= Len(promised)
    <3>1. Len(<<>>) = 0 OBVIOUS
    <3>2. CASE Len(made) = 0 BY <2>1, <3>2, Lengths
    <3>3. CASE phase \in {"moving", "done", "choose", "claim", "waiting"}
      <4>1. Len(promised) = Len(plan.legs) BY <2>1, <3>3 DEF ChainInv
      <4>2. Len(made) \in 1..Len(plan.legs) \/ Len(made) < Len(plan.legs) BY <2>1, <3>3 DEF ChainInv
      <4> QED BY <2>1, <4>1, <4>2, Lengths
    <3> QED BY <2>1, <3>2, <3>3 DEF ChainInv, Phases
  <2> QED BY <2>1, <2>2, <2>3 DEF TypeOK, Floor, ChainInv, PickInv, Phases
<1> QED BY <1>1, ChainKept, PTL

\* Whatever others do between the selection of a leg and its claim, the order the
\* chain creates takes a rack that stands where it says and is nobody else's to a
\* cell that is free and booked by nobody else, within the ends of its leg
\* (fifo_chain_service.py:483).
THEOREM Created == Spec => CreatedFits
<1> DEFINE Leg(k) == IF k = 1 THEN [plan.legs[1] EXCEPT !.from = AreaEnd(@), !.to = AreaEnd(@)]
                     ELSE plan.legs[k]
           Good == \A k \in DOMAIN made' \ DOMAIN made : Fits(made'[k], Leg(k))
<1>1. ASSUME IInv, [Next]_vars PROVE [Good]_vars
  <2> SUFFICES ASSUME made' # made PROVE Good
    BY DEF vars
  <2>1. FloorInv /\ ChainInv /\ PickInv /\ made \in Seq(Move) /\ plan \in Plans
    BY <1>1 DEF IInv, ChainInv
  <2>2. ASSUME NEW m \in Move, Take(m), NEW leg, leg = Leg(Len(made) + 1), Fits(m, leg) PROVE Good
    <3>1. made' = Append(made, m) BY <2>2 DEF Take
    <3>2. /\ \A k \in DOMAIN made' \ DOMAIN made : k = Len(made) + 1
          /\ made'[Len(made) + 1] = m
      BY <2>1, <3>1
    <3> HIDE DEF Leg
    <3> QED BY <2>2, <3>2
  <2>3. CASE Book
    <3>1. phase = "book" BY <2>3 DEF Book
    <3>2. PICK m \in FirstChoices(plan.legs[1]) : Take(m) BY <2>3 DEF Book
    <3>3. Settled(m, AreaEnd(plan.legs[1].from), plan.legs[1].mat, AreaEnd(plan.legs[1].to))
      BY <2>1, <3>2, FirstFit DEF FloorInv
    <3>4. Len(made) = 0 BY <2>1, <3>1 DEF ChainInv
    <3>5. 1 \in 1..Len(plan.legs) BY <2>1, Lengths
    <3>6. plan.legs[1] = [from |-> plan.legs[1].from, mat |-> plan.legs[1].mat, to |-> plan.legs[1].to]
      BY <2>1, <3>5, Legs
    <3>7. PICK leg : leg = [plan.legs[1] EXCEPT !.from = AreaEnd(@), !.to = AreaEnd(@)] OBVIOUS
    <3>8. leg.from = AreaEnd(plan.legs[1].from) /\ leg.to = AreaEnd(plan.legs[1].to)
          /\ leg.mat = plan.legs[1].mat
      BY <3>6, <3>7
    <3>9. \A o \in Active : o.rack # m.rack /\ o.dst # m.dst
      BY <2>1, <3>3, Opened DEF Settled, Ready
    <3>10. Fits(m, leg) BY <3>3, <3>8, <3>9 DEF Settled, Fits
    <3>11. m \in Move BY <3>3 DEF Settled
    <3>12. leg = Leg(Len(made) + 1) BY <3>4, <3>7
    <3> HIDE DEF Leg
    <3> QED BY <2>2, <3>2, <3>10, <3>11, <3>12
  <2>4. CASE Claim
    <3>1. phase = "claim" /\ Claimable(pick) /\ Take(pick) BY <2>4 DEF Claim
    <3>2. /\ pick \in Move /\ pick.src \in Within(NextLeg.from) /\ pick.dst \in Within(NextLeg.to)
          /\ Carries(pick.rack, NextLeg.mat) \/ pick.rack \in away
      BY <2>1, <3>1 DEF PickInv
    <3>3. \A o \in Active : o.rack # pick.rack /\ o.dst # pick.dst
      BY <3>1 DEF Claimable, Reserved
    <3>4. Fits(pick, NextLeg) BY <3>1, <3>2, <3>3 DEF Claimable, Fits
    <3>5. Len(made) > 0 BY <2>1, <3>1 DEF ChainInv
    <3>6. Len(made) + 1 # 1 BY <2>1, <3>5, Lengths
    <3>7. NextLeg = Leg(Len(made) + 1) BY <3>6 DEF NextLeg
    <3> HIDE DEF Leg
    <3> QED BY <2>2, <3>1, <3>2, <3>4, <3>7
  <2>5. Book \/ Claim
    BY <1>1 DEF Next, vars, Preview, Complete, Choose, Recover, Close, OtherBooks, OtherArrives,
                OtherCancels, Outside
  <2> QED BY <2>3, <2>4, <2>5
<1>2. [][Good]_vars <=> CreatedFits BY DEF CreatedFits
<1> QED BY <1>1, <1>2, ChainKept, PTL DEF Spec

-----------------------------------------------------------------------------
(* The rules decide *)

\* Two active rules of a table that fit the same order are rivals, or one of them
\* outranks the other, or they have the same result.
LEMMA Decided ==
  ASSUME NEW r \in Payloads, NEW s \in Payloads, NEW ctx, r.active, s.active,
         SimpleIsSimple(r), SimpleIsSimple(s), ~r.ignore, ~s.ignore,
         Matches(r, ctx), Matches(s, ctx), Result(r) # Result(s), ~Rivals(r, s)
  PROVE  Outranks(r, s, ctx) \/ Outranks(s, r, ctx)
<1>1. Overlap(r, s)
  <2>1. \A f \in {"qr", "station", "dstArea", "dstCell", "mat", "status"} : Agree(r[f], s[f])
    BY DEF Matches, Agree, SimpleIsSimple
  <2>2. ~r.anySource /\ ~s.anySource => Agree(r.srcArea, s.srcArea) /\ Agree(r.srcCell, s.srcCell)
    BY DEF Matches, Agree
  <2> QED BY <2>1, <2>2 DEF Overlap
<1>2. /\ r.priority \in Int /\ s.priority \in Int
      /\ Specificity(r) \in Int /\ Specificity(s) \in Int
  <2>1. r.priority \in Int /\ s.priority \in Int BY PayloadsAssumption
  <2>2. ASSUME NEW q PROVE Specificity(q) \in Int BY DEF Specificity, Points
  <2> QED BY <2>1, <2>2
<1>3. ASSUME NEW q, Matches(q, ctx)
      PROVE  MatchTier(q, ctx) = ConfiguredTier(q) /\ ConfiguredTier(q) \in 0..2
  BY <1>3 DEF Matches, MatchTier, ConfiguredTier
<1>4. \/ ConfiguredTier(r) # ConfiguredTier(s) \/ r.priority # s.priority
      \/ Specificity(r) # Specificity(s)
  BY <1>1 DEF Rivals
<1> QED BY <1>2, <1>3, <1>4 DEF Outranks

LEMMA Undisputed ==
  ASSUME Regular, table \in Tables, NEW ctx
  PROVE  ~Ambiguous(table, ActiveRules, ctx)
<1> SUFFICES ASSUME NEW i \in Tied(table, ActiveRules, ctx), NEW j \in Tied(table, ActiveRules, ctx),
                    Result(table[i]) # Result(table[j])
             PROVE  FALSE
  BY DEF Ambiguous
<1>1. PICK t \in Tables : t = table OBVIOUS
<1>2. /\ i \in DOMAIN t /\ j \in DOMAIN t /\ t[i].active /\ t[j].active
      /\ Matches(t[i], ctx) /\ Matches(t[j], ctx)
      /\ ~Outranks(t[i], t[j], ctx) /\ ~Outranks(t[j], t[i], ctx)
  BY <1>1 DEF Tied, ActiveRules
<1>3. t \in Seq(Payloads) BY TablesAssumption
<1>4. t[i] \in Payloads /\ t[j] \in Payloads BY <1>2, <1>3
<1>5. i # j BY <1>1
<1>6. /\ SimpleIsSimple(t[i]) /\ SimpleIsSimple(t[j]) /\ ~t[i].ignore /\ ~t[j].ignore
      /\ ~Rivals(t[i], t[j])
  BY <1>2, <1>5 DEF Regular
<1> QED BY <1>1, <1>2, <1>4, <1>6, Decided

\* The preview and the completion apply the same rule.
LEMMA SameRule ==
  ASSUME Regular, table \in Tables, NEW m, NEW mat
  PROVE  Chosen(table, ActiveRules, Context(m, mat, "available")) = VirtualRule(m, mat, "available")
<1>1. PICK ctx : ctx = Context(m, mat, "available") OBVIOUS
<1>2. PICK S : S = Tied(table, ActiveRules, ctx) OBVIOUS
<1>3. Chosen(table, ActiveRules, ctx) = IF S = {} THEN 0 ELSE Least(S)
  BY <1>2, Undisputed DEF Chosen, Least
<1>4. VirtualRule(m, mat, "available") = IF S = {} THEN 0 ELSE Least(S) BY <1>1, <1>2 DEF VirtualRule
<1> QED BY <1>1, <1>3, <1>4

\* It leaves the rack available.
LEMMA StaysAvailable ==
  ASSUME Regular, table \in Tables, NEW m, NEW mat
  PROVE  After(VirtualRule(m, mat, "available"), mat, "available")[2] = "available"
<1>1. PICK i : i = VirtualRule(m, mat, "available") OBVIOUS
<1>2. CASE i = 0 BY <1>1, <1>2 DEF After
<1>3. CASE i # 0
  <2>1. PICK S : S = Tied(table, ActiveRules, Context(m, mat, "available")) OBVIOUS
  <2>2. S # {} /\ i = Least(S) BY <1>1, <1>3, <2>1 DEF VirtualRule
  <2>3. S \subseteq ActiveRules BY <2>1 DEF Tied
  <2>4. table \in Seq(Payloads) BY TablesAssumption
  <2>5. DOMAIN table \subseteq Nat BY <2>4
  <2>6. S \subseteq Nat BY <2>3, <2>5 DEF ActiveRules
  <2>7. i \in ActiveRules BY <2>2, <2>3, <2>6, LeastIn
  <2>8. table[i].nextStatus \in {None, "available"} BY <2>7 DEF Regular, ActiveRules
  <2>9. After(i, mat, "available")[2] = IF table[i].nextStatus = None THEN "available" ELSE table[i].nextStatus
    BY <1>3 DEF After
  <2> QED BY <1>1, <2>8, <2>9
<1> QED BY <1>2, <1>3

-----------------------------------------------------------------------------
(* The two searches *)

\* The ends of a label, which names an area once.
Plain(end) ==
  /\ Proper(end)
  /\ end.mode # "cell" =>
       \A i, j \in DOMAIN AreasOf(end) : AreasOf(end)[i] = AreasOf(end)[j] => i = j
  /\ end.mode = "area" => DOMAIN AreasOf(end) = {1}

LEMMA PlainLegs ==
  ASSUME NEW p \in Plans, NEW k \in 1..Len(p.legs)
  PROVE  Plain(p.legs[k].from) /\ Plain(p.legs[k].to)
<1>1. /\ k \in 1..5 /\ Proper(p.legs[k].from) /\ Proper(p.legs[k].to)
      /\ p.legs[k].from \in Ends /\ p.legs[k].to \in Ends
  BY Legs
<1>2. k <= Len(p.legs)
  <2>1. PICK n \in 2..5 : n = Len(p.legs) BY ChainPlanAssumption
  <2> QED BY <2>1
<1>3. EndOK(p.legs[k].from) /\ EndOK(p.legs[k].to) BY <1>1, <1>2, PlansAssumption
<1>4. ASSUME NEW end, Proper(end), EndOK(end) PROVE Plain(end)
  <2>1. /\ end.areas \in Seq(Range(AllAreas))
        /\ end.mode = "area" => Len(end.areas) = 1
    BY <1>4 DEF EndOK, Ends
  <2>2. ASSUME end.mode = "area" PROVE DOMAIN end.areas = {1}
    <3>1. PICK a \in Seq(Range(AllAreas)) : a = end.areas /\ Len(a) = 1 BY <2>1, <2>2
    <3>2. DOMAIN a = 1..Len(a) BY <3>1
    <3>3. 1..1 = {1} OBVIOUS
    <3> QED BY <3>1, <3>2, <3>3
  <2>3. IsInjective(end.areas) /\ IsInjective(AllAreas) BY <1>4, PlansAssumption DEF EndOK
  <2>4. IsInjective(AreasOf(end)) BY <2>3 DEF AreasOf
  <2> QED BY <1>4, <2>2, <2>4 DEF Plain, AreasOf, IsInjective
<1> QED BY <1>1, <1>3, <1>4

LEMMA PlainAreaEnds ==
  ASSUME NEW end \in Ends, Plain(end)
  PROVE  Plain(AreaEnd(end))
<1>1. CASE end.mode # "cell" BY <1>1 DEF AreaEnd
<1>2. CASE end.mode = "cell"
  <2> DEFINE e == AreaEnd(end)
  <2>1. e.mode = "area" /\ AreasOf(e) = <<AreaOf[end.cell]>> BY <1>2 DEF AreaEnd, AreasOf
  <2>2. Proper(e) BY AreaEnds DEF Plain
  <2>3. DOMAIN AreasOf(e) = {1} BY <2>1
  <2> HIDE DEF e
  <2> QED BY <2>2, <2>3 DEF Plain, e
<1> QED BY <1>1, <1>2

\* A rack is reserved by an open order and available else.
Stats == \A r \in Racks : floor.stat[r] = IF \E o \in Active : o.rack = r THEN "reserved" ELSE "available"
OutSeen == out # None => Seen
\* The copy w is the floor.
Like(w) == w.at = floor.at /\ w.mat = floor.mat /\ \A r \in Racks : w.stat[r] = floor.stat[r]

\* Between two orders of a chain only the orders of others are open.
LEMMA Others1 ==
  ASSUME ~Moving, OutSeen
  PROVE  /\ Active = (IF out = None THEN {} ELSE {out})
         /\ BusyRacks = {o.rack : o \in Active} /\ BookedCells = Reserved
BY DEF Active, Open, Moving, OutSeen, Seen, BusyRacks, BookedCells, Reserved

LEMMA SameSources ==
  ASSUME Regular, Floor(floor), ~Moving, OutSeen, Stats,
         NEW leg, Plain(leg.from), leg.mat # Unassigned, NEW w, Like(w)
  PROVE  ProjectedSources(leg, w) = Sources(leg.from, leg.mat)
<1>1. Shown = Cells BY DEF Regular, Shown
<1>2. Within(leg.from) \subseteq Cells BY DEF Within, Plain, Proper
<1>3. ProjectedSources(leg, w) \subseteq Cells /\ Sources(leg.from, leg.mat) \subseteq Cells
  <2>1. Sources(leg.from, leg.mat) \subseteq Within(leg.from) BY SourcesFit DEF Plain
  <2> QED BY <1>1, <1>2, <2>1 DEF ProjectedSources
<1>4. ASSUME NEW c \in Cells
      PROVE  c \in ProjectedSources(leg, w) <=> c \in Sources(leg.from, leg.mat)
  <2>1. PICK r \in Racks \cup {None} : r = floor.at[c] BY DEF Floor
  <2>2. CASE r = None
    <3>1. c \notin ProjectedSources(leg, w) BY <2>1, <2>2 DEF ProjectedSources, Like
    <3>2. Proper(leg.from) BY DEF Plain
    <3>3. c \in Sources(leg.from, leg.mat) => floor.at[c] \in Racks BY <3>2, SourcesFit
    <3> QED BY <2>1, <2>2, <3>1, <3>3, ChainPlanAssumption
  <2>3. CASE r # None
    <3>1. r \in Racks BY <2>1, <2>3
    <3>2. floor.stat[r] = IF \E o \in Active : o.rack = r THEN "reserved" ELSE "available"
      BY <3>1 DEF Stats
    <3>3. /\ r \notin BusyRacks <=> ~\E o \in Active : o.rack = r
          /\ w.stat[r] \notin Barred <=> ~\E o \in Active : o.rack = r
          /\ floor.stat[r] \in Ready <=> ~\E o \in Active : o.rack = r
      BY <3>1, <3>2, Others1 DEF Like, Barred, Ready
    <3>4. c \in ProjectedSources(leg, w) <=>
            /\ c \in Within(leg.from) /\ ~\E o \in Active : o.rack = r
            /\ floor.mat[r] = leg.mat
      BY <1>1, <2>1, <2>3, <3>3 DEF ProjectedSources, Like
    <3>5. ReadyAt(c) <=> ~\E o \in Active : o.rack = r BY <2>1, <2>3, <3>3 DEF ReadyAt
    <3>6. Carries(r, leg.mat) <=> floor.mat[r] = leg.mat BY DEF Carries
    <3>7. CASE leg.from.mode \in {"any", "areas"} BY <1>1, <2>1, <3>4, <3>5, <3>7 DEF Sources
    <3>8. CASE leg.from.mode = "area" BY <2>1, <3>4, <3>5, <3>6, <3>8 DEF Sources
    <3>9. CASE leg.from.mode = "cell" BY <2>1, <3>4, <3>5, <3>9 DEF Sources, Within
    <3> QED BY <3>7, <3>8, <3>9 DEF Plain, Proper
  <2> QED BY <2>2, <2>3
<1> QED BY <1>3, <1>4

\* The projection and the search for a destination end in the same cell.
LEMMA SameTargets ==
  ASSUME Regular, ~Moving, OutSeen, NEW leg, Plain(leg.to),
         plan.sameCell => leg.to.mode \in {"cell", "area"},
         NEW w, w.at = floor.at, NEW src \in Cells, floor.at[src] # None
  PROVE  Targets(leg.to, src) =
           LET S == ProjectedTargets(leg, src, w) IN IF S = {} THEN {} ELSE {First(leg.to, S)}
<1> DEFINE S == ProjectedTargets(leg, src, w)
<1>1. Shown = Cells BY DEF Regular, Shown
<1>2. PICK end, taken : end = leg.to /\ taken = Reserved OBVIOUS
<1>3. Plain(end) /\ (plan.sameCell => end.mode \in {"cell", "area"}) BY <1>2
<1>4. Targets(leg.to, src) = TargetsBeside(end, src, taken) BY <1>2 DEF Targets
<1>5. \A c : c \in S <=>
        /\ c \in Cells /\ c \in Within(end) /\ c \notin taken
        /\ \/ floor.at[c] = None
           \/ /\ plan.sameCell /\ c = src
              /\ ~\E d \in Cells : d \in Within(end) /\ d \notin taken /\ floor.at[d] = None
  <2> DEFINE candidates == (Shown \cap Within(leg.to)) \ BookedCells
             free       == {c \in candidates : c # src /\ w.at[c] = None}
  <2>1. \A c : c \in candidates <=> c \in Cells /\ c \in Within(end) /\ c \notin taken
    BY <1>1, <1>2, Others1
  <2>2. S = IF free # {} THEN free ELSE IF plan.sameCell THEN candidates \cap {src} ELSE {}
    BY DEF ProjectedTargets
  <2>3. \A c : c \in free <=> c \in candidates /\ floor.at[c] = None OBVIOUS
  <2> HIDE DEF candidates, free, S
  <2> QED BY <2>1, <2>2, <2>3
<1> HIDE DEF S
<1>6. CASE end.mode = "cell"
  <2>1. Within(end) = {end.cell} /\ end.cell \in Cells BY <1>3, <1>6 DEF Within, Plain, Proper
  <2>2. TargetsBeside(end, src, taken) = S
    <3>1. \A c : c \in TargetsBeside(end, src, taken) <=>
            c = end.cell /\ c \notin taken /\ (floor.at[c] = None \/ (plan.sameCell /\ c = src))
      BY <1>6 DEF TargetsBeside
    <3> QED BY <1>5, <2>1, <3>1
  <2>3. S # {} => S = {end.cell} BY <1>5, <2>1
  <2>4. First(end, {end.cell}) = end.cell
    <3>1. {Turn(end, c) : c \in {end.cell}} = {0} BY <1>6 DEF Turn
    <3>2. Least({0}) = 0 BY LeastIn
    <3>3. {c \in {end.cell} : Turn(end, c) = 0} = {end.cell} BY <1>6 DEF Turn
    <3>4. {end.cell} \subseteq Nat BY <2>1, ChainPlanAssumption
    <3>5. Least({end.cell}) = end.cell BY <3>4, LeastIn
    <3> QED BY <3>1, <3>2, <3>3, <3>5 DEF First
  <2> QED BY <1>2, <1>4, <2>2, <2>3, <2>4 DEF S
<1>7. CASE end.mode # "cell"
  <2> DEFINE areas == AreasOf(end)
             T     == {Turn(end, c) : c \in S}
             turns == {i \in DOMAIN areas : FreeIn(i, end, src, taken) # {}}
  <2>1. \A c : c \in Within(end) <=> c \in Cells /\ \E i \in DOMAIN areas : areas[i] = AreaOf[c]
    BY <1>7 DEF Within, Range
  <2>2. \A c \in Cells, i \in DOMAIN areas :
          areas[i] = AreaOf[c] => Turn(end, c) = i
    <3> SUFFICES ASSUME NEW c \in Cells, NEW i \in DOMAIN areas, areas[i] = AreaOf[c]
                 PROVE  Turn(end, c) = i
      OBVIOUS
    <3>1. Turn(end, c) \in DOMAIN areas /\ areas[Turn(end, c)] = AreaOf[c] BY <1>7 DEF Turn
    <3> QED BY <1>3, <1>7, <3>1 DEF Plain
  <2>3. \A i \in DOMAIN areas : \A c : c \in FreeIn(i, end, src, taken) <=> c \in S /\ Turn(end, c) = i
    <3> SUFFICES ASSUME NEW i \in DOMAIN areas, NEW c
                 PROVE  c \in FreeIn(i, end, src, taken) <=> c \in S /\ Turn(end, c) = i
      OBVIOUS
    <3> DEFINE free == {d \in Cells : AreaOf[d] = areas[i] /\ floor.at[d] = None /\ d \notin taken}
    <3>1. FreeIn(i, end, src, taken) =
            IF free # {} THEN free
            ELSE IF plan.sameCell THEN ({d \in Cells : AreaOf[d] = areas[i]} \cap {src}) \ taken ELSE {}
      BY <1>1 DEF FreeIn
    <3>2. c \in FreeIn(i, end, src, taken) <=>
            /\ c \in Cells /\ AreaOf[c] = areas[i] /\ c \notin taken
            /\ \/ floor.at[c] = None
               \/ /\ plan.sameCell /\ c = src
                  /\ ~\E d \in Cells : AreaOf[d] = areas[i] /\ d \notin taken /\ floor.at[d] = None
      BY <3>1
    <3>3. CASE plan.sameCell
      <4>1. DOMAIN areas = {1} BY <1>3, <1>7, <3>3 DEF Plain
      <4>2. \A d : d \in Within(end) <=> d \in Cells /\ AreaOf[d] = areas[i] BY <2>1, <4>1
      <4> QED BY <1>5, <2>2, <3>2, <4>2
    <3>4. CASE ~plan.sameCell
      <4>1. c \in FreeIn(i, end, src, taken) <=>
              c \in Cells /\ AreaOf[c] = areas[i] /\ c \notin taken /\ floor.at[c] = None
        BY <3>2, <3>4
      <4>2. c \in S <=> c \in Cells /\ c \in Within(end) /\ c \notin taken /\ floor.at[c] = None
        BY <1>5, <3>4
      <4>3. ASSUME c \in Cells PROVE AreaOf[c] = areas[i] <=> c \in Within(end) /\ Turn(end, c) = i
        <5>1. ASSUME c \in Within(end), Turn(end, c) = i PROVE AreaOf[c] = areas[i]
          BY <2>1, <2>2, <4>3, <5>1
        <5> QED BY <2>1, <2>2, <4>3, <5>1
      <4> QED BY <4>1, <4>2, <4>3
    <3> QED BY <3>3, <3>4
  <2>4. \A c \in S : c \in Cells /\ Turn(end, c) \in DOMAIN areas
    BY <1>5, <2>1, <2>2
  <2>5. turns = T
    <3>1. \A i : i \in turns <=> i \in DOMAIN areas /\ \E c \in S : Turn(end, c) = i BY <2>3
    <3>2. \A i : i \in T <=> \E c \in S : Turn(end, c) = i OBVIOUS
    <3> HIDE DEF turns, T
    <3> QED BY <2>4, <3>1, <3>2
  <2>6. TargetsBeside(end, src, taken) =
          IF turns = {} THEN {} ELSE {Least(FreeIn(Least(turns), end, src, taken))}
    BY <1>7 DEF TargetsBeside
  <2>7. T = {} <=> S = {} OBVIOUS
  <2>8. CASE S # {}
    <3>1. PICK t : t = Least(T) OBVIOUS
    <3>2. t \in DOMAIN areas
      <4>1. T # {} /\ T \subseteq DOMAIN areas /\ T \subseteq Nat BY <1>3, <2>4, <2>8 DEF Plain, Proper
      <4> HIDE DEF T
      <4> QED BY <3>1, <4>1, LeastIn
    <3>3. FreeIn(t, end, src, taken) = {c \in S : Turn(end, c) = t} BY <2>3, <3>2
    <3>4. First(end, S) = Least({c \in S : Turn(end, c) = t}) BY <3>1 DEF First
    <3> HIDE DEF turns, T
    <3>5. TargetsBeside(end, src, taken) = {First(end, S)} BY <2>5, <2>6, <2>7, <2>8, <3>1, <3>3, <3>4
    <3> QED BY <1>2, <1>4, <2>8, <3>5 DEF S
  <2>9. CASE S = {}
    <3> HIDE DEF turns, T
    <3>1. TargetsBeside(end, src, taken) = {} BY <2>5, <2>6, <2>7, <2>9
    <3> QED BY <1>4, <2>9, <3>1 DEF S
  <2> QED BY <2>8, <2>9
<1> QED BY <1>6, <1>7

\* What the projection does with a leg, when it fits.
ShownSource(leg, w) == Eldest(ProjectedSources(leg, w), w.at)
Possible(leg, w) ==
  ProjectedSources(leg, w) # {} /\ ProjectedTargets(leg, ShownSource(leg, w), w) # {}
ShownMove(leg, w) ==
  [rack |-> w.at[ShownSource(leg, w)], src |-> ShownSource(leg, w),
   dst  |-> First(leg.to, ProjectedTargets(leg, ShownSource(leg, w), w))]

\* Where the two searches look at the same floor they settle on the same move.
LEMMA SameChoices ==
  ASSUME Regular, Floor(floor), ~Moving, OutSeen, Stats,
         NEW leg, Plain(leg.from), Plain(leg.to), leg.mat # Unassigned,
         plan.sameCell => leg.to.mode \in {"cell", "area"},
         NEW w, Like(w), Possible(leg, w)
  PROVE  Choices(leg.from, leg.mat, leg.to) = {ShownMove(leg, w)}
<1>1. PICK S : S = ProjectedSources(leg, w) OBVIOUS
<1>2. S = Sources(leg.from, leg.mat) /\ S # {} BY <1>1, SameSources DEF Possible
<1>3. PICK src : src = ShownSource(leg, w) OBVIOUS
<1>4. src = Oldest(S) BY <1>1, <1>3 DEF ShownSource, Oldest, Like
<1>5. \A c \in S : c \in Cells /\ floor.at[c] \in Racks
  <2>1. Proper(leg.from) BY DEF Plain
  <2> QED BY <1>2, <2>1, SourcesFit
<1>6. src \in Cells /\ floor.at[src] \in Racks BY <1>2, <1>4, <1>5, OldestIn
<1>7. PICK T : T = ProjectedTargets(leg, src, w) OBVIOUS
<1>8. Targets(leg.to, src) = {First(leg.to, T)}
  <2>1. floor.at[src] # None BY <1>6, ChainPlanAssumption
  <2>2. w.at = floor.at BY DEF Like
  <2>3. T # {} BY <1>3, <1>7 DEF Possible
  <2>4. Targets(leg.to, src) =
          LET U == ProjectedTargets(leg, src, w) IN IF U = {} THEN {} ELSE {First(leg.to, U)}
    BY <1>6, <2>1, <2>2, SameTargets
  <2> QED BY <1>7, <2>3, <2>4
<1>9. Choices(leg.from, leg.mat, leg.to) = {MoveFrom(src, d) : d \in {First(leg.to, T)}}
  BY <1>2, <1>4, <1>8 DEF Choices
<1>10. MoveFrom(src, First(leg.to, T)) = ShownMove(leg, w)
  BY <1>3, <1>7 DEF MoveFrom, ShownMove, Like
<1> QED BY <1>9, <1>10

\* The first leg between configured ends is shown as it will be resolved.
LEMMA SameFirst ==
  ASSUME Regular, Floor(floor), ~Moving, OutSeen, Stats, plan \in Plans,
         NEW leg \in Resolved(plan.legs[1]), NEW w, Like(w), Possible(leg, w)
  PROVE  FirstChoices(plan.legs[1]) = {ShownMove(leg, w)}
<1>1. PICK old : old = plan.legs[1] OBVIOUS
<1>2. /\ Plain(old.from) /\ Plain(old.to) /\ old.from \in Ends /\ old.to \in Ends
      /\ old = [from |-> old.from, mat |-> old.mat, to |-> old.to]
      /\ old.mat # Unassigned /\ (plan.sameCell => old.to.mode \in {"cell", "area"})
  <2>1. Len(plan.legs) \in 2..5 /\ plan.legs \in Seq(Range(plan.legs))
    BY ChainPlanAssumption, PlansAssumption
  <2>2. 1 \in 1..Len(plan.legs) /\ 1 \in DOMAIN plan.legs BY <2>1
  <2>3. old.mat # Unassigned /\ (plan.sameCell => old.to.mode \in {"cell", "area"})
    BY <1>1, <2>2 DEF Regular
  <2>4. /\ old.from \in Ends /\ old.to \in Ends
        /\ old = [from |-> old.from, mat |-> old.mat, to |-> old.to]
    BY <1>1, <2>2, Legs
  <2> QED BY <1>1, <2>2, <2>3, <2>4, PlainLegs
<1>3. CASE ~Configured(old)
  <2>1. leg = old BY <1>1, <1>3 DEF Resolved
  <2>2. FirstChoices(old) = Choices(old.from, old.mat, old.to) BY <1>3 DEF FirstChoices
  <2> QED BY <1>1, <1>2, <2>1, <2>2, SameChoices
<1>4. CASE Configured(old)
  <2>1. PICK m \in FirstChoices(old) : leg = [old EXCEPT !.from.cell = m.src, !.to.cell = m.dst]
    BY <1>1, <1>4 DEF Resolved
  <2>2. PICK from, to : from = AreaEnd(old.from) /\ to = AreaEnd(old.to) OBVIOUS
  <2>3. FirstChoices(old) = Choices(from, old.mat, to) BY <1>4, <2>2 DEF FirstChoices
  <2>4. /\ Plain(from) /\ Plain(to) /\ from.mode = "area" /\ to.mode = "area"
    BY <1>2, <1>4, <2>2, AreaEnds, PlainAreaEnds DEF Plain, Configured
  <2>5. PICK S : S = Sources(from, old.mat) OBVIOUS
  <2>6. PICK src : src = Oldest(S) OBVIOUS
  <2>7. \E d \in Targets(to, src) : m = MoveFrom(src, d) BY <2>1, <2>3, <2>5, <2>6 DEF Choices
  <2>8. \E x : Targets(to, src) \in {{}, {x}}
    BY <2>4 DEF Targets, TargetsBeside
  <2>9. /\ S # {} /\ Targets(to, src) = {m.dst} /\ m = MoveFrom(src, m.dst) /\ m.src = src
        /\ FirstChoices(old) = {m}
    <3>1. PICK d \in Targets(to, src) : m = MoveFrom(src, d) BY <2>7
    <3>2. Targets(to, src) = {d} BY <2>8, <3>1
    <3>3. m.dst = d /\ m.src = src BY <3>1 DEF MoveFrom
    <3>4. S # {} BY <2>1, <2>3, <2>5 DEF Choices
    <3>5. FirstChoices(old) = {MoveFrom(src, e) : e \in {d}} BY <2>3, <2>5, <2>6, <3>2, <3>4 DEF Choices
    <3> QED BY <3>1, <3>2, <3>3, <3>4, <3>5
  <2>10. Settled(m, from, old.mat, to) BY <1>1, <1>2, <2>1, <2>2, FirstFit
  <2>11. m.src \in Cells /\ m.dst \in Cells /\ m.rack \in Racks BY <2>10 DEF Settled, Move
  <2>12. /\ leg.from = [old.from EXCEPT !.cell = m.src] /\ leg.to = [old.to EXCEPT !.cell = m.dst]
         /\ leg.mat = old.mat
    BY <1>2, <2>1
  <2>13. /\ leg.from.mode = old.from.mode /\ leg.from.areas = old.from.areas /\ leg.from.cell = m.src
         /\ leg.to.mode = old.to.mode /\ leg.to.areas = old.to.areas /\ leg.to.cell = m.dst
    BY <1>2, <2>12 DEF Ends
  <2>14. Plain(leg.from) /\ Plain(leg.to)
    <3>1. Proper(leg.from) /\ Proper(leg.to) BY ResolvedLeg
    <3> QED BY <1>2, <2>13, <3>1 DEF Plain, AreasOf
  <2>15. ShownSource(leg, w) = src
    <3>1. PICK U : U = ProjectedSources(leg, w) OBVIOUS
    <3>2. U = Sources(leg.from, leg.mat) BY <1>2, <2>12, <2>14, <3>1, SameSources
    <3>3. ShownSource(leg, w) = Oldest(U) BY <3>1 DEF ShownSource, Oldest, Like
    <3>4. CASE old.from.mode = "area"
      <4>1. from = old.from BY <2>2, <3>4 DEF AreaEnd
      <4>2. Within(leg.from) = Within(old.from) BY <2>13, <3>4 DEF Within, AreasOf
      <4>3. U = S BY <2>5, <2>12, <2>13, <3>2, <3>4, <4>1, <4>2 DEF Sources
      <4> QED BY <2>6, <3>3, <4>3
    <3>5. CASE old.from.mode = "cell"
      <4>1. U \subseteq {m.src} BY <2>13, <3>2, <3>5 DEF Sources
      <4>2. U # {} BY <3>1 DEF Possible
      <4>3. \A c \in U : floor.at[c] \in Racks
        <5>1. Proper(leg.from) BY <2>14 DEF Plain
        <5> QED BY <3>2, <5>1, SourcesFit
      <4>4. Oldest(U) \in U BY <4>2, <4>3, OldestIn
      <4> QED BY <2>9, <3>3, <4>1, <4>4
    <3> QED BY <1>4, <3>4, <3>5 DEF Configured
  <2>16. First(leg.to, ProjectedTargets(leg, src, w)) = m.dst
    <3>1. PICK T : T = ProjectedTargets(leg, src, w) OBVIOUS
    <3>2. T # {} BY <2>15, <3>1 DEF Possible
    <3>3. Targets(leg.to, src) = {First(leg.to, T)}
      <4>1. src \in Cells /\ floor.at[src] # None
        BY <2>9, <2>10, <2>11, ChainPlanAssumption DEF Settled
      <4>2. plan.sameCell => leg.to.mode \in {"cell", "area"} BY <1>2, <2>13
      <4>3. w.at = floor.at BY DEF Like
      <4>4. Targets(leg.to, src) =
              LET V == ProjectedTargets(leg, src, w) IN IF V = {} THEN {} ELSE {First(leg.to, V)}
        BY <2>14, <4>1, <4>2, <4>3, SameTargets
      <4> QED BY <3>1, <3>2, <4>4
    <3>4. Targets(leg.to, src) \subseteq {m.dst}
      <4>1. CASE old.to.mode = "area"
        <5>1. to = old.to BY <2>2, <4>1 DEF AreaEnd
        <5>2. AreasOf(leg.to) = AreasOf(to) /\ leg.to.mode = "area" BY <2>13, <4>1, <5>1 DEF AreasOf
        <5>3. \A i, taken : FreeIn(i, leg.to, src, taken) = FreeIn(i, to, src, taken)
          BY <5>2 DEF FreeIn
        <5>4. Targets(leg.to, src) = Targets(to, src)
          BY <2>4, <5>2, <5>3 DEF Targets, TargetsBeside
        <5> QED BY <2>9, <5>4
      <4>2. CASE old.to.mode = "cell"
        BY <2>13, <4>2 DEF Targets, TargetsBeside
      <4> QED BY <1>4, <4>1, <4>2 DEF Configured
    <3> QED BY <3>1, <3>3, <3>4
  <2>17. ShownMove(leg, w) = m
    BY <2>9, <2>15, <2>16 DEF ShownMove, MoveFrom, Like
  <2> QED BY <1>1, <2>9, <2>17
<1> QED BY <1>3, <1>4

-----------------------------------------------------------------------------
(* What the preview foresees *)

LegAt(leg, k) == IF k = 1 THEN leg ELSE plan.legs[k]

\* In a copy only the rack of the others' order is reserved.
OutStats(v) ==
  /\ DOMAIN v.stat = Racks
  /\ \A r \in Racks : v.stat[r] = IF out # None /\ out.rack = r THEN "reserved" ELSE "available"

\* The leg takes the copy v to the copy u by the move m.
ForeseenLeg(leg, v, u, m) ==
  /\ Possible(leg, v) /\ m = ShownMove(leg, v)
  /\ u.at = Put(v.at, m)
  /\ u.mat = [v.mat EXCEPT ![m.rack] =
                After(VirtualRule(m, v.mat[m.rack], "available"), v.mat[m.rack], "available")[1]]

\* The copies g are those of a chain that fits, and ms its moves.
Foreseen(leg, g, ms) ==
  /\ \A k \in 1..Len(plan.legs) : ForeseenLeg(LegAt(leg, k), g[k-1], g[k], ms[k])
  /\ \A k \in 0..Len(plan.legs) : OutStats(g[k])

Advances(leg, v, u) ==
  /\ ForeseenLeg(leg, v, u, ShownMove(leg, v)) /\ OutStats(u)
  /\ u.moves = Append(v.moves, ShownMove(leg, v))

LEMMA LegForeseen ==
  ASSUME Regular, table \in Tables, OutSeen, NEW leg, NEW v, v.at \in [Cells -> Racks \cup {None}],
         OutStats(v), NEW u, u = ProjectNext(leg, v), v.ok, u.ok # FALSE
  PROVE  Advances(leg, v, u)
<1>1. PICK m : m = ShownMove(leg, v) OBVIOUS
<1>2. Possible(leg, v) /\ u = Played(v, m)
  <2>1. PICK S, src : S = ProjectedSources(leg, v) /\ src = Eldest(S, v.at) OBVIOUS
  <2>2. PICK T : T = ProjectedTargets(leg, src, v) OBVIOUS
  <2>3. u = IF S = {} \/ T = {} THEN [v EXCEPT !.ok = FALSE]
            ELSE Played(v, [rack |-> v.at[src], src |-> src, dst |-> First(leg.to, T)])
    BY <2>1, <2>2 DEF ProjectNext, ProjectLeg
  <2>4. ~(S = {} \/ T = {})
    <3> SUFFICES ASSUME S = {} \/ T = {} PROVE FALSE OBVIOUS
    <3>1. u = [v EXCEPT !.ok = FALSE] BY <2>3
    <3> QED BY <3>1
  <2>5. src = ShownSource(leg, v) BY <2>1 DEF ShownSource
  <2>6. m = [rack |-> v.at[src], src |-> src, dst |-> First(leg.to, T)]
    BY <1>1, <2>2, <2>5 DEF ShownMove
  <2> QED BY <2>1, <2>2, <2>3, <2>4, <2>5, <2>6 DEF Possible
<1>3. m.rack \in Racks /\ v.stat[m.rack] = "available"
  <2>1. PICK S : S = ProjectedSources(leg, v) OBVIOUS
  <2>2. /\ \A c \in S : c \in Cells /\ v.at[c] \in Racks /\ v.stat[v.at[c]] \notin Barred
        /\ S # {}
    BY <1>2, <2>1 DEF ProjectedSources, Shown, Possible
  <2>3. Eldest(S, v.at) \in S BY <2>2, EldestIn
  <2>4. m.rack = v.at[Eldest(S, v.at)] BY <1>1, <2>1 DEF ShownMove, ShownSource
  <2>5. m.rack \in Racks /\ v.stat[m.rack] \notin Barred BY <2>2, <2>3, <2>4
  <2> QED BY <2>5 DEF OutStats, Barred
<1>4. PICK mat : mat = v.mat[m.rack] OBVIOUS
<1>5. PICK after : after = After(VirtualRule(m, mat, "available"), mat, "available") OBVIOUS
<1>6. /\ u.moves = Append(v.moves, m) /\ u.at = Put(v.at, m)
      /\ u.mat = [v.mat EXCEPT ![m.rack] = after[1]] /\ u.stat = [v.stat EXCEPT ![m.rack] = after[2]]
  BY <1>2, <1>3, <1>4, <1>5 DEF Played
<1>7. after[2] = "available" BY <1>5, StaysAvailable
<1>8. OutStats(u) BY <1>3, <1>6, <1>7 DEF OutStats
<1>9. ForeseenLeg(leg, v, u, m) BY <1>1, <1>2, <1>4, <1>5, <1>6 DEF ForeseenLeg
<1> QED BY <1>1, <1>6, <1>8, <1>9 DEF Advances

LEMMA Foresight ==
  ASSUME Regular, Floor(floor), plan \in Plans, table \in Tables, ~Moving, OutSeen, Stats,
         NEW leg \in Resolved(plan.legs[1]),
         NEW w, w = Projection([plan.legs EXCEPT ![1] = leg]), w.ok
  PROVE  \E g : g[0] = Copy /\ Foreseen(leg, g, w.moves)
<1> DEFINE legs == [plan.legs EXCEPT ![1] = leg]
<1>1. PICK n \in 2..5 : n = Len(plan.legs) BY ChainPlanAssumption
<1>2. plan.legs \in Seq(Range(plan.legs)) BY PlansAssumption
<1>3. /\ DOMAIN plan.legs = 1..n /\ legs \in Seq(Range(plan.legs) \cup {leg}) /\ Len(legs) = n
      /\ \A k \in 1..n : legs[k] = LegAt(leg, k)
  BY <1>1, <1>2 DEF LegAt
<1>4. \A k \in 1..n : Proper(legs[k].from) /\ Proper(legs[k].to)
  <2> SUFFICES ASSUME NEW k \in 1..n PROVE Proper(legs[k].from) /\ Proper(legs[k].to) OBVIOUS
  <2>1. CASE k = 1 BY <1>3, <2>1, ResolvedLeg DEF LegAt
  <2>2. CASE k # 1 BY <1>1, <1>3, <2>2, Legs DEF LegAt
  <2> QED BY <2>1, <2>2
<1>5. w = Projection(legs) OBVIOUS
<1> HIDE DEF legs
<1>6. n \in 1..5 BY <1>1
<1>7. PICK g : Projection(legs) = g[n] /\ Copies(legs, n, g)
  <2>1. PICK l : l = legs OBVIOUS
  <2>2. n = Len(l) BY <1>3, <2>1
  <2>3. \E g : Projection(l) = g[n] /\ Copies(l, n, g) BY <1>6, <2>2, Projections
  <2> QED BY <2>1, <2>3
<1> DEFINE Fine(k) ==
      g[k].ok # FALSE =>
        /\ Projected(g[k], k) /\ g[k].ok
        /\ \A j \in 0..k : OutStats(g[j])
        /\ \A j \in 1..k : ForeseenLeg(LegAt(leg, j), g[j-1], g[j], g[k].moves[j])
<1>8. Fine(0)
  <2>1. g[0] = Copy BY <1>7 DEF Copies
  <2>2. <<>> \in Seq(Move) /\ Len(<<>>) = 0 OBVIOUS
  <2>3. Projected(Copy, 0) /\ Copy.ok BY <2>2 DEF Copy, Projected, Floor
  <2>4. OutStats(Copy)
    <3>1. \A r \in Racks : (\E o \in Active : o.rack = r) <=> (out # None /\ out.rack = r) BY Others1
    <3>2. Copy.stat = floor.stat /\ DOMAIN floor.stat = Racks BY DEF Copy, Floor
    <3> QED BY <3>1, <3>2 DEF OutStats, Stats
  <2>5. \A j \in 0..0 : j = 0 OBVIOUS
  <2>6. 1..0 = {} OBVIOUS
  <2> QED BY <2>1, <2>3, <2>4, <2>5, <2>6
<1>9. ASSUME NEW k \in 1..n, Fine(k-1) PROVE Fine(k)
  <2> SUFFICES ASSUME g[k].ok # FALSE
               PROVE  /\ Projected(g[k], k) /\ g[k].ok
                      /\ \A j \in 0..k : OutStats(g[j])
                      /\ \A j \in 1..k : ForeseenLeg(LegAt(leg, j), g[j-1], g[j], g[k].moves[j])
    OBVIOUS
  <2>1. k \in Int /\ k - 1 \in Nat /\ (k-1) + 1 = k BY <1>1
  <2>2. PICK v, u, l : v = g[k-1] /\ u = g[k] /\ l = legs[k] OBVIOUS
  <2>3. u = ProjectNext(l, v) BY <1>7, <2>2 DEF Copies
  <2>4. v.ok # FALSE
    <3> SUFFICES ASSUME v.ok = FALSE PROVE FALSE OBVIOUS
    <3>1. u = v BY <2>3 DEF ProjectNext
    <3> QED BY <2>2, <3>1
  <2>5. /\ Projected(v, k-1) /\ v.ok
        /\ \A j \in 0..(k-1) : OutStats(g[j])
        /\ \A j \in 1..(k-1) : ForeseenLeg(LegAt(leg, j), g[j-1], g[j], v.moves[j])
    BY <1>9, <2>2, <2>4
  <2>6. Proper(l.from) /\ Proper(l.to) BY <1>4, <2>2
  <2>7. Projected(u, k)
    <3>1. Projected(ProjectNext(l, v), IF v.ok THEN (k-1) + 1 ELSE k-1)
      BY <2>1, <2>5, <2>6, ProjectedLeg DEF Proper
    <3> QED BY <2>1, <2>3, <2>5, <3>1
  <2>8. OutStats(v) BY <2>1, <2>2, <2>5
  <2>9. PICK m : m = ShownMove(l, v) OBVIOUS
  <2>10. ForeseenLeg(l, v, u, m) /\ OutStats(u) /\ u.moves = Append(v.moves, m)
    <3>1. v.at \in [Cells -> Racks \cup {None}] BY <2>5 DEF Projected
    <3>2. v.ok /\ u.ok # FALSE BY <2>2, <2>5
    <3>3. Advances(l, v, u) BY <2>3, <2>8, <3>1, <3>2, LegForeseen
    <3> QED BY <2>9, <3>3 DEF Advances
  <2>11. u.ok BY <2>2, <2>7 DEF Projected
  <2>12. u.moves[k] = m /\ \A j \in 1..(k-1) : u.moves[j] = v.moves[j]
    <3>1. v.moves \in Seq(Move) /\ Len(v.moves) = k-1 BY <2>5 DEF Projected
    <3>2. u.moves \in Seq(Move) /\ Len(u.moves) = k BY <2>7, <2>11 DEF Projected
    <3>3. PICK s \in Seq(Move) : s = v.moves BY <3>1
    <3>4. \A x : Len(Append(s, x)) = Len(s) + 1 /\ Append(s, x)[Len(s) + 1] = x
                 /\ \A j \in 1..Len(s) : Append(s, x)[j] = s[j]
      OBVIOUS
    <3> QED BY <2>1, <2>10, <3>1, <3>3, <3>4
  <2>13. \A j \in 0..k : OutStats(g[j])
    <3>1. \A j \in 0..k : j \in 0..(k-1) \/ j = k BY <2>1
    <3> QED BY <2>2, <2>5, <2>10, <3>1
  <2>14. \A j \in 1..k : ForeseenLeg(LegAt(leg, j), g[j-1], g[j], u.moves[j])
    <3>1. \A j \in 1..k : j \in 1..(k-1) \/ j = k BY <2>1
    <3>2. l = LegAt(leg, k) BY <1>3, <2>2
    <3> QED BY <2>2, <2>5, <2>10, <2>12, <3>1, <3>2
  <2> QED BY <2>2, <2>7, <2>11, <2>13, <2>14
<1> HIDE DEF Fine
<1>10. Fine(n)
  <2>1. n >= 1 => Fine(1) BY <1>8, <1>9, <1>1
  <2>2. n >= 2 => Fine(2) BY <2>1, <1>9, <1>1
  <2>3. n >= 3 => Fine(3) BY <2>2, <1>9, <1>1
  <2>4. n >= 4 => Fine(4) BY <2>3, <1>9, <1>1
  <2>5. n >= 5 => Fine(5) BY <2>4, <1>9, <1>1
  <2>6. n = 2 \/ n = 3 \/ n = 4 \/ n = 5 BY <1>1
  <2>7. CASE n = 2 BY <2>2, <2>7
  <2>8. CASE n = 3 BY <2>3, <2>8
  <2>9. CASE n = 4 BY <2>4, <2>9
  <2>10. CASE n = 5 BY <2>5, <2>10
  <2> QED BY <2>6, <2>7, <2>8, <2>9, <2>10
<1>11. w = g[n] /\ g[0] = Copy BY <1>5, <1>7 DEF Copies
<1>12. w.ok # FALSE OBVIOUS
<1>13. /\ \A j \in 0..n : OutStats(g[j])
       /\ \A j \in 1..n : ForeseenLeg(LegAt(leg, j), g[j-1], g[j], w.moves[j])
  BY <1>10, <1>11, <1>12 DEF Fine
<1>14. Foreseen(leg, g, w.moves) BY <1>1, <1>13 DEF Foreseen
<1> QED BY <1>11, <1>14

-----------------------------------------------------------------------------
(* The plan is kept *)

\* What the preview foresaw depends on the label, the rules and the others' order.
LEMMA SameForesight ==
  ASSUME UNCHANGED <<plan, table, out>>, NEW leg, NEW g, NEW ms, Foreseen(leg, g, ms)
  PROVE  Foreseen(leg, g, ms)'
<1>1. BusyRacks' = BusyRacks /\ BookedCells' = BookedCells /\ ActiveRules' = ActiveRules
  BY DEF BusyRacks, BookedCells, Seen, ActiveRules
<1>2. ASSUME NEW l, NEW v PROVE ProjectedSources(l, v)' = ProjectedSources(l, v)
  BY <1>1 DEF ProjectedSources
<1>3. ASSUME NEW l, NEW s, NEW v PROVE ProjectedTargets(l, s, v)' = ProjectedTargets(l, s, v)
  BY <1>1 DEF ProjectedTargets
<1>4. ASSUME NEW l, NEW v PROVE ShownSource(l, v)' = ShownSource(l, v)
  BY <1>2 DEF ShownSource, Eldest
<1>5. ASSUME NEW l, NEW v PROVE Possible(l, v)' <=> Possible(l, v)
  <2>1. PICK s : s = ShownSource(l, v) OBVIOUS
  <2>2. s = ShownSource(l, v)' BY <1>4, <2>1
  <2>3. Possible(l, v) <=> ProjectedSources(l, v) # {} /\ ProjectedTargets(l, s, v) # {}
    BY <2>1 DEF Possible
  <2>4. Possible(l, v)' <=> ProjectedSources(l, v)' # {} /\ ProjectedTargets(l, s, v)' # {}
    BY <2>2 DEF Possible
  <2> QED BY <1>2, <1>3, <2>3, <2>4
<1>6. ASSUME NEW l, NEW v PROVE ShownMove(l, v)' = ShownMove(l, v)
  <2>1. PICK s : s = ShownSource(l, v) OBVIOUS
  <2>2. s = ShownSource(l, v)' BY <1>4, <2>1
  <2>3. PICK T : T = ProjectedTargets(l, s, v) OBVIOUS
  <2>4. T = ProjectedTargets(l, s, v)' BY <1>3, <2>3
  <2>5. ShownMove(l, v) = [rack |-> v.at[s], src |-> s, dst |-> First(l.to, T)]
    BY <2>1, <2>3 DEF ShownMove
  <2>6. ShownMove(l, v)' = [rack |-> v.at[s], src |-> s, dst |-> First(l.to, T)]
    BY <2>2, <2>4 DEF ShownMove
  <2> QED BY <2>5, <2>6
<1>7. ASSUME NEW m, NEW mat, NEW stat PROVE VirtualRule(m, mat, stat)' = VirtualRule(m, mat, stat)
  <2>1. PICK ctx : ctx = Context(m, mat, stat) OBVIOUS
  <2>2. ctx = Context(m, mat, stat)' BY <2>1 DEF Context
  <2>3. PICK R, t : R = ActiveRules /\ t = table OBVIOUS
  <2>4. R = ActiveRules' /\ t = table' BY <1>1, <2>3
  <2>5. PICK tied : tied = Tied(t, R, ctx) OBVIOUS
  <2>6. VirtualRule(m, mat, stat) = IF tied = {} THEN 0 ELSE Least(tied)
    BY <2>1, <2>3, <2>5 DEF VirtualRule
  <2>7. VirtualRule(m, mat, stat)' = IF tied = {} THEN 0 ELSE Least(tied)
    BY <2>2, <2>4, <2>5 DEF VirtualRule
  <2> QED BY <2>6, <2>7
<1>8. ASSUME NEW i, NEW mat, NEW stat PROVE After(i, mat, stat)' = After(i, mat, stat)
  BY DEF After
<1>9. ASSUME NEW l, NEW v, NEW u, NEW m, ForeseenLeg(l, v, u, m) PROVE ForeseenLeg(l, v, u, m)'
  <2>1. PICK mat : mat = v.mat[m.rack] OBVIOUS
  <2>2. PICK i : i = VirtualRule(m, mat, "available") OBVIOUS
  <2>3. i = VirtualRule(m, mat, "available")' BY <1>7, <2>2
  <2>4. u.mat = [v.mat EXCEPT ![m.rack] = After(i, mat, "available")'[1]]
    BY <1>8, <1>9, <2>1, <2>2 DEF ForeseenLeg
  <2>5. Possible(l, v)' /\ m = ShownMove(l, v)' /\ u.at = Put(v.at, m)
    BY <1>5, <1>6, <1>9 DEF ForeseenLeg
  <2> QED BY <2>1, <2>3, <2>4, <2>5 DEF ForeseenLeg
<1>10. ASSUME NEW v, OutStats(v) PROVE OutStats(v)' BY <1>10 DEF OutStats
<1>11. ASSUME NEW k PROVE LegAt(leg, k)' = LegAt(leg, k) BY DEF LegAt
<1>12. ASSUME NEW k \in 1..Len(plan.legs) PROVE ForeseenLeg(LegAt(leg, k), g[k-1], g[k], ms[k])'
  <2>1. PICK l, v, u, m : l = LegAt(leg, k) /\ v = g[k-1] /\ u = g[k] /\ m = ms[k] OBVIOUS
  <2>2. ForeseenLeg(l, v, u, m)' BY <1>9, <2>1 DEF Foreseen
  <2>3. l = LegAt(leg, k)' BY <1>11, <2>1
  <2> QED BY <2>1, <2>2, <2>3
<1>13. ASSUME NEW k \in 0..Len(plan.legs) PROVE OutStats(g[k])'
  <2>1. PICK v : v = g[k] OBVIOUS
  <2> QED BY <1>10, <2>1 DEF Foreseen
<1> QED BY <1>12, <1>13 DEF Foreseen

\* What the first leg may settle on depends on the floor and the open orders.
LEMMA SameFirstChoices ==
  ASSUME UNCHANGED <<floor, plan, out>>, Active' = Active
  PROVE  FirstChoices(plan.legs[1])' = FirstChoices(plan.legs[1])
<1>1. PICK taken : taken = Reserved OBVIOUS
<1>2. taken = Reserved' BY <1>1 DEF Reserved
<1>3. ASSUME NEW end, NEW mat PROVE Sources(end, mat)' = Sources(end, mat)
  BY DEF Sources, ReadyAt, Carries
<1>4. ASSUME NEW S PROVE Oldest(S)' = Oldest(S)
  <2>1. PICK at : at = floor.at OBVIOUS
  <2>2. at = floor'.at BY <2>1
  <2> QED BY <2>1, <2>2 DEF Oldest
<1>5. ASSUME NEW i, NEW end, NEW src PROVE FreeIn(i, end, src, taken)' = FreeIn(i, end, src, taken)
  BY DEF FreeIn
<1>6. ASSUME NEW end, NEW src PROVE TargetsBeside(end, src, taken)' = TargetsBeside(end, src, taken)
  BY <1>5 DEF TargetsBeside
<1>7. ASSUME NEW end, NEW src PROVE Targets(end, src)' = Targets(end, src)
  BY <1>1, <1>2, <1>6 DEF Targets
<1>8. ASSUME NEW from, NEW mat, NEW to PROVE Choices(from, mat, to)' = Choices(from, mat, to)
  <2>1. PICK S : S = Sources(from, mat) OBVIOUS
  <2>2. S = Sources(from, mat)' BY <1>3, <2>1
  <2>3. PICK src : src = Oldest(S) OBVIOUS
  <2>4. src = Oldest(S)' BY <1>4, <2>3
  <2>5. PICK T : T = Targets(to, src) OBVIOUS
  <2>6. T = Targets(to, src)' BY <1>7, <2>5
  <2>7. Choices(from, mat, to) = IF S = {} THEN {} ELSE {MoveFrom(src, d) : d \in T}
    BY <2>1, <2>3, <2>5 DEF Choices
  <2>8. Choices(from, mat, to)' = IF S = {} THEN {} ELSE {MoveFrom(src, d)' : d \in T}
    BY <2>2, <2>4, <2>6 DEF Choices
  <2>9. ASSUME NEW d PROVE MoveFrom(src, d)' = MoveFrom(src, d) BY DEF MoveFrom
  <2> QED BY <2>7, <2>8, <2>9
<1>9. PICK leg : leg = plan.legs[1] OBVIOUS
<1>10. leg = (plan.legs[1])' BY <1>9
<1>11. FirstChoices(leg)' = FirstChoices(leg)
  <2>1. PICK from, to, mat : from = AreaEnd(leg.from) /\ to = AreaEnd(leg.to) /\ mat = leg.mat OBVIOUS
  <2>2. CASE Configured(leg) BY <1>8, <2>1, <2>2 DEF FirstChoices
  <2>3. CASE ~Configured(leg) BY <1>8, <2>1, <2>3 DEF FirstChoices
  <2> QED BY <2>2, <2>3
<1> QED BY <1>9, <1>10, <1>11

\* The copy of the floor as it was before the order that is open, and as it is else.
Stage == IF Moving THEN Len(made) - 1 ELSE Len(made)
Reached(g) == floor.at = g[Stage].at /\ floor.mat = g[Stage].mat

\* While nobody else touches the floor, it goes from one copy of the preview to the
\* next: the floor of the moment, and not the copies, is what a leg selects from, so
\* the plan alone would not be inductive.
Quiet ==
  /\ OutSeen /\ Stats /\ phase # "waiting"
  /\ phase \in {"scan", "refused"} => promised = <<>>
  /\ phase \in {"scan", "book"} => arrived = None
  /\ phase \notin {"scan", "refused"} => \E leg, g : Foreseen(leg, g, promised) /\ Reached(g)
  /\ phase = "book" => FirstChoices(plan.legs[1]) = {promised[1]}
  /\ phase = "claim" => /\ pick = promised[Len(made) + 1]
                        /\ Settled(pick, NextLeg.from, NextLeg.mat, NextLeg.to)
  /\ \A k \in 1..Len(made) : made[k] = promised[k]

KeptInv == outside \in Nat /\ table \in Tables /\ (outside = 0 => Quiet)

LEMMA InitQuiet == ASSUME Regular, Init PROVE KeptInv
<1>1. Active = IF out = None THEN {} ELSE {out} BY DEF Init, Active, Open
<1>2. OutSeen
  <2>1. out \in Others BY DEF Init
  <2>2. out # None => out.status \in SeenStatuses BY <2>1 DEF Regular
  <2> QED BY <2>2 DEF OutSeen, Seen
<1>3. Stats
  <2> SUFFICES ASSUME NEW r \in Racks
               PROVE  floor.stat[r] = IF \E o \in Active : o.rack = r THEN "reserved" ELSE "available"
    BY DEF Stats
  <2>1. floor \in Floors BY DEF Init
  <2>2. floor.stat[r] \in {"available", "reserved"} BY <2>1 DEF Regular
  <2>3. floor.stat[r] = "reserved" <=> out # None /\ out.rack = r BY DEF Init
  <2> QED BY <1>1, <2>2, <2>3
<1>4. Len(made) = 0
  <2>1. Len(<<>>) = 0 OBVIOUS
  <2> QED BY <2>1 DEF Init
<1> QED BY <1>2, <1>3, <1>4 DEF Init, KeptInv, Quiet

\* Between two orders the copy that has been reached is the floor.
LEMMA AtCopy ==
  ASSUME Floor(floor), ~Moving, OutSeen, Stats, NEW v, OutStats(v), v.at = floor.at, v.mat = floor.mat
  PROVE  Like(v)
<1>1. \A r \in Racks : (\E o \in Active : o.rack = r) <=> (out # None /\ out.rack = r) BY Others1
<1> QED BY <1>1 DEF Like, OutStats, Stats

LEMMA PreviewQuiet == ASSUME Regular, IInv, Quiet, table \in Tables, Preview PROVE Quiet'
<1>1. /\ phase = "scan" /\ UNCHANGED <<floor, plan, table, out, made, pick, arrived, outside, away>>
  BY DEF Preview
<1>2. /\ Floor(floor) /\ plan \in Plans /\ ~Moving /\ OutSeen /\ Stats /\ arrived = None /\ promised = <<>>
      /\ Len(made) = 0
  BY <1>1 DEF IInv, FloorInv, ChainInv, Moving, Quiet
<1>3. phase' \in {"book", "refused"} BY DEF Preview, Refused
<1>4. Active' = Active BY <1>1, <1>3 DEF Active, Open
<1>5. OutSeen' /\ Stats' BY <1>1, <1>2, <1>4 DEF OutSeen, Seen, Stats
<1>6. CASE \E leg \in Resolved(plan.legs[1]) :
             LET w == Projection([plan.legs EXCEPT ![1] = leg])
             IN IF w.ok THEN promised' = w.moves /\ phase' = "book" ELSE Refused
  <2>1. PICK leg \in Resolved(plan.legs[1]) :
          LET w == Projection([plan.legs EXCEPT ![1] = leg])
          IN IF w.ok THEN promised' = w.moves /\ phase' = "book" ELSE Refused
    BY <1>6
  <2>2. PICK w : w = Projection([plan.legs EXCEPT ![1] = leg]) OBVIOUS
  <2>3. IF w.ok THEN promised' = w.moves /\ phase' = "book" ELSE Refused BY <2>1, <2>2
  <2>4. CASE w.ok
    <3>1. promised' = w.moves /\ phase' = "book" BY <2>3, <2>4
    <3>2. PICK ms : ms = w.moves OBVIOUS
    <3>3. PICK g : g[0] = Copy /\ Foreseen(leg, g, ms) BY <1>2, <2>2, <2>4, <3>2, Foresight
    <3>4. Foreseen(leg, g, ms)' BY <1>1, <3>3, SameForesight
    <3>5. Stage' = 0 BY <1>1, <1>2, <3>1 DEF Stage, Moving
    <3>6. PICK v : v = g[0] OBVIOUS
    <3>7. v.at = floor.at /\ v.mat = floor.mat BY <3>3, <3>6 DEF Copy
    <3>8. Reached(g)' BY <1>1, <3>5, <3>6, <3>7 DEF Reached
    <3>9. 1 \in 1..Len(plan.legs) /\ 0 \in 0..Len(plan.legs) BY <1>2, ChainPlanAssumption
    <3>10. OutStats(v) BY <3>3, <3>6, <3>9 DEF Foreseen
    <3>11. Like(v) BY <1>2, <3>7, <3>10, AtCopy
    <3>12. Possible(leg, v) /\ ms[1] = ShownMove(leg, v)
      <4>1. ForeseenLeg(LegAt(leg, 1), g[1-1], g[1], ms[1]) BY <3>3, <3>9 DEF Foreseen
      <4>2. 1 - 1 = 0 /\ LegAt(leg, 1) = leg BY DEF LegAt
      <4> QED BY <3>6, <4>1, <4>2 DEF ForeseenLeg
    <3>13. FirstChoices(plan.legs[1]) = {ms[1]} BY <1>2, <3>11, <3>12, SameFirst
    <3>14. FirstChoices(plan.legs[1])' = {ms[1]} BY <1>1, <1>4, <3>13, SameFirstChoices
    <3>15. \E l, h : Foreseen(l, h, ms)' /\ Reached(h)' BY <3>4, <3>8
    <3>16. 1..0 = {} OBVIOUS
    <3> QED BY <1>1, <1>2, <1>5, <3>1, <3>2, <3>14, <3>15, <3>16 DEF Quiet
  <2>5. CASE ~w.ok
    <3>1. phase' = "refused" /\ promised' = promised BY <2>3, <2>5 DEF Refused
    <3> QED BY <1>1, <1>2, <1>5, <3>1 DEF Quiet
  <2> QED BY <2>4, <2>5
<1>7. CASE Refused
  <2>1. phase' = "refused" /\ promised' = promised BY <1>7 DEF Refused
  <2> QED BY <1>1, <1>2, <1>5, <2>1 DEF Quiet
<1> QED BY <1>6, <1>7 DEF Preview

\* A created order reserves its rack, and leaves the floor where it was.
LEMMA TakenQuiet ==
  ASSUME IInv, Quiet, ~Moving, NEW m \in Move, m = promised[Len(made) + 1], Take(m),
         UNCHANGED <<plan, table, out, promised, arrived>>, phase \notin {"scan", "refused"}
  PROVE  Quiet'
<1>1. made' = Append(made, m) /\ floor' = [floor EXCEPT !.stat[m.rack] = "reserved"] /\ phase' = "moving"
  BY DEF Take
<1>2. Floor(floor) /\ made \in Seq(Move) /\ OutSeen /\ Stats BY DEF IInv, FloorInv, ChainInv, Quiet
<1>3. PICK n \in Nat : n = Len(made) BY <1>2
<1>4. /\ Len(made') = n + 1 /\ made'[n + 1] = m /\ \A k \in 1..n : made'[k] = made[k]
  BY <1>1, <1>2, <1>3
<1>5. /\ floor'.at = floor.at /\ floor'.mat = floor.mat /\ floor'.stat[m.rack] = "reserved"
      /\ \A q \in Racks : q # m.rack => floor'.stat[q] = floor.stat[q]
  <2>1. PICK h : h = floor' OBVIOUS
  <2>2. PICK r \in Racks : r = m.rack BY DEF Move
  <2>3. Written(floor, h, r, "reserved") BY <1>1, <1>2, <2>1, <2>2, Restated
  <2> QED BY <2>1, <2>2, <2>3 DEF Written
<1>6. Active' = Active \cup {m}
  <2>1. Open' = {m} BY <1>1, <1>3, <1>4 DEF Open
  <2>2. Open = {} BY DEF Open, Moving
  <2> QED BY <2>1, <2>2 DEF Active
<1>7. Stats' BY <1>2, <1>5, <1>6 DEF Stats
<1>8. OutSeen' BY <1>2 DEF OutSeen, Seen
<1>9. PICK leg, g, ms : ms = promised /\ Foreseen(leg, g, ms) /\ Reached(g) BY DEF Quiet
<1>10. Foreseen(leg, g, ms)' BY <1>9, SameForesight
<1>11. Stage' = n /\ Stage = n BY <1>1, <1>3, <1>4 DEF Stage, Moving
<1>12. Reached(g)' BY <1>5, <1>9, <1>11 DEF Reached
<1>13. \A k \in 1..Len(made') : made'[k] = promised'[k]
  <2>1. \A k \in 1..(n + 1) : k \in 1..n \/ k = n + 1 BY <1>3
  <2>2. \A k \in 1..n : made[k] = promised[k] BY <1>3 DEF Quiet
  <2> QED BY <1>3, <1>4, <2>1, <2>2
<1>14. \E l, h : Foreseen(l, h, ms)' /\ Reached(h)' BY <1>10, <1>12
<1> QED BY <1>1, <1>7, <1>8, <1>9, <1>13, <1>14 DEF Quiet

LEMMA BookQuiet == ASSUME IInv, Quiet, Book PROVE Quiet'
<1>1. phase = "book" /\ UNCHANGED <<plan, table, out, promised, pick, arrived, outside, away>>
  BY DEF Book
<1>2. FirstChoices(plan.legs[1]) = {promised[1]} BY <1>1 DEF Quiet
<1>3. PICK m : m = promised[1] /\ Take(m) BY <1>2 DEF Book
<1>4. m \in Move
  <2>1. promised \in Seq(Move) /\ Len(promised) = Len(plan.legs) /\ Len(plan.legs) \in 2..5
    BY <1>1, Lengths DEF IInv, ChainInv
  <2>2. PICK s \in Seq(Move) : s = promised BY <2>1
  <2>3. PICK n \in 2..5 : n = Len(s) BY <2>1, <2>2
  <2>4. 1 \in 1..n BY <2>3
  <2> QED BY <1>3, <2>2, <2>3, <2>4
<1>5. m = promised[Len(made) + 1]
  <2>1. Len(made) = 0 BY <1>1 DEF IInv, ChainInv
  <2> QED BY <1>3, <2>1
<1> QED BY <1>1, <1>3, <1>4, <1>5, TakenQuiet DEF Moving

LEMMA ClaimQuiet == ASSUME IInv, Quiet, Claim PROVE Quiet'
<1>1. /\ phase = "claim" /\ UNCHANGED <<plan, table, out, promised, arrived, outside, away>>
  BY DEF Claim
<1>2. pick = promised[Len(made) + 1] /\ Settled(pick, NextLeg.from, NextLeg.mat, NextLeg.to)
  BY <1>1 DEF Quiet
<1>3. \A o \in Active : o.rack # pick.rack
  BY <1>2, Opened DEF IInv, Settled, Ready
<1>4. Claimable(pick) BY <1>2, <1>3 DEF Settled, Claimable
<1>5. Take(pick) BY <1>4 DEF Claim
<1>6. PICK m : m = pick OBVIOUS
<1>7. m \in Move /\ m = promised[Len(made) + 1] /\ Take(m) BY <1>2, <1>5, <1>6 DEF Settled
<1> QED BY <1>1, <1>7, TakenQuiet DEF Moving

LEMMA ChooseQuiet == ASSUME Regular, IInv, Quiet, Choose PROVE Quiet'
<1>1. phase = "choose" /\ UNCHANGED <<floor, plan, table, out, promised, made, arrived, outside>>
  BY DEF Choose
<1>2. /\ Floor(floor) /\ plan \in Plans /\ ~Moving /\ OutSeen /\ Stats
      /\ made \in Seq(Move) /\ Len(made) > 0 /\ Len(made) < Len(plan.legs)
  BY <1>1 DEF IInv, FloorInv, ChainInv, Moving, Quiet
<1>3. PICK n \in 2..5 : n = Len(plan.legs) BY <1>2, ChainPlanAssumption
<1>4. PICK k \in Nat : k = Len(made) BY <1>2
<1>5. k + 1 \in 1..n /\ k \in 0..n /\ (k + 1) - 1 = k /\ k + 1 # 1 BY <1>2, <1>3, <1>4
<1>6. PICK leg, g, ms : ms = promised /\ Foreseen(leg, g, ms) /\ Reached(g) BY <1>1 DEF Quiet
<1>7. PICK l : l = plan.legs[k + 1] OBVIOUS
<1>8. NextLeg = l BY <1>4, <1>7 DEF NextLeg
<1>9. PICK v : v = g[k] OBVIOUS
<1>10. v.at = floor.at /\ v.mat = floor.mat BY <1>2, <1>4, <1>6, <1>9 DEF Reached, Stage
<1>11. OutStats(v) BY <1>3, <1>5, <1>6, <1>9 DEF Foreseen
<1>12. Like(v) BY <1>2, <1>10, <1>11, AtCopy
<1>13. Possible(l, v) /\ ms[k + 1] = ShownMove(l, v)
  <2>1. ForeseenLeg(LegAt(leg, k + 1), g[(k + 1) - 1], g[k + 1], ms[k + 1])
    BY <1>3, <1>5, <1>6 DEF Foreseen
  <2>2. LegAt(leg, k + 1) = l BY <1>5, <1>7 DEF LegAt
  <2>3. g[(k + 1) - 1] = v BY <1>5, <1>9
  <2> QED BY <2>1, <2>2, <2>3 DEF ForeseenLeg
<1>14. /\ Plain(l.from) /\ Plain(l.to) /\ l.mat # Unassigned
       /\ plan.sameCell => l.to.mode \in {"cell", "area"}
  <2>1. Plain(l.from) /\ Plain(l.to) BY <1>2, <1>3, <1>5, <1>7, PlainLegs
  <2>2. plan.legs \in Seq(Range(plan.legs)) BY <1>2, PlansAssumption
  <2>3. k + 1 \in DOMAIN plan.legs BY <1>3, <1>5, <2>2
  <2>4. l.mat # Unassigned /\ (plan.sameCell => l.to.mode \in {"cell", "area"})
    BY <1>2, <1>7, <2>3 DEF Regular
  <2> QED BY <2>1, <2>4
<1>15. Choices(l.from, l.mat, l.to) = {ms[k + 1]} BY <1>2, <1>12, <1>13, <1>14, SameChoices
<1>16. pick' = ms[k + 1] /\ phase' = "claim" BY <1>8, <1>15 DEF Choose
<1>17. Settled(ms[k + 1], l.from, l.mat, l.to)
  <2>1. PICK from, mat, to : from = l.from /\ mat = l.mat /\ to = l.to OBVIOUS
  <2>2. PICK m : m = ms[k + 1] OBVIOUS
  <2>3. m \in Choices(from, mat, to) BY <1>15, <2>1, <2>2
  <2>4. Proper(from) /\ Proper(to) BY <1>14, <2>1 DEF Plain
  <2> QED BY <1>2, <2>1, <2>2, <2>3, <2>4, ChoicesFit
<1>18. Active' = Active BY <1>1, <1>16 DEF Active, Open
<1>19. Settled(pick, NextLeg.from, NextLeg.mat, NextLeg.to)'
  <2>1. NextLeg' = l BY <1>1, <1>8 DEF NextLeg
  <2>2. Reserved' = Reserved BY <1>18 DEF Reserved
  <2>3. ASSUME NEW r, NEW mat PROVE Carries(r, mat)' <=> Carries(r, mat) BY <1>1 DEF Carries
  <2>4. ASSUME NEW end PROVE Within(end)' = Within(end) OBVIOUS
  <2> QED BY <1>1, <1>16, <1>17, <2>1, <2>2, <2>3, <2>4 DEF Settled
<1>20. OutSeen' /\ Stats' BY <1>1, <1>2, <1>18 DEF OutSeen, Seen, Stats
<1>21. Foreseen(leg, g, ms)' BY <1>1, <1>6, SameForesight
<1>22. Reached(g)'
  <2>1. Stage' = k /\ Stage = k BY <1>1, <1>2, <1>4, <1>16 DEF Stage, Moving
  <2> QED BY <1>1, <1>6, <2>1 DEF Reached
<1>23. \A j \in 1..Len(made) : made[j] = promised[j] BY DEF Quiet
<1>24. \E a, h : Foreseen(a, h, ms)' /\ Reached(h)' BY <1>21, <1>22
<1>25. pick' = promised'[Len(made') + 1] BY <1>1, <1>4, <1>6, <1>16
<1> QED BY <1>1, <1>6, <1>16, <1>19, <1>20, <1>23, <1>24, <1>25 DEF Quiet

LEMMA CompleteQuiet == ASSUME Regular, IInv, Quiet, table \in Tables, Complete PROVE Quiet'
<1>1. /\ phase = "moving" /\ floor' = Landed(Last)
      /\ phase' \in {"done", "choose"}
      /\ UNCHANGED <<plan, table, out, promised, made, pick, outside, away>>
  BY DEF Complete, Last
<1>2. /\ Floor(floor) /\ plan \in Plans /\ Moving /\ OutSeen /\ Stats
      /\ made \in Seq(Move) /\ Len(made) \in 1..Len(plan.legs)
  BY <1>1 DEF IInv, FloorInv, ChainInv, Moving, Quiet
<1>3. PICK n \in 2..5 : n = Len(plan.legs) BY <1>2, ChainPlanAssumption
<1>4. PICK k \in 1..n : k = Len(made) BY <1>2, <1>3
<1>5. k \in Nat /\ k - 1 \in 0..n /\ k \in 0..n BY <1>3, <1>4
<1>6. PICK leg, g, ms : ms = promised /\ Foreseen(leg, g, ms) /\ Reached(g) BY <1>1 DEF Quiet
<1>7. PICK m \in Move : m = Last /\ m = ms[k]
  <2>1. PICK s \in Seq(Move) : s = made BY <1>2
  <2>2. made[k] \in Move BY <1>4, <2>1
  <2>3. made[k] = promised[k] BY <1>4 DEF Quiet
  <2> QED BY <1>4, <1>6, <2>2, <2>3 DEF Last
<1>8. PICK v, u : v = g[k-1] /\ u = g[k] OBVIOUS
<1>r. PICK r \in Racks : r = m.rack BY <1>7 DEF Move
<1>9. PICK mat : r \in Racks /\ r = m.rack /\ mat = floor.mat[r] BY <1>r
<1>10. v.at = floor.at /\ v.mat = floor.mat BY <1>2, <1>4, <1>6, <1>8 DEF Reached, Stage
<1>11. PICK i : i = VirtualRule(m, mat, "available") OBVIOUS
<1>12. PICK after : after = After(i, mat, "available") OBVIOUS
<1>13. u.at = Put(floor.at, m) /\ u.mat = [floor.mat EXCEPT ![r] = after[1]]
  <2>1. ForeseenLeg(LegAt(leg, k), g[k-1], g[k], ms[k]) BY <1>3, <1>6 DEF Foreseen
  <2>2. PICK l : l = LegAt(leg, k) OBVIOUS
  <2>3. ForeseenLeg(l, v, u, m) BY <1>7, <1>8, <2>1, <2>2
  <2> QED BY <1>9, <1>10, <1>11, <1>12, <2>3 DEF ForeseenLeg
<1>14. m # out
  <2>1. None \notin Move BY OthersAssumption
  <2>2. out # None => out.rack # m.rack BY <1>2, <1>7 DEF IInv, FloorInv
  <2> QED BY <2>1, <2>2
<1>15. /\ floor'.at = u.at /\ floor'.mat = u.mat
       /\ floor'.stat = [floor.stat EXCEPT ![r] = after[2]]
  <2>1. Chosen(table, ActiveRules, Context(m, mat, "available")) = i BY <1>11, SameRule
  <2>2. Landed(m) = [at |-> Put(floor.at, m), mat |-> [floor.mat EXCEPT ![r] = after[1]],
                     stat |-> [floor.stat EXCEPT ![r] = after[2]]]
    BY <1>9, <1>12, <1>14, <2>1 DEF Landed
  <2> QED BY <1>1, <1>7, <1>13, <2>2
<1>16. after[2] = "available" BY <1>11, <1>12, StaysAvailable
<1>17. Active = {m} \cup {o \in {out} : o # None} /\ Active' = {o \in {out} : o # None}
  BY <1>1, <1>7 DEF Active, Open, Last
<1>18. Stats'
  <2>1. out # None => out.rack # r BY <1>2, <1>7, <1>9 DEF IInv, FloorInv
  <2>2. DOMAIN floor.stat = Racks BY <1>2 DEF Floor
  <2>3. floor'.stat[r] = "available" /\ \A q \in Racks : q # r => floor'.stat[q] = floor.stat[q]
    BY <1>9, <1>15, <1>16, <2>2
  <2>4. ~\E o \in Active' : o.rack = r BY <1>17, <2>1
  <2>5. \A q \in Racks : q # r => ((\E o \in Active' : o.rack = q) <=> (\E o \in Active : o.rack = q))
    BY <1>9, <1>17
  <2> QED BY <1>2, <2>3, <2>4, <2>5 DEF Stats
<1>19. OutSeen' BY <1>1, <1>2 DEF OutSeen, Seen
<1>20. Foreseen(leg, g, ms)' BY <1>1, <1>6, SameForesight
<1>21. Reached(g)'
  <2>1. Stage' = k BY <1>1, <1>4 DEF Stage, Moving
  <2> QED BY <1>8, <1>15, <2>1 DEF Reached
<1>22. \A j \in 1..Len(made) : made[j] = promised[j] BY DEF Quiet
<1>23. \E a, h : Foreseen(a, h, ms)' /\ Reached(h)' BY <1>20, <1>21
<1> QED BY <1>1, <1>6, <1>18, <1>19, <1>22, <1>23 DEF Quiet

LEMMA CloseQuiet == ASSUME IInv, Quiet, Close PROVE Quiet'
<1>1. /\ arrived # None /\ phase \notin {"choose", "claim"} /\ arrived' = None
      /\ floor' = [floor EXCEPT !.stat[arrived] =
                     IF \E o \in Active : o.rack = arrived THEN @ ELSE "available"]
      /\ UNCHANGED <<plan, table, out, promised, made, pick, phase, outside, away>>
  BY DEF Close
<1>2. Floor(floor) /\ arrived \in Racks /\ Stats /\ OutSeen
  BY <1>1 DEF IInv, FloorInv, ChainInv, Quiet
<1>3. floor = [at |-> floor.at, mat |-> floor.mat, stat |-> floor.stat] /\ DOMAIN floor.stat = Racks
  BY <1>2 DEF Floor
<1>4. /\ floor'.at = floor.at /\ floor'.mat = floor.mat
      /\ \A q \in Racks : floor'.stat[q] = floor.stat[q]
  <2>1. CASE \E o \in Active : o.rack = arrived BY <1>1, <1>2, <1>3, <2>1
  <2>2. CASE ~\E o \in Active : o.rack = arrived
    <3>1. floor.stat[arrived] = "available" BY <1>2, <2>2 DEF Stats
    <3> QED BY <1>1, <1>2, <1>3, <2>2, <3>1
  <2> QED BY <2>1, <2>2
<1>5. Active' = Active BY <1>1 DEF Active, Open
<1>6. Stats' /\ OutSeen' BY <1>1, <1>2, <1>4, <1>5 DEF Stats, OutSeen, Seen
<1>7. phase \notin {"scan", "book"} BY <1>1 DEF Quiet
<1>8. CASE phase = "refused"
  <2>1. \A k \in 1..Len(made) : made[k] = promised[k] BY DEF Quiet
  <2> QED BY <1>1, <1>6, <1>8, <2>1 DEF Quiet
<1>9. CASE phase # "refused"
  <2>1. PICK leg, g, ms : ms = promised /\ Foreseen(leg, g, ms) /\ Reached(g) BY <1>7, <1>9 DEF Quiet
  <2>2. Foreseen(leg, g, ms)' BY <1>1, <2>1, SameForesight
  <2>3. Reached(g)'
    <3>1. PICK k : k = Stage OBVIOUS
    <3>2. k = Stage' BY <1>1, <3>1 DEF Stage, Moving
    <3> QED BY <1>4, <2>1, <3>1, <3>2 DEF Reached
  <2>4. \E a, h : Foreseen(a, h, ms)' /\ Reached(h)' BY <2>2, <2>3
  <2>5. phase # "waiting" /\ \A k \in 1..Len(made) : made[k] = promised[k] BY DEF Quiet
  <2> QED BY <1>1, <1>6, <1>7, <1>9, <2>1, <2>4, <2>5 DEF Quiet
<1> QED BY <1>8, <1>9

LEMMA StutterQuiet == ASSUME Quiet, UNCHANGED vars PROVE Quiet'
<1>1. UNCHANGED <<floor, plan, table, out, promised, made, pick, phase, arrived, outside, away>>
  BY DEF vars
<1>2. Active' = Active BY <1>1 DEF Active, Open
<1>3. Stats' /\ OutSeen' BY <1>1, <1>2 DEF Quiet, Stats, OutSeen, Seen
<1>4. FirstChoices(plan.legs[1])' = FirstChoices(plan.legs[1]) BY <1>1, <1>2, SameFirstChoices
<1>5. ASSUME phase = "claim" PROVE Settled(pick, NextLeg.from, NextLeg.mat, NextLeg.to)'
  <2>1. Settled(pick, NextLeg.from, NextLeg.mat, NextLeg.to) BY <1>5 DEF Quiet
  <2>2. Reserved' = Reserved BY <1>2 DEF Reserved
  <2>3. NextLeg' = NextLeg BY <1>1 DEF NextLeg
  <2>4. ASSUME NEW r, NEW mat PROVE Carries(r, mat)' <=> Carries(r, mat) BY <1>1 DEF Carries
  <2> QED BY <1>1, <2>1, <2>2, <2>3, <2>4 DEF Settled
<1>6. ASSUME phase \notin {"scan", "refused"}
      PROVE  \E leg, g : Foreseen(leg, g, promised)' /\ Reached(g)'
  <2>1. PICK leg, g, ms : ms = promised /\ Foreseen(leg, g, ms) /\ Reached(g) BY <1>6 DEF Quiet
  <2>2. Foreseen(leg, g, ms)' BY <1>1, <2>1, SameForesight
  <2>3. PICK k : k = Stage OBVIOUS
  <2>4. k = Stage' BY <1>1, <2>3 DEF Stage, Moving
  <2>5. Reached(g)' BY <1>1, <2>1, <2>3, <2>4 DEF Reached
  <2>6. \E a, h : Foreseen(a, h, ms)' /\ Reached(h)' BY <2>2, <2>5
  <2> QED BY <1>1, <2>1, <2>6
<1> QED BY <1>1, <1>3, <1>4, <1>5, <1>6 DEF Quiet

LEMMA NextQuiet == ASSUME Regular, IInv, KeptInv, [Next]_vars PROVE KeptInv'
<1>1. table' = table
  BY DEF Next, vars, Preview, Book, Complete, Choose, Claim, Recover, Close, OtherBooks, OtherArrives,
         OtherCancels, Outside
<1>2. CASE Outside
  <2>1. outside' = outside + 1 BY <1>2 DEF Outside
  <2>2. outside' \in Nat /\ outside' # 0 BY <2>1 DEF KeptInv
  <2> QED BY <1>1, <2>2 DEF KeptInv
<1>3. CASE ~Outside
  <2>1. outside' = outside
    BY <1>3 DEF Next, vars, Preview, Book, Complete, Choose, Claim, Recover, Close, OtherBooks,
                OtherArrives, OtherCancels
  <2>2. ASSUME outside = 0 PROVE Quiet'
    <3>1. Quiet /\ table \in Tables BY <2>2 DEF KeptInv
    <3>2. ~Recover BY <3>1 DEF Quiet, Recover
    <3>3. ~OtherBooks /\ ~OtherArrives /\ ~OtherCancels BY <1>3 DEF OtherBooks, OtherArrives, OtherCancels
    <3>4. CASE Preview BY <3>1, <3>4, PreviewQuiet
    <3>5. CASE Book BY <3>1, <3>5, BookQuiet
    <3>6. CASE Complete BY <3>1, <3>6, CompleteQuiet
    <3>7. CASE Choose BY <3>1, <3>7, ChooseQuiet
    <3>8. CASE Claim BY <3>1, <3>8, ClaimQuiet
    <3>9. CASE Close BY <3>1, <3>9, CloseQuiet
    <3>10. CASE UNCHANGED vars BY <3>1, <3>10, StutterQuiet
    <3> QED BY <3>2, <3>3, <3>4, <3>5, <3>6, <3>7, <3>8, <3>9, <3>10 DEF Next
  <2> QED BY <1>1, <2>1, <2>2 DEF KeptInv
<1> QED BY <1>2, <1>3

\* With regular floors, labels and rules, and as long as nobody else touches the
\* floor, a chain of any length the labels allow makes the orders its preview
\* showed, rack by rack and cell by cell, and neither stops nor is refused on the
\* way: the two searches agree at each leg (fifo_chain_service.py:454), and the
\* rule a completion applies is the one the preview applied to its copy.
THEOREM PlanFollowed == ASSUME Regular PROVE Spec => []PlanKept
<1>1. Init => KeptInv BY InitQuiet
<1>2. IInv /\ KeptInv /\ [Next]_vars => KeptInv' BY NextQuiet
<1>3. IInv /\ KeptInv => PlanKept
  <2> SUFFICES ASSUME IInv, KeptInv, outside = 0
               PROVE  /\ \A k \in DOMAIN made : made[k] = promised[k]
                      /\ promised # <<>> => phase \notin {"waiting", "refused"}
    BY DEF PlanKept
  <2>1. Quiet BY DEF KeptInv
  <2>2. made \in Seq(Move) BY DEF IInv, ChainInv
  <2>3. DOMAIN made = 1..Len(made) BY <2>2
  <2> QED BY <2>1, <2>3 DEF Quiet
<1> QED BY <1>1, <1>2, <1>3, ChainKept, PTL DEF Spec
=============================================================================
