--------------------------- MODULE TransitionRules ---------------------------
(***************************************************************************)
(* The rules that change a rack when its order completes: which rule fits  *)
(* an order, which of the fitting ones wins, and which rule may be saved   *)
(* beside the others (qr_transition_service.py).                           *)
(*                                                                         *)
(* A rule is a record of its conditions, its result and its priority; None *)
(* stands for a field left empty.  other is the rest of its result: the    *)
(* quantity and the comment.                                               *)
(***************************************************************************)
EXTENDS Integers

CONSTANTS
  None,       \* an empty field
  Cells,      \* the cells of the layout
  AreaOf,     \* the area of each cell
  Payloads,   \* the rules an administrator may send
  RuleIds     \* the ids of the table of rules, an interval from 1

Conditional == {"qr", "station", "srcCell", "srcArea", "dstCell", "dstArea", "mat", "status"}

ASSUME PayloadsAssumption ==
  /\ None \notin Cells
  /\ \A p \in Payloads :
       DOMAIN p = Conditional \cup {"anySource", "simple", "anyOrder", "ignore", "active",
                                    "nextMat", "nextStatus", "other", "priority"}
  /\ \A p \in Payloads : p.priority \in Int /\ p.active \in BOOLEAN

ASSUME RuleIdsAssumption == 1 \in RuleIds /\ RuleIds \subseteq Nat \ {0}

Points(cond, n) == IF cond THEN n ELSE 0

\* How much a rule asks for, in points.
Specificity(r) ==
    Points(~r.simple /\ r.qr # None, 128)
  + Points(~r.simple /\ r.station # None, 64)
  + Points(~r.anySource /\ r.srcCell # None, 32)
  + Points(r.dstCell # None, 16)
  + Points(~r.anySource /\ r.srcArea # None, 8)
  + Points(r.dstArea # None, 4)
  + Points(~r.simple /\ r.mat # None, 2)
  + Points(~r.simple /\ r.status # None, 1)

\* The tier a rule is meant for: 0 a label, 1 a station, 2 any order of the route.
ConfiguredTier(r) == IF r.simple THEN 2
                     ELSE IF r.qr # None THEN 0
                     ELSE IF r.station # None THEN 1 ELSE 2

\* What decides whether two rules have the same conditions, and the same result.
Conditions(r) ==
  [[r EXCEPT !.nextMat = None, !.nextStatus = None, !.other = None, !.priority = 0]
      EXCEPT !.srcCell = IF r.anySource THEN None ELSE @,
             !.srcArea = IF r.anySource THEN None ELSE @]

Result(r) == <<r.nextMat, r.nextStatus, r.other>>

Agree(x, y) == x = None \/ y = None \/ x = y

\* Whether some order may fit both, as the diagnosis sees it: it compares the
\* current materials even of a rule that ignores them.
Overlap(r, s) ==
  /\ r.active /\ s.active
  /\ \A f \in {"qr", "station", "dstArea", "dstCell", "mat", "status"} : Agree(r[f], s[f])
  /\ ~r.anySource /\ ~s.anySource =>
       Agree(r.srcArea, s.srcArea) /\ Agree(r.srcCell, s.srcCell)

HasEffect(r) ==
  /\ Result(r) # <<None, None, None>>
  /\ r.mat # None /\ r.nextMat = r.mat => r.nextStatus # None \/ r.other # None

CellsInAreas(r) ==
  /\ r.srcCell # None /\ r.srcArea # None => AreaOf[r.srcCell] = r.srcArea
  /\ r.dstCell # None /\ r.dstArea # None => AreaOf[r.dstCell] = r.dstArea

SimpleIsSimple(r) == r.simple => \A f \in {"qr", "station", "mat", "status"} : r[f] = None

\* Mutant: the diagnosis looks for equal conditions only.
NoRivals(r, s) == FALSE

\* The two rules may both fit an order and neither outranks the other.
Rivals(r, s) ==
  /\ Overlap(r, s)
  /\ ConfiguredTier(r) = ConfiguredTier(s)
  /\ r.priority = s.priority
  /\ Specificity(r) = Specificity(s)
  /\ Result(r) # Result(s)

\* The payload may be saved beside the active rules `others`.
Diagnosed(r, others) ==
  /\ HasEffect(r) /\ CellsInAreas(r) /\ SimpleIsSimple(r)
  /\ \A s \in others : Conditions(s) # Conditions(r) /\ ~Rivals(r, s)

\* The fields make sense together: a rule for any source names a destination, a
\* change, and the material it expects unless it ignores it.
Validated(r) ==
  r.anySource =>
    /\ r.dstArea # None \/ r.dstCell # None
    /\ r.nextMat # None \/ r.nextStatus # None
    /\ r.ignore \/ r.mat # None

-----------------------------------------------------------------------------
(* Fitting an order: ctx is what the order, its scan and its rack say. *)

Matches(r, ctx) ==
  /\ r.anyOrder \/ ctx.scanned
  /\ ~r.simple => /\ r.qr # None => r.qr = ctx.qr
                  /\ r.station # None => r.station = ctx.station
                  /\ ~r.ignore /\ r.mat # None => r.mat = ctx.mat
                  /\ r.status # None => r.status = ctx.status
  /\ ~r.anySource => /\ r.srcCell # None => r.srcCell = ctx.src
                     /\ r.srcArea # None => r.srcArea = AreaOf[ctx.src]
  /\ r.dstCell # None => r.dstCell = ctx.dst
  /\ r.dstArea # None => r.dstArea = AreaOf[ctx.dst]

MatchTier(r, ctx) ==
  IF ~r.simple /\ r.qr # None /\ r.qr = ctx.qr THEN 0
  ELSE IF ~r.simple /\ r.qr = None /\ r.station # None /\ r.station = ctx.station THEN 1
  ELSE 2

\* r comes before s in the ranking, ids aside.
Outranks(r, s, ctx) ==
  LET tr == MatchTier(r, ctx)  ts == MatchTier(s, ctx)
  IN \/ tr < ts
     \/ tr = ts /\ r.priority > s.priority
     \/ tr = ts /\ r.priority = s.priority /\ Specificity(r) > Specificity(s)

\* The ids of the rules that fit and that no other fitting rule outranks.
Tied(table, ids, ctx) ==
  LET fit == {i \in ids : Matches(table[i], ctx)}
  IN {i \in fit : ~\E j \in fit : Outranks(table[j], table[i], ctx)}

\* The ranking cannot decide between rules of different results.
Ambiguous(table, ids, ctx) ==
  \E i, j \in Tied(table, ids, ctx) : Result(table[i]) # Result(table[j])

\* The rule an order gets, or 0: the first of the ranking unless it is ambiguous.
Chosen(table, ids, ctx) ==
  LET tied == Tied(table, ids, ctx)
  IN IF tied = {} \/ Ambiguous(table, ids, ctx) THEN 0
     ELSE CHOOSE i \in tied : \A j \in tied : i <= j

=============================================================================
