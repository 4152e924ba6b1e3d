---------------------------- MODULE MCQrTransitions ----------------------------
(* A small layout and a handful of rules: one per tier, rivals of equal rank, a *)
(* rule for any source, one that ignores the material it names.                 *)
EXTENDS QrTransitions

CONSTANTS c1, c2, c3, a1, a2, s1, l1, l2, m1, m2, t1, x1, h1, h2, blocked

MCAreaOf == [c \in Cells |-> IF c = c2 THEN a2 ELSE a1]
MCRoute == <<c1, c2, c3>>

MCBudget ==
  [p \in Plans |->
    CASE p = "none"   -> [rules |-> 2, tables |-> 2, applies |-> 0, corrections |-> 0]
      [] p = "single" -> [rules |-> 1, tables |-> 0, applies |-> 2, corrections |-> 0]
      [] p = "chain"  -> [rules |-> 1, tables |-> 0, applies |-> 1, corrections |-> 1]
      [] p = "batch"  -> [rules |-> 1, tables |-> 0, applies |-> 1, corrections |-> 0]]

MCStartLabels ==
  {[l \in Labels |-> IF l = l1 THEN [code |-> x1, match |-> "exact", active |-> on]
                     ELSE [code |-> None, match |-> "exact", active |-> FALSE]] : on \in BOOLEAN}

Blank == [qr |-> None, station |-> None, srcCell |-> None, srcArea |-> None, dstCell |-> None,
          dstArea |-> None, mat |-> None, status |-> None, anySource |-> FALSE, simple |-> FALSE,
          anyOrder |-> FALSE, ignore |-> FALSE, active |-> TRUE, nextMat |-> None,
          nextStatus |-> None, other |-> None, priority |-> 0]

MCPayloads ==
  { [Blank EXCEPT !.qr = l1, !.dstCell = c2, !.nextMat = m2],
    [Blank EXCEPT !.srcArea = a1, !.dstArea = a2, !.nextStatus = blocked],
    [Blank EXCEPT !.station = s1, !.dstArea = a2, !.status = "available", !.nextMat = m2],
    [Blank EXCEPT !.simple = TRUE, !.anyOrder = TRUE, !.srcArea = a1, !.dstArea = a2, !.nextMat = m2,
                  !.nextStatus = "available"],
    [Blank EXCEPT !.anySource = TRUE, !.srcCell = c1, !.dstArea = a1, !.mat = m1, !.ignore = TRUE,
                  !.nextStatus = blocked],
    [Blank EXCEPT !.anySource = TRUE, !.dstArea = a1, !.mat = m2, !.nextMat = m1] }
===============================================================================
