----------------------------- MODULE MCRackSync -----------------------------
(* One order of a window, two racks and three cells for RackSync; a         *)
(* behaviour has writes by hand, failing requests, or runs.                 *)
EXTENDS RackSync, TLC

Editing == [edits |-> 3, faults |-> 0, crashes |-> 0, jobs |-> {}]
Failing == [edits |-> 1, faults |-> 3, crashes |-> 1, jobs |-> {}]
Edited  == [edits |-> 1, faults |-> 0, crashes |-> 0, jobs |-> {"scheduled"}]
Cut     == [edits |-> 0, faults |-> 0, crashes |-> 1, jobs |-> {"scheduled"}]
Twice   == [edits |-> 0, faults |-> 0, crashes |-> 0, jobs |-> Jobs]
Each == {Editing, Failing, Edited, Cut, Twice}
Manual == {[Cut EXCEPT !.crashes = 0, !.jobs = {"manual"}]}

Alike == Permutations(Cells) \cup Permutations(Racks)
=============================================================================
