------------------------------- MODULE QrConfig -------------------------------
(***************************************************************************)
(* The configuration of the scanners: stations, terminals, labels (QR      *)
(* action rules) and transition rules, as the administrator's endpoints    *)
(* create, edit, delete and restore them.  Rows are never deleted, only    *)
(* made inactive, so that every edit has to keep the references between    *)
(* active rows.  Each endpoint is one transaction.                         *)
(***************************************************************************)
EXTENDS TransitionRules, FiniteSets

CONSTANTS
  Stations,      \* scanner stations, created before the model starts
  Terminals,     \* PDA terminals
  Labels,        \* QR action rules
  Codes,         \* the values a label may have
  MatchTypes,    \* how a label is compared with a scan: exact, prefix, contains, regex
  SelfMatching   \* those under which a value matches itself: all but a regex

ASSUME SelfMatchingAssumption == SelfMatching \subseteq MatchTypes

\* The ids of different tables differ, and None is none of them.
ASSUME NamesAssumption ==
  None \notin Stations \cup Labels \cup Codes /\ Stations \cap Labels = {}

NoRule == [empty |-> TRUE]

VARIABLES
  stations,   \* the active stations
  terminals,  \* each terminal's station and whether it is active
  labels,     \* each label's value, match type and whether it is active
  rules,      \* the table of transition rules
  byEdit,     \* history: rows made inactive by an edit, not by a deletion
  restored,   \* history: transition rules made active by a restore
  left        \* bound: edits still to come, of transition rules and of the other tables

tableVars == <<stations, terminals, labels, rules, byEdit, restored>>
configVars == <<tableVars, left>>

Rows == {i \in RuleIds : rules[i] # NoRule}
Active == {i \in Rows : rules[i].active}

RefersTo(i, x) == rules[i].qr = x \/ rules[i].station = x
ActiveTransitions(x) == {i \in Active : RefersTo(i, x)}
ActiveTerminals(s) == {t \in Terminals : terminals[t].active /\ terminals[t].station = s}
ActiveLabels == {l \in Labels : labels[l].active}

Spend(kind) == left[kind] > 0 /\ left' = [left EXCEPT ![kind] = @ - 1]

-----------------------------------------------------------------------------
(* Stations and terminals *)

\* Mutant: the transitions that use the station are not looked at.
DeleteStationAlways(s) ==
  /\ Spend("tables") /\ s \in stations
  /\ ActiveTerminals(s) = {}
  /\ stations' = stations \ {s}
  /\ UNCHANGED <<terminals, labels, rules, byEdit, restored>>

DeleteStation(s) ==
  /\ Spend("tables") /\ s \in stations
  /\ ActiveTerminals(s) = {} /\ ActiveTransitions(s) = {}
  /\ stations' = stations \ {s}
  /\ UNCHANGED <<terminals, labels, rules, byEdit, restored>>

\* The form of an active station may also send it as inactive: nothing is asked.
UpdateStation(s) ==
  /\ Spend("tables") /\ s \in stations
  /\ stations' = stations \ {s}
  /\ byEdit' = byEdit \cup {s}
  /\ UNCHANGED <<terminals, labels, rules, restored>>

RestoreStation(s) ==
  /\ Spend("tables") /\ s \notin stations
  /\ stations' = stations \cup {s}
  /\ byEdit' = byEdit \ {s}
  /\ UNCHANGED <<terminals, labels, rules, restored>>

\* A terminal is created, or an active one edited, with an active station.
SaveTerminal(t, s, on) ==
  /\ Spend("tables") /\ s \in stations
  /\ terminals[t].active \/ terminals[t].station = None
  /\ terminals' = [terminals EXCEPT ![t] = [station |-> s, active |-> on]]
  /\ UNCHANGED <<stations, labels, rules, byEdit, restored>>

DeleteTerminal(t) ==
  /\ Spend("tables") /\ terminals[t].active
  /\ terminals' = [terminals EXCEPT ![t].active = FALSE]
  /\ UNCHANGED <<stations, labels, rules, byEdit, restored>>

RestoreTerminal(t) ==
  /\ Spend("tables") /\ ~terminals[t].active /\ terminals[t].station \in stations
  /\ terminals' = [terminals EXCEPT ![t].active = TRUE]
  /\ UNCHANGED <<stations, labels, rules, byEdit, restored>>

-----------------------------------------------------------------------------
(* Labels: validation takes the writer's lock, so it is one step with the save *)

\* A scan of the value would find both rows.
Clash(a, b) ==
  a.code = b.code /\ (a.match = b.match \/ {a.match, b.match} \subseteq SelfMatching)

Unique(l, row) == \A m \in ActiveLabels \ {l} : ~Clash(labels[m], row)

CreateLabel(l, row) ==
  /\ Spend("tables") /\ labels[l].code = None
  /\ row.active => Unique(l, row)
  /\ labels' = [labels EXCEPT ![l] = row]
  /\ UNCHANGED <<stations, terminals, rules, byEdit, restored>>

\* An edit that keeps value and match type is not compared with the other rows,
\* and one that sends the row as inactive does not ask who uses it.
UpdateLabel(l, row) ==
  /\ Spend("tables") /\ labels[l].active
  /\ row.active /\ <<row.code, row.match>> # <<labels[l].code, labels[l].match>> => Unique(l, row)
  /\ labels' = [labels EXCEPT ![l] = row]
  /\ byEdit' = IF row.active THEN byEdit ELSE byEdit \cup {l}
  /\ UNCHANGED <<stations, terminals, rules, restored>>

DeleteLabel(l) ==
  /\ Spend("tables") /\ labels[l].active /\ ActiveTransitions(l) = {}
  /\ labels' = [labels EXCEPT ![l].active = FALSE]
  /\ UNCHANGED <<stations, terminals, rules, byEdit, restored>>

\* Mutant: the value is not compared with the labels saved in the meantime.
RestoreLabelUnchecked(l) ==
  /\ Spend("tables") /\ ~labels[l].active /\ labels[l].code # None
  /\ labels' = [labels EXCEPT ![l].active = TRUE]
  /\ byEdit' = byEdit \ {l}
  /\ UNCHANGED <<stations, terminals, rules, restored>>

RestoreLabel(l) ==
  /\ Spend("tables") /\ ~labels[l].active /\ labels[l].code # None
  /\ Unique(l, labels[l])
  /\ labels' = [labels EXCEPT ![l].active = TRUE]
  /\ byEdit' = byEdit \ {l}
  /\ UNCHANGED <<stations, terminals, rules, restored>>

-----------------------------------------------------------------------------
(* Transition rules *)

ReferencesActive(p) ==
  /\ p.qr # None => p.qr \in ActiveLabels
  /\ p.station # None => p.station \in stations

Savable(p, i) ==
  Validated(p) /\ ReferencesActive(p) /\ Diagnosed(p, {rules[j] : j \in Active \ {i}})

\* What is written: a rule for any source keeps no source.
Stored(p) == IF p.anySource THEN [p EXCEPT !.srcCell = None, !.srcArea = None] ELSE p

CreateRule(p) ==
  \E i \in RuleIds \ Rows :
    /\ Spend("rules")
    /\ \A j \in RuleIds \ Rows : i <= j
    /\ Savable(p, i)
    /\ rules' = [rules EXCEPT ![i] = Stored(p)]
    /\ UNCHANGED <<stations, terminals, labels, byEdit, restored>>

UpdateRule(i, p) ==
  /\ Spend("rules") /\ i \in Active
  /\ Savable(p, i)
  /\ rules' = [rules EXCEPT ![i] = Stored(p)]
  /\ restored' = restored \ {i}
  /\ UNCHANGED <<stations, terminals, labels, byEdit>>

DeleteRule(i) ==
  /\ Spend("rules") /\ i \in Active
  /\ rules' = [rules EXCEPT ![i].active = FALSE]
  /\ restored' = restored \ {i}
  /\ UNCHANGED <<stations, terminals, labels, byEdit>>

\* A restore asks for the references, not for the diagnosis.
RestoreRule(i) ==
  /\ Spend("rules") /\ i \in Rows \ Active
  /\ ReferencesActive(rules[i])
  /\ rules' = [rules EXCEPT ![i].active = TRUE]
  /\ restored' = restored \cup {i}
  /\ UNCHANGED <<stations, terminals, labels, byEdit>>

LabelRows == [code : Codes, match : MatchTypes, active : BOOLEAN]

ConfigNext ==
  \/ \E s \in Stations : DeleteStation(s) \/ UpdateStation(s) \/ RestoreStation(s)
  \/ \E t \in Terminals : DeleteTerminal(t) \/ RestoreTerminal(t)
  \/ \E t \in Terminals, s \in Stations, on \in BOOLEAN : SaveTerminal(t, s, on)
  \/ \E l \in Labels : DeleteLabel(l) \/ RestoreLabel(l)
  \/ \E l \in Labels, row \in LabelRows : CreateLabel(l, row) \/ UpdateLabel(l, row)
  \/ \E p \in Payloads : CreateRule(p) \/ \E i \in RuleIds : UpdateRule(i, p)
  \/ \E i \in RuleIds : DeleteRule(i) \/ RestoreRule(i)

-----------------------------------------------------------------------------
(* What the endpoints keep true *)

\* An active row refers to active rows, unless the one it refers to was switched
\* off in its own form (main.py:10314, 10553), which asks for no dependencies.
ReferencesKept ==
  /\ \A i \in Active : \A x \in {rules[i].qr, rules[i].station} \ {None} :
       x \in stations \cup ActiveLabels \cup byEdit
  /\ \A t \in Terminals : terminals[t].active => terminals[t].station \in stations \cup byEdit

\* No two active labels answer the same scan with the same kind of comparison
\* (main.py:4518): an ambiguous label is refused by every scan.
OneLabelPerCode ==
  \A l, m \in ActiveLabels : l # m => ~Clash(labels[l], labels[m])
=============================================================================
