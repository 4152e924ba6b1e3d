------------------------------- MODULE QrProofs -------------------------------
(***************************************************************************)
(* Proofs, for any cells, labels, stations, rules, sessions and bounds,    *)
(* that the configuration of the scanners keeps its references and its     *)
(* labels apart, that the active rules always rank, and that a completed   *)
(* order changes its rack once while a held rack shows as reserved.        *)
(***************************************************************************)
EXTENDS QrTransitions, TLAPS, WellFoundedInduction

Fields == Conditional \cup {"anySource", "simple", "anyOrder", "ignore", "active",
                            "nextMat", "nextStatus", "other", "priority"}

\* What a row of the table of rules may hold: a payload that passed the diagnosis,
\* as it was written, active or not.
Sound == {p \in Payloads : SimpleIsSimple(p)}
Saved == {Stored(p) : p \in Sound} \cup
         {[Stored(p) EXCEPT !.active = on] : p \in Sound, on \in BOOLEAN}

RuleTableInv == rules \in [RuleIds -> Saved \cup {NoRule}]

\* Two active rules nobody restored are no rivals.
RankInv ==
  \A i, j \in Active : i # j /\ {i, j} \cap restored = {} => ~Rivals(rules[i], rules[j])

\* A label in force has a value.
LabelsInv ==
  /\ labels \in [Labels -> [code : Codes \cup {None}, match : MatchTypes, active : BOOLEAN]]
  /\ \A l \in ActiveLabels : labels[l].code # None

TerminalsInv ==
  /\ terminals \in [Terminals -> [station : Stations \cup {None}, active : BOOLEAN]]
  /\ stations \subseteq Stations

ConfigInv == RuleTableInv /\ RankInv /\ LabelsInv /\ TerminalsInv /\ restored \subseteq Rows

\* A request by hand is about an order that ended after moving the rack.
Pending(s, o) == session[s] # Idle /\ session[s].order = o

HandInv ==
  \A s \in Sessions : session[s] = Idle \/
    /\ session[s].order \in Orders
    /\ order[session[s].order].state \in {"moved", "closed"}
    /\ session[s].rule \in Saved
    /\ session[s].seen.material \in Materials \cup {None}
    /\ session[s].seen.status \in Statuses \cup {"available", "reserved"}

\* Nothing is applied for an order before it moved the rack; a request that is
\* alone found nothing applied; and without a race there is one.
OnceInv ==
  \A o \in Orders :
    /\ order[o].state \in {"none", "active", "cancelled"} => applied[o] = 0
    /\ o \notin raced =>
         /\ applied[o] <= 1
         /\ \A s \in Sessions : Pending(s, o) => applied[o] = 0
         /\ \A s, t \in Sessions : Pending(s, o) /\ Pending(t, o) => s = t

-----------------------------------------------------------------------------
(* Rules *)

\* Some numbers have a least one.
LEMMA LeastOf ==
  ASSUME NEW T, T \subseteq Nat, T # {}
  PROVE  \E x \in T : \A y \in T : x <= y
<1> DEFINE R == OpToRel(<, Nat)
<1>1. IsWellFoundedOn(R, Nat)
  BY NatLessThanWellFounded
<1>2. PICK x \in T : \A y \in T : <<y, x>> \notin R
  <2> HIDE DEF R
  <2> QED BY <1>1, WFMin
<1>3. ASSUME NEW y \in T PROVE x <= y
  <2>1. x \in Nat /\ y \in Nat /\ <<y, x>> \notin R
    BY <1>2
  <2>2. CASE y < x
    <3>1. <<y, x>> \in R
      BY <2>1, <2>2 DEF OpToRel
    <3> QED BY <2>1, <3>1
  <2>3. CASE ~(y < x)
    <3> HIDE DEF R
    <3> QED BY <2>1, <2>3
  <2> QED BY <2>2, <2>3
<1> QED BY <1>3

\* The rule that is chosen is one of those asked about, and fits.
LEMMA ChosenIs ==
  ASSUME NEW table, NEW ids \in SUBSET Nat, NEW ctx, Chosen(table, ids, ctx) # 0
  PROVE  Chosen(table, ids, ctx) \in ids
<1> DEFINE T == Tied(table, ids, ctx)
<1>1. T \subseteq ids
  BY DEF Tied
<1>2. T # {} /\ Chosen(table, ids, ctx) = CHOOSE i \in T : \A j \in T : i <= j
  BY DEF Chosen
<1> HIDE DEF T
<1>3. \E i \in T : \A j \in T : i <= j
  BY <1>1, <1>2, LeastOf
<1> QED BY <1>1, <1>2, <1>3

\* A row keeps the conditions the ranking looks at, and its result, when it is
\* written or switched on or off.
SameRank(r, p) ==
  /\ DOMAIN r = Fields /\ DOMAIN p = Fields
  /\ \A f \in Fields \ {"srcCell", "srcArea", "active"} : r[f] = p[f]
  /\ ~r.anySource => r.srcCell = p.srcCell /\ r.srcArea = p.srcArea

LEMMA StoredRank ==
  ASSUME NEW p \in Payloads, NEW on \in BOOLEAN
  PROVE  /\ SameRank(Stored(p), p) /\ Stored(p).active = p.active
         /\ SameRank([Stored(p) EXCEPT !.active = on], p)
         /\ [Stored(p) EXCEPT !.active = on].active = on
<1>1. DOMAIN p = Fields
  BY PayloadsAssumption DEF Fields
<1> QED BY <1>1 DEF SameRank, Stored, Fields, Conditional

LEMMA SavedFacts ==
  ASSUME NEW r \in Saved
  PROVE  /\ DOMAIN r = Fields /\ r # NoRule
         /\ r.priority \in Int /\ r.active \in BOOLEAN
         /\ r.nextMat \in Materials \cup {None}
         /\ r.nextStatus \in Statuses \cup {"available", "reserved", None}
         /\ SimpleIsSimple(r)
<1>1. PICK p \in Sound : r = Stored(p) \/ \E on \in BOOLEAN : r = [Stored(p) EXCEPT !.active = on]
  BY DEF Saved
<1>2. p \in Payloads /\ SimpleIsSimple(p)
  BY DEF Sound
<1>3. SameRank(r, p) /\ r.active \in BOOLEAN
  <2>1. CASE r = Stored(p)
    <3>1. TRUE \in BOOLEAN /\ p.active \in BOOLEAN
      BY <1>2, PayloadsAssumption
    <3> QED BY <2>1, <3>1, <1>2, StoredRank
  <2>2. CASE \E on \in BOOLEAN : r = [Stored(p) EXCEPT !.active = on]
    BY <2>2, <1>2, StoredRank
  <2> QED BY <1>1, <2>1, <2>2
<1>4. DOMAIN r = Fields /\ r # NoRule
  <2>1. DOMAIN NoRule = {"empty"} /\ "qr" \in Fields
    BY DEF NoRule, Fields, Conditional
  <2> QED BY <1>3, <2>1 DEF SameRank
<1>5. SimpleIsSimple(r)
  BY <1>2, <1>3 DEF SimpleIsSimple, SameRank, Fields, Conditional
<1> QED
  BY <1>2, <1>3, <1>4, <1>5, PayloadsAssumption, ResultsAssumption DEF SameRank, Fields

\* Switching a row on or off gives a row.
LEMMA SavedSwitch ==
  ASSUME NEW r \in Saved, NEW on \in BOOLEAN
  PROVE  /\ [r EXCEPT !.active = on] \in Saved
         /\ SameRank([r EXCEPT !.active = on], r)
         /\ [r EXCEPT !.active = on].active = on
<1>1. PICK p \in Sound : r = Stored(p) \/ \E was \in BOOLEAN : r = [Stored(p) EXCEPT !.active = was]
  BY DEF Saved
<1>2. [r EXCEPT !.active = on] = [Stored(p) EXCEPT !.active = on]
  BY <1>1
<1>3. DOMAIN r = Fields
  BY SavedFacts
<1> QED BY <1>1, <1>2, <1>3 DEF Saved, SameRank, Fields

LEMMA StoredSaved ==
  ASSUME NEW p \in Payloads, SimpleIsSimple(p)
  PROVE  Stored(p) \in Saved
BY DEF Saved, Sound

\* The ranking of two rows is that of the payloads they come from.
LEMMA RivalsSame ==
  ASSUME NEW r, NEW p, NEW s, SameRank(r, p), r.active = p.active
  PROVE  Rivals(r, s) <=> Rivals(p, s)
<1>1. Specificity(r) = Specificity(p)
  BY DEF Specificity, Points, SameRank, Fields, Conditional
<1>2. ConfiguredTier(r) = ConfiguredTier(p) /\ Result(r) = Result(p) /\ r.priority = p.priority
  BY DEF ConfiguredTier, Result, SameRank, Fields, Conditional
<1>3. Overlap(r, s) <=> Overlap(p, s)
  BY DEF Overlap, SameRank, Fields, Conditional
<1> QED BY <1>1, <1>2, <1>3 DEF Rivals

LEMMA RivalsSymmetric ==
  ASSUME NEW r, NEW s, Rivals(r, s)
  PROVE  Rivals(s, r)
BY DEF Rivals, Overlap, Agree

\* The tier a fitting rule reaches is the one it is meant for.
LEMMA TierReached ==
  ASSUME NEW r, NEW ctx, Matches(r, ctx)
  PROVE  MatchTier(r, ctx) = ConfiguredTier(r) /\ ConfiguredTier(r) \in 0..2
BY DEF Matches, MatchTier, ConfiguredTier

\* Rules that fit the same order overlap, unless one ignores the material.
LEMMA FitBoth ==
  ASSUME NEW r \in Saved, NEW s \in Saved, NEW ctx, r.active, s.active,
         ~r.ignore, ~s.ignore, Matches(r, ctx), Matches(s, ctx)
  PROVE  Overlap(r, s)
BY SavedFacts DEF Matches, Overlap, Agree, SimpleIsSimple

LEMMA SpecificityInt == ASSUME NEW r PROVE Specificity(r) \in Int
BY DEF Specificity, Points

\* Of two fitting rules that are no rivals, with different results, one outranks
\* the other.
LEMMA RankDecides ==
  ASSUME NEW r \in Saved, NEW s \in Saved, NEW ctx, r.active, s.active,
         ~r.ignore, ~s.ignore, Matches(r, ctx), Matches(s, ctx),
         Result(r) # Result(s), ~Rivals(r, s)
  PROVE  Outranks(r, s, ctx) \/ Outranks(s, r, ctx)
<1>1. Overlap(r, s)
  BY FitBoth
<1>2. r.priority \in Int /\ s.priority \in Int /\ Specificity(r) \in Int /\ Specificity(s) \in Int
  BY SavedFacts, SpecificityInt
<1>3. /\ MatchTier(r, ctx) = ConfiguredTier(r) /\ ConfiguredTier(r) \in 0..2
      /\ MatchTier(s, ctx) = ConfiguredTier(s) /\ ConfiguredTier(s) \in 0..2
  BY TierReached
<1>4. \/ ConfiguredTier(r) # ConfiguredTier(s) \/ r.priority # s.priority
      \/ Specificity(r) # Specificity(s)
  BY <1>1 DEF Rivals
<1> QED BY <1>2, <1>3, <1>4 DEF Outranks

-----------------------------------------------------------------------------
(* The configuration *)

\* The edits of the stations, terminals and labels leave the rules alone.
LEMMA TablesKeepRules ==
  ASSUME RuleTableInv, RankInv, restored \subseteq Rows, UNCHANGED <<rules, restored>>
  PROVE  RuleTableInv' /\ RankInv' /\ restored' \subseteq Rows'
BY DEF RuleTableInv, RankInv, Active, Rows

\* A row is written: the others stay, and only its own rank has to be looked at.
LEMMA RowWritten ==
  ASSUME RuleTableInv, NEW i \in RuleIds, NEW r \in Saved, rules' = [rules EXCEPT ![i] = r]
  PROVE  /\ RuleTableInv' /\ rules'[i] = r
         /\ \A j \in RuleIds \ {i} : rules'[j] = rules[j]
         /\ Rows' = Rows \cup {i}
         /\ Active' = IF r.active THEN Active \cup {i} ELSE Active \ {i}
         /\ \A j \in Active' \ {i} : j \in Active
<1>1. RuleTableInv' /\ rules'[i] = r /\ \A j \in RuleIds \ {i} : rules'[j] = rules[j]
  BY DEF RuleTableInv
<1>2. r # NoRule /\ r.active \in BOOLEAN
  BY SavedFacts
<1> QED BY <1>1, <1>2 DEF Rows, Active

\* The diagnosis compares a payload with every other active row.
LEMMA PayloadRank ==
  ASSUME ConfigInv, NEW i \in RuleIds, NEW p \in Payloads, Savable(p, i),
         rules' = [rules EXCEPT ![i] = Stored(p)], restored' = restored \ {i}
  PROVE  RuleTableInv' /\ RankInv' /\ restored' \subseteq Rows'
<1>1. Stored(p) \in Saved /\ RuleTableInv
  BY StoredSaved DEF Savable, Diagnosed, ConfigInv
<1>2. /\ RuleTableInv' /\ rules'[i] = Stored(p) /\ \A j \in RuleIds \ {i} : rules'[j] = rules[j]
      /\ Rows' = Rows \cup {i} /\ \A j \in Active' \ {i} : j \in Active
  BY <1>1, RowWritten
<1>3. ASSUME NEW j \in Active' \ {i}
      PROVE  ~Rivals(rules'[i], rules'[j]) /\ ~Rivals(rules'[j], rules'[i])
  <2>1. j \in Active \ {i} /\ rules'[j] = rules[j]
    BY <1>2 DEF Active, Rows
  <2>2. ~Rivals(p, rules[j])
    BY <2>1 DEF Savable, Diagnosed
  <2>3. ~Rivals(Stored(p), rules[j])
    BY <2>2, RivalsSame, StoredRank
  <2> QED BY <2>1, <2>3, <1>2, RivalsSymmetric
<1>4. RankInv'
  <2> SUFFICES ASSUME NEW j \in Active', NEW k \in Active', j # k,
                      {j, k} \cap restored' = {}
               PROVE  ~Rivals(rules'[j], rules'[k])
    BY DEF RankInv
  <2>1. CASE j = i \/ k = i
    BY <2>1, <1>3
  <2>2. CASE j # i /\ k # i
    BY <2>2, <1>2 DEF ConfigInv, RankInv, Active, Rows
  <2> QED BY <2>1, <2>2
<1> QED BY <1>2, <1>4 DEF ConfigInv

LEMMA CreateRuleRank ==
  ASSUME ConfigInv, NEW p \in Payloads, CreateRule(p)
  PROVE  RuleTableInv' /\ RankInv' /\ restored' \subseteq Rows'
<1>1. PICK i \in RuleIds \ Rows :
        Savable(p, i) /\ rules' = [rules EXCEPT ![i] = Stored(p)] /\ restored' = restored
  BY DEF CreateRule
<1>2. restored' = restored \ {i}
  BY <1>1 DEF ConfigInv
<1> QED BY <1>1, <1>2, PayloadRank

LEMMA UpdateRuleRank ==
  ASSUME ConfigInv, NEW i \in RuleIds, NEW p \in Payloads, UpdateRule(i, p)
  PROVE  RuleTableInv' /\ RankInv' /\ restored' \subseteq Rows'
BY PayloadRank DEF UpdateRule

LEMMA DeleteRuleRank ==
  ASSUME ConfigInv, NEW i \in RuleIds, DeleteRule(i)
  PROVE  RuleTableInv' /\ RankInv' /\ restored' \subseteq Rows'
<1> DEFINE r == [rules[i] EXCEPT !.active = FALSE]
<1>1. i \in Active /\ rules' = [rules EXCEPT ![i] = r] /\ restored' = restored \ {i}
  BY DEF DeleteRule
<1>2. r \in Saved /\ r.active = FALSE /\ RuleTableInv
  <2>1. rules[i] \in Saved
    BY <1>1 DEF ConfigInv, RuleTableInv, Active, Rows
  <2> QED BY <2>1, SavedSwitch DEF ConfigInv
<1> HIDE DEF r
<1>3. /\ RuleTableInv' /\ \A j \in RuleIds \ {i} : rules'[j] = rules[j]
      /\ Rows' = Rows \cup {i} /\ Active' = Active \ {i}
  BY <1>1, <1>2, RowWritten
<1>4. RankInv'
  <2> SUFFICES ASSUME NEW j \in Active', NEW k \in Active', j # k,
                      {j, k} \cap restored' = {}
               PROVE  ~Rivals(rules'[j], rules'[k])
    BY DEF RankInv
  <2>1. {j, k} \subseteq Active \ {i} /\ {j, k} \cap restored = {}
    BY <1>1, <1>3
  <2>2. rules'[j] = rules[j] /\ rules'[k] = rules[k]
    BY <2>1, <1>3 DEF Active, Rows
  <2> QED BY <2>1, <2>2 DEF ConfigInv, RankInv
<1> QED BY <1>1, <1>3, <1>4 DEF ConfigInv

LEMMA RestoreRuleRank ==
  ASSUME ConfigInv, NEW i \in RuleIds, RestoreRule(i)
  PROVE  RuleTableInv' /\ RankInv' /\ restored' \subseteq Rows'
<1> DEFINE r == [rules[i] EXCEPT !.active = TRUE]
<1>1. i \in Rows /\ rules' = [rules EXCEPT ![i] = r] /\ restored' = restored \cup {i}
  BY DEF RestoreRule
<1>2. r \in Saved /\ RuleTableInv
  <2>1. rules[i] \in Saved
    BY <1>1 DEF ConfigInv, RuleTableInv, Rows
  <2> QED BY <2>1, SavedSwitch DEF ConfigInv
<1> HIDE DEF r
<1>3. /\ RuleTableInv' /\ \A j \in RuleIds \ {i} : rules'[j] = rules[j]
      /\ Rows' = Rows \cup {i} /\ \A j \in Active' \ {i} : j \in Active
  BY <1>1, <1>2, RowWritten
<1>4. RankInv'
  <2> SUFFICES ASSUME NEW j \in Active', NEW k \in Active', j # k,
                      {j, k} \cap restored' = {}
               PROVE  ~Rivals(rules'[j], rules'[k])
    BY DEF RankInv
  <2>1. {j, k} \subseteq Active \ {i} /\ {j, k} \cap restored = {}
    BY <1>1, <1>3
  <2>2. rules'[j] = rules[j] /\ rules'[k] = rules[k]
    BY <2>1, <1>3 DEF Active, Rows
  <2> QED BY <2>1, <2>2 DEF ConfigInv, RankInv
<1> QED BY <1>1, <1>3, <1>4 DEF ConfigInv

TablesInv == LabelsInv /\ TerminalsInv /\ ReferencesKept /\ OneLabelPerCode

\* What an active row refers to.
Refs(i) == {rules[i].qr, rules[i].station} \ {None}

LEMMA StationTables ==
  ASSUME TablesInv, NEW s \in Stations,
         DeleteStation(s) \/ UpdateStation(s) \/ RestoreStation(s)
  PROVE  TablesInv' /\ UNCHANGED <<rules, restored>>
<1>0. UNCHANGED <<rules, restored, labels, terminals>>
  BY DEF DeleteStation, UpdateStation, RestoreStation
<1>1. LabelsInv' /\ OneLabelPerCode'
  BY <1>0 DEF TablesInv, LabelsInv, OneLabelPerCode, ActiveLabels
<1>2. TerminalsInv'
  BY <1>0 DEF TablesInv, TerminalsInv, DeleteStation, UpdateStation, RestoreStation
<1>3. /\ \A x \in stations \cup byEdit : x # s => x \in stations' \cup byEdit'
      /\ s \in stations \cup byEdit => s \in stations' \cup byEdit' \/ DeleteStation(s)
      /\ Active' = Active /\ ActiveLabels' = ActiveLabels
  BY <1>0 DEF DeleteStation, UpdateStation, RestoreStation, Active, Rows, ActiveLabels
<1>4. DeleteStation(s) => /\ \A i \in Active : s \notin Refs(i)
                          /\ \A t \in Terminals : terminals[t].active => terminals[t].station # s
  BY DEF DeleteStation, ActiveTransitions, ActiveTerminals, RefersTo, Refs
<1>5. ReferencesKept'
  <2>1. ASSUME NEW i \in Active', NEW x \in Refs(i)
        PROVE  x \in stations' \cup ActiveLabels' \cup byEdit'
    <3>1. i \in Active /\ x \in stations \cup ActiveLabels \cup byEdit
      BY <1>3 DEF TablesInv, ReferencesKept, Refs
    <3> QED BY <3>1, <1>3, <1>4, <2>1
  <2>2. ASSUME NEW t \in Terminals, terminals[t].active
        PROVE  terminals[t].station \in stations' \cup byEdit'
    <3>1. terminals[t].station \in stations \cup byEdit
      BY <2>2 DEF TablesInv, ReferencesKept
    <3> QED BY <3>1, <1>3, <1>4, <2>2
  <2> QED BY <1>0, <2>1, <2>2 DEF ReferencesKept, Refs
<1> QED BY <1>0, <1>1, <1>2, <1>5 DEF TablesInv

LEMMA TerminalTables ==
  ASSUME TablesInv, NEW t \in Terminals,
         \/ DeleteTerminal(t) \/ RestoreTerminal(t)
         \/ \E s \in Stations, on \in BOOLEAN : SaveTerminal(t, s, on)
  PROVE  TablesInv' /\ UNCHANGED <<rules, restored>>
<1>0. UNCHANGED <<rules, restored, labels, stations, byEdit>>
  BY DEF DeleteTerminal, RestoreTerminal, SaveTerminal
<1>1. LabelsInv' /\ OneLabelPerCode'
  BY <1>0 DEF TablesInv, LabelsInv, OneLabelPerCode, ActiveLabels
<1>2. terminals \in [Terminals -> [station : Stations \cup {None}, active : BOOLEAN]]
  BY DEF TablesInv, TerminalsInv
<1>3. PICK r \in [station : Stations \cup {None}, active : BOOLEAN] :
        /\ terminals' = [terminals EXCEPT ![t] = r]
        /\ r.active => r.station \in stations
  <2>1. CASE DeleteTerminal(t)
    <3> DEFINE r == [terminals[t] EXCEPT !.active = FALSE]
    <3>1. /\ r \in [station : Stations \cup {None}, active : BOOLEAN] /\ ~r.active
          /\ terminals' = [terminals EXCEPT ![t] = r]
      BY <1>2, <2>1 DEF DeleteTerminal
    <3> HIDE DEF r
    <3> QED BY <3>1
  <2>2. CASE RestoreTerminal(t)
    <3> DEFINE r == [terminals[t] EXCEPT !.active = TRUE]
    <3>1. /\ r \in [station : Stations \cup {None}, active : BOOLEAN]
          /\ terminals' = [terminals EXCEPT ![t] = r] /\ r.station \in stations
      BY <1>2, <2>2 DEF RestoreTerminal
    <3> HIDE DEF r
    <3> QED BY <3>1
  <2>3. CASE \E s \in Stations, on \in BOOLEAN : SaveTerminal(t, s, on)
    <3>0. PICK s \in Stations, on \in BOOLEAN : SaveTerminal(t, s, on)
      BY <2>3
    <3> DEFINE r == [station |-> s, active |-> on]
    <3>1. /\ r \in [station : Stations \cup {None}, active : BOOLEAN]
          /\ terminals' = [terminals EXCEPT ![t] = r] /\ r.station \in stations
      BY <3>0 DEF SaveTerminal
    <3> HIDE DEF r
    <3> QED BY <3>1
  <2> QED BY <2>1, <2>2, <2>3
<1>6. TerminalsInv'
  BY <1>0, <1>2, <1>3 DEF TablesInv, TerminalsInv
<1>4. Active' = Active /\ ActiveLabels' = ActiveLabels
  BY <1>0 DEF Active, Rows, ActiveLabels
<1>5. ReferencesKept'
  BY <1>0, <1>2, <1>3, <1>4 DEF TablesInv, ReferencesKept
<1> QED BY <1>0, <1>1, <1>5, <1>6 DEF TablesInv

\* A label's row is written, and the labels in force stay apart.
LEMMA LabelWritten ==
  ASSUME LabelsInv, OneLabelPerCode, NEW l \in Labels,
         NEW row \in [code : Codes \cup {None}, match : MatchTypes, active : BOOLEAN],
         row.active => row.code # None /\ Unique(l, row),
         labels' = [labels EXCEPT ![l] = row]
  PROVE  LabelsInv' /\ OneLabelPerCode'
<1>1. labels'[l] = row /\ \A m \in Labels \ {l} : labels'[m] = labels[m]
  BY DEF LabelsInv
<1>2. LabelsInv'
  BY <1>1 DEF LabelsInv, ActiveLabels
<1>3. ASSUME NEW m \in ActiveLabels', NEW n \in ActiveLabels', m # n, Clash(labels'[m], labels'[n])
      PROVE  FALSE
  <2>1. Clash(labels'[n], labels'[m])
    BY <1>3 DEF Clash
  <2>2. \A k \in ActiveLabels' \ {l} : k \in ActiveLabels /\ labels'[k] = labels[k]
    BY <1>1 DEF ActiveLabels
  <2>3. CASE m # l /\ n # l
    BY <2>2, <2>3, <1>3 DEF OneLabelPerCode
  <2>4. ASSUME NEW k \in ActiveLabels', k # l, l \in ActiveLabels', Clash(labels'[k], labels'[l])
        PROVE  FALSE
    <3>1. Unique(l, row) /\ k \in ActiveLabels /\ labels'[k] = labels[k]
      BY <1>1, <2>2, <2>4 DEF ActiveLabels
    <3> QED BY <1>1, <2>4, <3>1 DEF Unique
  <2> QED BY <1>3, <2>1, <2>3, <2>4
<1> QED BY <1>2, <1>3 DEF OneLabelPerCode

LEMMA LabelTables ==
  ASSUME TablesInv, NEW l \in Labels,
         \/ DeleteLabel(l) \/ RestoreLabel(l)
         \/ \E row \in LabelRows : CreateLabel(l, row) \/ UpdateLabel(l, row)
  PROVE  TablesInv' /\ UNCHANGED <<rules, restored>>
<1>0. UNCHANGED <<rules, restored, stations, terminals>>
  BY DEF DeleteLabel, RestoreLabel, CreateLabel, UpdateLabel
<1>1. TerminalsInv'
  BY <1>0 DEF TablesInv, TerminalsInv
<1>2. \A row \in LabelRows :
        /\ row \in [code : Codes \cup {None}, match : MatchTypes, active : BOOLEAN]
        /\ row.code # None
  BY NamesAssumption DEF LabelRows
<1>3. LabelsInv' /\ OneLabelPerCode'
  <2>1. CASE DeleteLabel(l)
    <3> DEFINE r == [labels[l] EXCEPT !.active = FALSE]
    <3>1. /\ r \in [code : Codes \cup {None}, match : MatchTypes, active : BOOLEAN]
          /\ ~r.active /\ labels' = [labels EXCEPT ![l] = r]
      BY <2>1 DEF DeleteLabel, TablesInv, LabelsInv
    <3> HIDE DEF r
    <3> QED BY <3>1, LabelWritten DEF TablesInv
  <2>2. CASE RestoreLabel(l)
    <3> DEFINE r == [labels[l] EXCEPT !.active = TRUE]
    <3>1. /\ r \in [code : Codes \cup {None}, match : MatchTypes, active : BOOLEAN]
          /\ labels' = [labels EXCEPT ![l] = r] /\ Unique(l, labels[l])
          /\ r.code = labels[l].code /\ r.match = labels[l].match /\ r.code # None
      BY <2>2 DEF RestoreLabel, TablesInv, LabelsInv
    <3> HIDE DEF r
    <3>2. Unique(l, r)
      BY <3>1 DEF Unique, Clash
    <3> QED BY <3>1, <3>2, LabelWritten DEF TablesInv
  <2>3. ASSUME NEW row \in LabelRows, CreateLabel(l, row)
        PROVE  LabelsInv' /\ OneLabelPerCode'
    BY <2>3, <1>2, LabelWritten DEF CreateLabel, TablesInv
  <2>4. ASSUME NEW row \in LabelRows, UpdateLabel(l, row)
        PROVE  LabelsInv' /\ OneLabelPerCode'
    <3>1. labels[l].active /\ labels' = [labels EXCEPT ![l] = row]
      BY <2>4 DEF UpdateLabel
    <3>2. ASSUME row.active PROVE Unique(l, row)
      <4>1. CASE <<row.code, row.match>> = <<labels[l].code, labels[l].match>>
        BY <3>1, <4>1 DEF Unique, TablesInv, OneLabelPerCode, Clash, ActiveLabels
      <4>2. CASE <<row.code, row.match>> # <<labels[l].code, labels[l].match>>
        BY <2>4, <3>2, <4>2 DEF UpdateLabel
      <4> QED BY <4>1, <4>2
    <3> QED BY <3>1, <3>2, <1>2, LabelWritten DEF TablesInv
  <2> QED BY <2>1, <2>2, <2>3, <2>4
<1>4. /\ \A x \in ActiveLabels \cup byEdit : x # l => x \in ActiveLabels' \cup byEdit'
      /\ l \in ActiveLabels \cup byEdit => l \in ActiveLabels' \cup byEdit' \/ DeleteLabel(l)
      /\ Active' = Active
      /\ \A x : x \in byEdit /\ x # l => x \in byEdit'
  <2>1. Active' = Active /\ \A m \in Labels \ {l} : labels'[m] = labels[m]
    BY <1>0 DEF DeleteLabel, RestoreLabel, CreateLabel, UpdateLabel, TablesInv, LabelsInv, Active, Rows
  <2>2. \A s \in Stations : s # l
    BY NamesAssumption
  <2>3. CASE DeleteLabel(l)
    BY <2>1, <2>3 DEF DeleteLabel, ActiveLabels
  <2>4. CASE RestoreLabel(l)
    <3>1. l \in ActiveLabels' /\ byEdit' = byEdit \ {l}
      BY <2>4 DEF RestoreLabel, ActiveLabels, TablesInv, LabelsInv
    <3> QED BY <2>1, <2>2, <3>1 DEF ActiveLabels
  <2>5. CASE \E row \in LabelRows : CreateLabel(l, row)
    <3>1. l \notin ActiveLabels /\ byEdit' = byEdit
      BY <2>5 DEF CreateLabel, ActiveLabels, TablesInv, LabelsInv
    <3> QED BY <2>1, <3>1 DEF ActiveLabels
  <2>6. CASE \E row \in LabelRows : UpdateLabel(l, row)
    <3>1. l \in ActiveLabels' \cup byEdit' /\ byEdit \subseteq byEdit'
      BY <2>6 DEF UpdateLabel, ActiveLabels, TablesInv, LabelsInv
    <3> QED BY <2>1, <3>1 DEF ActiveLabels
  <2> QED BY <2>3, <2>4, <2>5, <2>6
<1>5. DeleteLabel(l) => \A i \in Active : l \notin Refs(i)
  BY DEF DeleteLabel, ActiveTransitions, RefersTo, Refs
<1>6. ReferencesKept'
  <2>1. ASSUME NEW i \in Active', NEW x \in Refs(i)
        PROVE  x \in stations' \cup ActiveLabels' \cup byEdit'
    <3>1. i \in Active /\ x \in stations \cup ActiveLabels \cup byEdit
      BY <1>4 DEF TablesInv, ReferencesKept, Refs
    <3> QED BY <3>1, <1>0, <1>4, <1>5, <2>1
  <2>2. ASSUME NEW t \in Terminals, terminals[t].active
        PROVE  terminals[t].station \in stations' \cup byEdit'
    <3>1. terminals[t].station \in stations \cup byEdit
      BY <2>2 DEF TablesInv, ReferencesKept
    <3>2. terminals[t].station \in Stations \cup {None}
      BY DEF TablesInv, TerminalsInv
    <3>3. terminals[t].station # l
      BY <3>2, NamesAssumption
    <3> QED BY <3>1, <3>3, <1>0, <1>4
  <2> QED BY <1>0, <2>1, <2>2 DEF ReferencesKept, Refs
<1> QED BY <1>0, <1>1, <1>3, <1>6 DEF TablesInv

\* The references of the rule that is written are active.
LEMMA RuleTables ==
  ASSUME ConfigInv, TablesInv, NEW i \in RuleIds,
         \/ DeleteRule(i) \/ RestoreRule(i)
         \/ \E p \in Payloads : CreateRule(p) \/ UpdateRule(i, p)
  PROVE  TablesInv'
<1>0. UNCHANGED <<labels, stations, terminals, byEdit>> /\ ActiveLabels' = ActiveLabels
  BY DEF CreateRule, UpdateRule, DeleteRule, RestoreRule, ActiveLabels
<1>1. LabelsInv' /\ TerminalsInv' /\ OneLabelPerCode'
  BY <1>0 DEF TablesInv, LabelsInv, TerminalsInv, OneLabelPerCode, Clash
<1>2. PICK k \in RuleIds, r \in Saved :
        /\ rules' = [rules EXCEPT ![k] = r]
        /\ ReferencesActive(r) \/ (k \in Active /\ r.qr = rules[k].qr /\ r.station = rules[k].station)
  <2>1. ASSUME NEW p \in Payloads, CreateRule(p) \/ UpdateRule(i, p)
        PROVE  \E k \in RuleIds, r \in Saved :
                 /\ rules' = [rules EXCEPT ![k] = r]
                 /\ \/ ReferencesActive(r)
                    \/ k \in Active /\ r.qr = rules[k].qr /\ r.station = rules[k].station
    <3>1. PICK k \in RuleIds : Savable(p, k) /\ rules' = [rules EXCEPT ![k] = Stored(p)]
      BY <2>1 DEF CreateRule, UpdateRule
    <3>2. Stored(p) \in Saved
      BY <3>1, StoredSaved DEF Savable, Diagnosed
    <3>3. ReferencesActive(Stored(p))
      <4>1. Stored(p).qr = p.qr /\ Stored(p).station = p.station
        BY StoredRank DEF SameRank, Fields, Conditional
      <4> QED BY <3>1, <4>1 DEF Savable, ReferencesActive
    <3> QED BY <3>1, <3>2, <3>3
  <2>2. ASSUME NEW on \in BOOLEAN, i \in Rows
        PROVE  LET r == [rules[i] EXCEPT !.active = on]
               IN r \in Saved /\ r.qr = rules[i].qr /\ r.station = rules[i].station
    <3>1. rules[i] \in Saved
      BY <2>2 DEF ConfigInv, RuleTableInv, Rows
    <3> QED BY <3>1, SavedSwitch DEF SameRank, Fields, Conditional
  <2>3. CASE DeleteRule(i)
    <3> DEFINE r == [rules[i] EXCEPT !.active = FALSE]
    <3>1. i \in Active /\ i \in Rows /\ rules' = [rules EXCEPT ![i] = r]
      BY <2>3 DEF DeleteRule, Active
    <3>2. r \in Saved /\ r.qr = rules[i].qr /\ r.station = rules[i].station
      BY <2>2, <3>1
    <3> HIDE DEF r
    <3> QED BY <3>1, <3>2
  <2>4. CASE RestoreRule(i)
    <3> DEFINE r == [rules[i] EXCEPT !.active = TRUE]
    <3>1. i \in Rows /\ ReferencesActive(rules[i]) /\ rules' = [rules EXCEPT ![i] = r]
      BY <2>4 DEF RestoreRule
    <3>2. r \in Saved /\ r.qr = rules[i].qr /\ r.station = rules[i].station
      BY <2>2, <3>1
    <3> HIDE DEF r
    <3> QED BY <3>1, <3>2 DEF ReferencesActive
  <2> QED BY <2>1, <2>3, <2>4
<1>3. /\ rules'[k] = r /\ \A j \in Active' \ {k} : j \in Active /\ rules'[j] = rules[j]
  <2>1. /\ rules'[k] = r /\ \A j \in RuleIds \ {k} : rules'[j] = rules[j]
        /\ \A j \in Active' \ {k} : j \in Active
    BY <1>2, RowWritten DEF ConfigInv
  <2> QED BY <2>1 DEF Active, Rows
<1>4. ASSUME NEW j \in Active', NEW x \in {rules'[j].qr, rules'[j].station} \ {None}
      PROVE  x \in stations \cup ActiveLabels \cup byEdit
  <2>1. CASE j # k
    BY <1>3, <2>1, <1>4 DEF TablesInv, ReferencesKept
  <2>2. CASE j = k
    BY <1>2, <1>3, <2>2, <1>4 DEF TablesInv, ReferencesKept, ReferencesActive
  <2> QED BY <2>1, <2>2
<1> QED BY <1>0, <1>1, <1>4 DEF TablesInv, ReferencesKept

\* The configuration stays well formed whatever an administrator does.
LEMMA ConfigStep ==
  ASSUME ConfigInv, TablesInv, ConfigNext
  PROVE  ConfigInv' /\ TablesInv'
<1> SUFFICES TablesInv' /\ RuleTableInv' /\ RankInv' /\ restored' \subseteq Rows'
  BY DEF ConfigInv, TablesInv
<1> USE DEF ConfigInv
<1>1. ASSUME NEW s \in Stations, DeleteStation(s) \/ UpdateStation(s) \/ RestoreStation(s)
      PROVE  TablesInv' /\ RuleTableInv' /\ RankInv' /\ restored' \subseteq Rows'
  BY <1>1, StationTables, TablesKeepRules
<1>2. ASSUME NEW t \in Terminals, DeleteTerminal(t) \/ RestoreTerminal(t)
      PROVE  TablesInv' /\ RuleTableInv' /\ RankInv' /\ restored' \subseteq Rows'
  <2>1. UNCHANGED <<rules, restored>>
    BY <1>2 DEF DeleteTerminal, RestoreTerminal
  <2>2. TablesInv'
    BY <1>2, TerminalTables
  <2> QED BY <2>1, <2>2, TablesKeepRules
<1>3. ASSUME NEW t \in Terminals, NEW s \in Stations, NEW on \in BOOLEAN, SaveTerminal(t, s, on)
      PROVE  TablesInv' /\ RuleTableInv' /\ RankInv' /\ restored' \subseteq Rows'
  BY <1>3, TerminalTables, TablesKeepRules
<1>4. ASSUME NEW l \in Labels, DeleteLabel(l) \/ RestoreLabel(l)
      PROVE  TablesInv' /\ RuleTableInv' /\ RankInv' /\ restored' \subseteq Rows'
  BY <1>4, LabelTables, TablesKeepRules
<1>5. ASSUME NEW l \in Labels, NEW row \in LabelRows, CreateLabel(l, row) \/ UpdateLabel(l, row)
      PROVE  TablesInv' /\ RuleTableInv' /\ RankInv' /\ restored' \subseteq Rows'
  BY <1>5, LabelTables, TablesKeepRules
<1>6. ASSUME NEW p \in Payloads, CreateRule(p)
      PROVE  TablesInv' /\ RuleTableInv' /\ RankInv' /\ restored' \subseteq Rows'
  BY <1>6, RuleTables, RuleIdsAssumption, CreateRuleRank
<1>7. ASSUME NEW p \in Payloads, NEW i \in RuleIds, UpdateRule(i, p)
      PROVE  TablesInv' /\ RuleTableInv' /\ RankInv' /\ restored' \subseteq Rows'
  BY <1>7, RuleTables, UpdateRuleRank
<1>8. ASSUME NEW i \in RuleIds, DeleteRule(i) \/ RestoreRule(i)
      PROVE  TablesInv' /\ RuleTableInv' /\ RankInv' /\ restored' \subseteq Rows'
  BY <1>8, RuleTables, DeleteRuleRank, RestoreRuleRank
<1> QED BY <1>1, <1>2, <1>3, <1>4, <1>5, <1>6, <1>7, <1>8 DEF ConfigNext
-----------------------------------------------------------------------------
(* Orders, the rack and the requests by hand *)

States == {"none", "active", "moved", "closed", "cancelled"}
RackRows == [cell : Cells, material : Materials \cup {None},
             status : Statuses \cup {"available", "reserved"}]
OrderRows == [state : States, src : Cells, dst : Cells, event : Events,
              material : Materials \cup {None}]

FloorTypes ==
  /\ plan \in Plans /\ rack \in RackRows /\ order \in [Orders -> OrderRows]
  /\ applied \in [Orders -> Nat] /\ byHand \in BOOLEAN /\ raced \subseteq Orders
  /\ DOMAIN session = Sessions

\* The steps of a batch are created together.
BatchInv == plan = "batch" /\ order[1].state = "none" => order[2].state = "none"

\* What the steps of the orders and of the requests by hand keep.
OrdersInv == FloorTypes /\ BatchInv /\ HandInv /\ OnceInv /\ ReservationShown

\* An order that has a request stays moved or closed, and the log of an order that
\* did not move the rack is empty.
LEMMA OrdersOnly ==
  ASSUME OrdersInv, UNCHANGED <<plan, applied, session, raced>>,
         order' \in [Orders -> OrderRows],
         \A o \in Orders : order[o].state \in {"moved", "closed"} =>
                             order'[o].state \in {"moved", "closed"},
         \A o \in Orders : order'[o].state \in {"none", "active", "cancelled"} =>
                             order[o].state \in {"none", "active", "cancelled"}
  PROVE  HandInv' /\ OnceInv'
<1>1. HandInv'
  BY DEF OrdersInv, HandInv
<1>2. OnceInv'
  BY DEF OrdersInv, OnceInv, Pending
<1> QED BY <1>1, <1>2

LEMMA NewOrderRow ==
  ASSUME FloorTypes, NEW o \in Orders, NEW e \in Events
  PROVE  NewOrder(o, e) \in OrderRows /\ NewOrder(o, e).state = "active"
<1>1. o = 1 \/ o = 2
  BY OrdersAssumption
<1>2. Route[o] \in Cells /\ Route[o + 1] \in Cells
  BY <1>1, OrdersAssumption
<1>3. rack.material \in Materials \cup {None}
  BY DEF FloorTypes, RackRows
<1> QED BY <1>2, <1>3 DEF NewOrder, OrderRows, States

LEMMA CreateStep ==
  ASSUME OrdersInv, NEW o \in Orders, CreateOrder(o)
  PROVE  OrdersInv'
<1>1. PICK e \in Events :
        order' = [p \in Orders |->
                    IF p = o THEN NewOrder(o, e)
                    ELSE IF plan = "batch" THEN NewOrder(p, NoEvent) ELSE order[p]]
  BY DEF CreateOrder
<1>2. /\ order[o].state = "none" /\ (plan = "batch" => o = 1)
      /\ rack' = [rack EXCEPT !.status = "reserved"]
      /\ byHand' = FALSE /\ UNCHANGED <<plan, applied, session, raced>>
  BY DEF CreateOrder, handVars
<1>3. NoEvent \in Events /\ FloorTypes /\ BatchInv
  BY DEF Events, OrdersInv
<1>4. \A p \in Orders : /\ order'[p] \in OrderRows
                        /\ \/ order'[p].state = "active" /\ order[p].state = "none"
                           \/ order'[p] = order[p]
  <2> TAKE p \in Orders
  <2>1. CASE p = o
    BY <1>1, <1>2, <1>3, <2>1, NewOrderRow
  <2>2. CASE p # o /\ plan = "batch"
    <3>1. p = 2 /\ o = 1
      BY <2>2, <1>2, OrdersAssumption
    <3> QED BY <2>2, <3>1, <1>1, <1>2, <1>3, NewOrderRow DEF BatchInv
  <2>3. CASE p # o /\ plan # "batch"
    BY <2>3, <1>1, <1>3 DEF FloorTypes
  <2> QED BY <2>1, <2>2, <2>3
<1>5. order' \in [Orders -> OrderRows] /\ order'[o].state = "active"
  BY <1>1, <1>3, <1>4, NewOrderRow
<1>6. FloorTypes'
  BY <1>2, <1>3, <1>5 DEF FloorTypes, RackRows
<1>7. HandInv' /\ OnceInv'
  BY <1>2, <1>4, <1>5, OrdersOnly
<1>8. BatchInv'
  BY <1>1, <1>2, <1>5, OrdersAssumption DEF BatchInv
<1>9. ReservationShown'
  BY <1>2, <1>3 DEF ReservationShown, FloorTypes, RackRows
<1> QED BY <1>6, <1>7, <1>8, <1>9 DEF OrdersInv

\* What a rule leaves of the rack is a rack.
LEMMA ChangeRow ==
  ASSUME NEW r \in Saved, NEW rk \in RackRows
  PROVE  Change(r, rk) \in RackRows
BY SavedFacts DEF Change, RackRows

\* The evaluation gives a row that is active, and only to an order for which nothing
\* was applied.
LEMMA EvaluateRow ==
  ASSUME RuleTableInv, NEW o \in Orders, NEW rk, Evaluate(o, rk) # 0
  PROVE  rules[Evaluate(o, rk)] \in Saved /\ applied[o] = 0
<1> DEFINE i == Chosen(rules, Active, Context(o, rk))
<1>1. Eligible(o, rk) /\ Evaluate(o, rk) = i /\ i # 0
  BY DEF Evaluate
<1>2. Active \in SUBSET Nat
  BY RuleIdsAssumption DEF Active, Rows
<1> HIDE DEF i
<1>3. i \in Active
  <2> USE DEF i
  <2> QED BY <1>1, <1>2, ChosenIs
<1>4. rules[i] \in Saved
  BY <1>3 DEF RuleTableInv, Active, Rows
<1> QED BY <1>1, <1>4 DEF Eligible

LEMMA HoldRow ==
  ASSUME NEW o \in Orders, NEW rk \in RackRows
  PROVE  Hold(o, rk) \in RackRows /\ (HeldByOther(o) => Hold(o, rk).status = "reserved")
BY DEF Hold, RackRows

LEMMA CompleteStep ==
  ASSUME OrdersInv, RuleTableInv, NEW o \in Orders, Complete(o)
  PROVE  OrdersInv'
<1> DEFINE moved == [rack EXCEPT !.cell = order[o].dst, !.status = "available"]
           i == Evaluate(o, moved)
<1>1. /\ order[o].state = "active" /\ order' = [order EXCEPT ![o].state = "moved"]
      /\ byHand' = FALSE /\ UNCHANGED <<plan, session, raced>>
  BY DEF Complete, InForce, handVars
<1>2. \/ i = 0 /\ rack' = Hold(o, moved) /\ UNCHANGED applied
      \/ i # 0 /\ rack' = Hold(o, Change(rules[i], moved))
         /\ applied' = [applied EXCEPT ![o] = @ + 1]
  BY DEF Complete
<1>3. FloorTypes /\ order \in [Orders -> OrderRows] /\ applied \in [Orders -> Nat]
  BY DEF OrdersInv, FloorTypes
<1>4. moved \in RackRows
  BY <1>3 DEF FloorTypes, RackRows, OrderRows
<1>5. i # 0 => rules[i] \in Saved /\ applied[o] = 0
  BY EvaluateRow
<1> HIDE DEF moved, i
<1>6. rack' \in RackRows /\ (HeldByOther(o) => rack'.status = "reserved")
  BY <1>2, <1>4, <1>5, HoldRow, ChangeRow
<1>7. order' \in [Orders -> OrderRows] /\ order'[o].state = "moved"
      /\ \A p \in Orders \ {o} : order'[p] = order[p]
  BY <1>1, <1>3 DEF OrderRows, States
<1>8. applied[o] = 0 /\ applied' \in [Orders -> Nat] /\ applied'[o] \in {0, 1}
      /\ \A p \in Orders \ {o} : applied'[p] = applied[p]
  <2>1. applied[o] = 0
    BY <1>1 DEF OrdersInv, OnceInv
  <2> QED BY <2>1, <1>2, <1>3
<1>9. \A s \in Sessions : ~Pending(s, o)
  BY <1>1 DEF OrdersInv, HandInv, Pending
<1>10. FloorTypes'
  BY <1>1, <1>3, <1>6, <1>7, <1>8 DEF FloorTypes
<1>11. HandInv'
  BY <1>1, <1>7 DEF OrdersInv, HandInv
<1>12. OnceInv'
  BY <1>1, <1>7, <1>8, <1>9 DEF OrdersInv, OnceInv, Pending
<1>13. BatchInv'
  BY <1>1, <1>7, OrdersAssumption DEF OrdersInv, BatchInv
<1>14. ReservationShown'
  BY <1>6, <1>7 DEF ReservationShown, HeldByOther, InForce
<1> QED BY <1>10, <1>11, <1>12, <1>13, <1>14 DEF OrdersInv

\* An order ends: a rack nobody else holds is made available.
LEMMA EndStep ==
  ASSUME OrdersInv, NEW o \in Orders, Close(o) \/ Cancel(o)
  PROVE  OrdersInv'
<1>1. PICK st \in States :
        /\ order' = [order EXCEPT ![o].state = st]
        /\ \/ order[o].state = "moved" /\ st = "closed"
           \/ order[o].state = "active" /\ st = "cancelled"
  BY DEF Close, Cancel, InForce, States
<1>2. /\ rack' = IF HeldByOther(o) THEN rack ELSE [rack EXCEPT !.status = "available"]
      /\ UNCHANGED <<plan, applied, byHand, session, raced>>
  BY DEF Close, Cancel, handVars
<1>3. FloorTypes /\ order \in [Orders -> OrderRows]
  BY DEF OrdersInv, FloorTypes
<1>4. order' \in [Orders -> OrderRows] /\ order'[o].state = st
      /\ \A p \in Orders \ {o} : order'[p] = order[p]
  BY <1>1, <1>3 DEF OrderRows
<1>5. FloorTypes'
  BY <1>2, <1>3, <1>4 DEF FloorTypes, RackRows
<1>6. HandInv' /\ OnceInv'
  BY <1>1, <1>2, <1>4, OrdersOnly
<1>7. BatchInv'
  BY <1>1, <1>2, <1>4, OrdersAssumption DEF OrdersInv, BatchInv
<1>8. ReservationShown'
  <2>1. CASE HeldByOther(o)
    BY <2>1, <1>2 DEF OrdersInv, ReservationShown, HeldByOther
  <2>2. CASE ~HeldByOther(o)
    BY <2>2, <1>1, <1>4 DEF ReservationShown, HeldByOther, InForce
  <2> QED BY <2>1, <2>2 DEF InForce
<1> QED BY <1>5, <1>6, <1>7, <1>8 DEF OrdersInv

LEMMA PlaceStep ==
  ASSUME OrdersInv, NEW c \in Cells, PlaceRack(c)
  PROVE  OrdersInv'
<1>1. /\ rack' = [rack EXCEPT !.cell = c]
      /\ UNCHANGED <<plan, order, applied, byHand, session, raced>>
  BY DEF PlaceRack, handVars
<1>2. FloorTypes'
  BY <1>1 DEF OrdersInv, FloorTypes, RackRows
<1>3. HandInv' /\ OnceInv' /\ BatchInv'
  BY <1>1 DEF OrdersInv, HandInv, OnceInv, BatchInv, Pending
<1>4. ReservationShown'
  BY <1>1 DEF OrdersInv, FloorTypes, RackRows, ReservationShown, InForce
<1> QED BY <1>2, <1>3, <1>4 DEF OrdersInv

LEMMA ReadStep ==
  ASSUME OrdersInv, RuleTableInv, NEW s \in Sessions, NEW o \in Orders, ReadByHand(s, o)
  PROVE  OrdersInv'
<1> DEFINE i == Evaluate(o, rack)
           w == [order |-> o, rule |-> rules[i], seen |-> rack]
<1>1. /\ session[s] = Idle /\ order[o].state \in {"moved", "closed"} /\ i # 0
      /\ session' = [session EXCEPT ![s] = w]
      /\ raced' = IF \E t \in Sessions : session[t] # Idle /\ session[t].order = o
                  THEN raced \cup {o} ELSE raced
      /\ UNCHANGED <<plan, rack, order, applied, byHand>>
  BY DEF ReadByHand, rackVars
<1>2. rules[i] \in Saved /\ applied[o] = 0
  BY <1>1, EvaluateRow
<1>3. /\ w.order = o /\ w.rule = rules[i] /\ w.seen = rack
      /\ rack.material \in Materials \cup {None}
      /\ rack.status \in Statuses \cup {"available", "reserved"}
  BY DEF OrdersInv, FloorTypes, RackRows
<1>4. FloorTypes'
  BY <1>1 DEF OrdersInv, FloorTypes
<1> HIDE DEF w
<1>5. session'[s] = w /\ \A t \in Sessions \ {s} : session'[t] = session[t]
  BY <1>1 DEF OrdersInv, FloorTypes
<1>6. HandInv'
  BY <1>1, <1>2, <1>3, <1>5 DEF OrdersInv, HandInv
<1>7. OnceInv'
  <2>1. ASSUME NEW p \in Orders, p \notin raced', p # o,
               NEW t \in Sessions, Pending(t, p)'
        PROVE  t # s /\ Pending(t, p)
    BY <2>1, <1>3, <1>5 DEF Pending
  <2>2. ASSUME o \notin raced', NEW t \in Sessions, Pending(t, o)'
        PROVE  t = s
    BY <2>2, <1>1, <1>5 DEF Pending
  <2>3. \A p \in Orders : p \notin raced' => p \notin raced
    BY <1>1
  <2>4. ASSUME NEW p \in Orders
        PROVE  order[p].state \in {"none", "active", "cancelled"} => applied[p] = 0
    BY DEF OrdersInv, OnceInv
  <2>5. ASSUME NEW p \in Orders, p \notin raced'
        PROVE  /\ applied[p] <= 1
               /\ \A t \in Sessions : Pending(t, p)' => applied[p] = 0
               /\ \A t, u \in Sessions : Pending(t, p)' /\ Pending(u, p)' => t = u
    BY <2>1, <2>2, <2>3, <2>5, <1>2 DEF OrdersInv, OnceInv
  <2> QED BY <1>1, <2>4, <2>5 DEF OnceInv
<1>8. BatchInv' /\ ReservationShown'
  BY <1>1 DEF OrdersInv, BatchInv, ReservationShown, InForce
<1> QED BY <1>4, <1>6, <1>7, <1>8 DEF OrdersInv

LEMMA WriteStep ==
  ASSUME OrdersInv, NEW s \in Sessions, WriteByHand(s)
  PROVE  OrdersInv'
<1> DEFINE w == session[s]
           after == Change(w.rule, w.seen)
<1>0. PICK o \in Orders : o = w.order
  BY DEF WriteByHand, OrdersInv, HandInv
<1>1. /\ w # Idle /\ session' = [session EXCEPT ![s] = Idle]
      /\ rack' = [rack EXCEPT !.material = IF after.material # w.seen.material
                                           THEN after.material ELSE @,
                              !.status = IF after.status # w.seen.status
                                         THEN after.status ELSE @]
      /\ applied' = [applied EXCEPT ![o] = @ + 1]
      /\ byHand' = (byHand \/ after.status # w.seen.status)
      /\ UNCHANGED <<plan, order, raced>>
  BY <1>0 DEF WriteByHand
<1>2. /\ o \in Orders /\ order[o].state \in {"moved", "closed"} /\ w.rule \in Saved
      /\ w.seen.material \in Materials \cup {None}
      /\ w.seen.status \in Statuses \cup {"available", "reserved"}
  BY <1>0, <1>1 DEF OrdersInv, HandInv
<1>3. /\ after.material # w.seen.material => after.material \in Materials \cup {None}
      /\ after.status # w.seen.status => after.status \in Statuses \cup {"available", "reserved"}
  <2>1. w.rule.nextMat \in Materials \cup {None}
        /\ w.rule.nextStatus \in Statuses \cup {"available", "reserved", None}
    BY <1>2, SavedFacts
  <2> QED BY <2>1 DEF Change
<1>4. Pending(s, o)
  BY <1>0, <1>1 DEF Pending
<1> HIDE DEF after
<1>5. rack' \in RackRows /\ byHand' \in BOOLEAN /\ (rack'.status # rack.status => byHand')
  BY <1>1, <1>3 DEF OrdersInv, FloorTypes, RackRows
<1>6. applied' \in [Orders -> Nat] /\ applied'[o] = applied[o] + 1
      /\ \A p \in Orders \ {o} : applied'[p] = applied[p]
  BY <1>1, <1>2 DEF OrdersInv, FloorTypes
<1>7. session'[s] = Idle /\ \A t \in Sessions \ {s} : session'[t] = session[t]
  BY <1>1 DEF OrdersInv, FloorTypes
<1>8. FloorTypes'
  BY <1>1, <1>5, <1>6 DEF OrdersInv, FloorTypes
<1>9. HandInv'
  BY <1>1, <1>7 DEF OrdersInv, HandInv
<1>10. OnceInv'
  <2>1. ASSUME NEW t \in Sessions, NEW p \in Orders, Pending(t, p)'
        PROVE  t # s /\ Pending(t, p)
    BY <2>1, <1>7 DEF Pending
  <2>2. ASSUME o \notin raced
        PROVE  applied'[o] = 1 /\ \A t \in Sessions : ~Pending(t, o)'
    <3>1. applied[o] = 0 /\ \A t \in Sessions : Pending(t, o) => t = s
      BY <2>2, <1>2, <1>4 DEF OrdersInv, OnceInv
    <3> QED BY <3>1, <2>1, <1>2, <1>6
  <2>3. ASSUME NEW p \in Orders
        PROVE  order[p].state \in {"none", "active", "cancelled"} => applied'[p] = 0
    BY <1>2, <1>6 DEF OrdersInv, OnceInv
  <2>4. ASSUME NEW p \in Orders, p \notin raced
        PROVE  /\ applied'[p] <= 1
               /\ \A t \in Sessions : Pending(t, p)' => applied'[p] = 0
               /\ \A t, u \in Sessions : Pending(t, p)' /\ Pending(u, p)' => t = u
    <3>1. CASE p = o
      BY <3>1, <2>2, <2>4
    <3>2. CASE p # o
      BY <3>2, <2>1, <2>4, <1>6 DEF OrdersInv, OnceInv
    <3> QED BY <3>1, <3>2
  <2> QED BY <1>1, <2>3, <2>4 DEF OnceInv
<1>11. BatchInv' /\ ReservationShown'
  BY <1>1, <1>5 DEF OrdersInv, BatchInv, ReservationShown, InForce
<1> QED BY <1>8, <1>9, <1>10, <1>11 DEF OrdersInv

\* The edits of the configuration leave the orders and the rack alone, and the
\* orders and the requests by hand leave the configuration alone.
LEMMA OrdersApart ==
  ASSUME OrdersInv, UNCHANGED <<plan, rack, order, applied, byHand, session, raced>>
  PROVE  OrdersInv'
BY DEF OrdersInv, FloorTypes, BatchInv, HandInv, OnceInv, ReservationShown, Pending, InForce

LEMMA ConfigApart ==
  ASSUME ConfigInv, TablesInv, UNCHANGED tableVars
  PROVE  ConfigInv' /\ TablesInv'
BY DEF ConfigInv, TablesInv, RuleTableInv, RankInv, LabelsInv, TerminalsInv, ReferencesKept,
       OneLabelPerCode, Active, Rows, ActiveLabels, Clash, tableVars

-----------------------------------------------------------------------------
(* The theorems *)

QrInv == OrdersInv /\ ConfigInv /\ TablesInv

LEMMA InitQr == Init => QrInv
<1> SUFFICES ASSUME Init PROVE QrInv
  OBVIOUS
<1> USE DEF Init
<1>1. Route[1] \in Cells /\ Route[2] \in Cells /\ Route[3] \in Cells /\ Orders = {1, 2}
  BY OrdersAssumption
<1>2. rack \in RackRows
  BY <1>1 DEF RackRows
<1>3. \A o \in Orders : order[o] \in OrderRows /\ order[o].state = "none"
  <2> TAKE o \in Orders
  <2>1. Route[o] \in Cells /\ Route[o + 1] \in Cells /\ rack.material \in Materials \cup {None}
    BY <1>1, <1>2 DEF RackRows
  <2>2. order[o] = [NewOrder(o, NoEvent) EXCEPT !.state = "none"] /\ NoEvent \in Events
    BY DEF Events
  <2> QED BY <2>1, <2>2 DEF NewOrder, OrderRows, States
<1>4. FloorTypes
  BY <1>2, <1>3 DEF FloorTypes
<1>5. BatchInv /\ HandInv /\ OnceInv /\ ReservationShown
  BY <1>1, <1>3 DEF BatchInv, HandInv, OnceInv, ReservationShown, Pending, InForce
<1>6. PICK p \in Payloads, on \in BOOLEAN :
        /\ ReferencesActive(p) /\ SimpleIsSimple(p)
        /\ rules = [i \in RuleIds |-> IF i = 1 THEN [Stored(p) EXCEPT !.active = on] ELSE NoRule]
  BY DEF Diagnosed
<1> DEFINE r == [Stored(p) EXCEPT !.active = on]
<1>7. r \in Saved /\ r.qr = p.qr /\ r.station = p.station
  <2>1. Stored(p) \in Saved
    BY <1>6, StoredSaved
  <2> QED BY <2>1, SavedSwitch, StoredRank DEF SameRank, Fields, Conditional
<1>8. rules = [i \in RuleIds |-> IF i = 1 THEN r ELSE NoRule]
  BY <1>6
<1> HIDE DEF r
<1>9. RuleTableInv /\ Rows \subseteq {1}
  BY <1>7, <1>8 DEF RuleTableInv, Rows
<1>10. labels \in [Labels -> [code : Codes \cup {None}, match : MatchTypes, active : BOOLEAN]]
       /\ LabelsInv /\ OneLabelPerCode
  BY StartLabelsAssumption DEF LabelsInv, OneLabelPerCode, ActiveLabels
<1>11. TerminalsInv
  BY DEF TerminalsInv
<1>12. ConfigInv
  BY <1>9, <1>10, <1>11 DEF ConfigInv, RankInv, Active
<1>13. ReferencesKept
  <2>1. ASSUME NEW i \in Active PROVE rules[i].qr = p.qr /\ rules[i].station = p.station
    BY <1>7, <1>8, <1>9 DEF Active, Rows
  <2>2. \A t \in Terminals : ~terminals[t].active
    OBVIOUS
  <2> QED BY <2>1, <2>2, <1>6 DEF ReferencesKept, ReferencesActive
<1> QED BY <1>4, <1>5, <1>10, <1>11, <1>12, <1>13 DEF QrInv, OrdersInv, TablesInv

LEMMA StepQr == QrInv /\ [Next]_vars => QrInv'
<1> SUFFICES ASSUME QrInv, [Next]_vars PROVE QrInv'
  OBVIOUS
<1> USE DEF QrInv
<1>1. RuleTableInv
  BY DEF ConfigInv
<1>2. ASSUME NEW o \in Orders, OrderStep(o) PROVE QrInv'
  <2>1. OrdersInv'
    BY <1>1, <1>2, CreateStep, CompleteStep, EndStep DEF OrderStep
  <2>2. UNCHANGED tableVars
    BY <1>2 DEF OrderStep, CreateOrder, Complete, Close, Cancel, configVars
  <2> QED BY <2>1, <2>2, ConfigApart
<1>3. ASSUME NEW c \in Cells, PlaceRack(c) PROVE QrInv'
  <2>1. UNCHANGED tableVars
    BY <1>3 DEF PlaceRack
  <2> QED BY <2>1, <1>3, PlaceStep, ConfigApart
<1>4. ASSUME NEW s \in Sessions, HandStep(s) PROVE QrInv'
  <2>1. OrdersInv'
    BY <1>1, <1>4, ReadStep, WriteStep DEF HandStep
  <2>2. UNCHANGED tableVars
    BY <1>4 DEF HandStep, ReadByHand, WriteByHand, configVars
  <2> QED BY <2>1, <2>2, ConfigApart
<1>5. CASE ConfigNext /\ UNCHANGED <<plan, rackVars, handVars>>
  BY <1>5, ConfigStep, OrdersApart DEF rackVars, handVars
<1>6. CASE UNCHANGED vars
  BY <1>6, OrdersApart, ConfigApart DEF vars, rackVars, handVars, configVars
<1> QED BY <1>2, <1>3, <1>4, <1>5, <1>6 DEF Next

\* The invariant of the transitions: what the endpoints keep of the configuration,
\* and what the orders, the hook and the requests by hand keep of the rack.
THEOREM QrKept == Spec => []QrInv
BY InitQr, StepQr, PTL DEF Spec

\* Every variable has its type.
THEOREM Types == Spec => []TypeOK
<1>1. QrInv => TypeOK
  <2>1. HandInv => \A s \in Sessions : session[s] = Idle \/ session[s].order \in Orders
    BY DEF HandInv
  <2> QED BY <2>1 DEF QrInv, OrdersInv, FloorTypes, RackRows, OrderRows, States, ConfigInv,
                      LabelsInv, TerminalsInv, TypeOK
<1> QED BY <1>1, QrKept, PTL

\* A completed order changes its rack once (qr_transition_service.py), unless two
\* requests by hand overlapped.
THEOREM Once == Spec => []AppliedOnce
<1>1. QrInv => AppliedOnce
  BY DEF QrInv, OrdersInv, OnceInv, AppliedOnce
<1> QED BY <1>1, QrKept, PTL

\* A rack that an order holds shows as reserved, whatever the rules of a step of its
\* batch say.
THEOREM Shown == Spec => []ReservationShown
<1>1. QrInv => ReservationShown
  BY DEF QrInv, OrdersInv
<1> QED BY <1>1, QrKept, PTL

\* For every order, rack and scan the ranking decides between two active rules that
\* the diagnosis let through.
THEOREM Decides == Spec => []RankingDecides
<1>1. ASSUME QrInv PROVE RankingDecides
  <2> SUFFICES ASSUME NEW i \in Active, NEW j \in Active, i < j,
                      Result(rules[i]) # Result(rules[j]), {i, j} \cap restored = {},
                      ~rules[i].ignore, ~rules[j].ignore, NEW ctx \in Contexts,
                      Matches(rules[i], ctx), Matches(rules[j], ctx)
               PROVE  Outranks(rules[i], rules[j], ctx) \/ Outranks(rules[j], rules[i], ctx)
    <3>1. \A i, j \in Active : i \in Nat /\ j \in Nat /\ (i >= j \/ i < j)
      BY RuleIdsAssumption DEF Active, Rows
    <3> QED BY <3>1 DEF RankingDecides
  <2>1. rules[i] \in Saved /\ rules[j] \in Saved /\ rules[i].active /\ rules[j].active
    BY <1>1 DEF QrInv, ConfigInv, RuleTableInv, Active, Rows
  <2>2. i # j
    BY RuleIdsAssumption DEF Active, Rows
  <2>3. ~Rivals(rules[i], rules[j])
    BY <1>1, <2>2 DEF QrInv, ConfigInv, RankInv
  <2> QED BY <2>1, <2>3, RankDecides
<1> QED BY <1>1, QrKept, PTL

\* An active row refers to active rows, or to one switched off in its own form.
THEOREM References == Spec => []ReferencesKept
<1>1. QrInv => ReferencesKept
  BY DEF QrInv, TablesInv
<1> QED BY <1>1, QrKept, PTL

\* No two active labels answer the same scan with the same kind of comparison.
THEOREM LabelsApart == Spec => []OneLabelPerCode
<1>1. QrInv => OneLabelPerCode
  BY DEF QrInv, TablesInv
<1> QED BY <1>1, QrKept, PTL
=============================================================================
