---------------------------- MODULE RuntimeProofs ----------------------------
(***************************************************************************)
(* Proofs, for any rows, queues and bounds, that a page never holds a      *)
(* checkpoint or a revision it does not have, never goes back to an older  *)
(* version, and that a quiet channel leaves it with every change that the  *)
(* loop did not drop for good.                                             *)
(***************************************************************************)
EXTENDS RuntimeChannel, TLAPS, FiniteSetTheorems

(* The shape of the state *)

Stages  == {"none", "key", "revision", "rows", "check", "reply", "give_up",
            "connect", "replay", "receive"}
Subject == Rows \cup {NoRow}
Entries == [row : Subject, ver : Versions, locrev : Nat]
Items   == [kind : {"message", "change"}, row : Subject, rev : Nat]

Events    == [type : {"event"}, rev : Nat, row : Subject, ver : Versions, locrev : Nat]
Beats     == [type : {"heartbeat"}, rev : Nat]
Notices   == [type : {"resync_required"}]
Snapshots == [type : {"snapshot"}, rev : Nat, locrev : Nat, omitted : BOOLEAN,
              rows : [Rows -> Versions]]
Messages  == Events \cup Beats \cup Notices \cup Snapshots

Uses == [commits : 0..MaxCommits, robots : Nat, failures : Nat, loads : Nat,
         losses : Nat, restarts : Nat, reloads : Nat]
DataTypes ==
    /\ db \in [Rows -> Versions]
    /\ locrev \in Nat \ {0}
    /\ counted \in Seq([Locations -> Versions]) /\ Len(counted) = locrev
    /\ used \in Uses

LoopTypes ==
    /\ setup \in Setups
    /\ changes \in Seq(Items) /\ Len(changes) <= ChangesMax
    /\ overflow \in BOOLEAN
    /\ history \in Seq(Entries)
    /\ loop \in [at : {"top", "get", "read", "publish"}, row : Subject, ver : Versions,
                 locrev : Nat]

Handlers == [at : Stages, initial : BOOLEAN, ck : Nat, attempt : Nat, k : Nat, n : Nat,
             omit : BOOLEAN, rows : [Rows -> Versions], rest : Seq(Events)]
ConnTypes ==
    /\ handler \in Handlers
    /\ registered \in BOOLEAN
    /\ outq \in Seq(Messages) /\ Len(outq) <= QueueMax
    /\ wire \in Seq(Messages) /\ Len(wire) <= WireMax
    /\ up \in Seq(Nat)

Pages  == [open : BOOLEAN, first : BOOLEAN, revision : Nat, old : BOOLEAN,
           locrev : Nat, pending : BOOLEAN, view : [Rows -> Versions]]
Works  == [kind : {"none", "snapshot", "event"}, rev : Nat, locrev : Nat,
           row : Subject, ver : Versions, rows : [Rows -> Versions]]
Caches == [locrev : Nat, observed : Nat, complete : BOOLEAN,
           rows : [Locations -> Versions]]
Loads  == [at : {"none", "answered"}, started : Nat, locrev : Nat,
           rows : [Rows -> Versions]]
PageTypes == page \in Pages /\ busy \in Works /\ cache \in Caches /\ http \in Loads

(* The database and its checkpoints *)

\* Versions count commits, and hooks and checkpoints never run ahead of the rows.
DataInv ==
    /\ \A r \in Rows : db[r] <= used.commits
    /\ \A h \in hooks : /\ DOMAIN h \subseteq Rows
                        /\ \A r \in DOMAIN h : h[r] \in Versions /\ h[r] <= db[r]
    /\ \A k \in 1..locrev, l \in Locations : counted[k][l] <= db[l]

\* The last checkpoint counts every commit of a location whose hook has run.
CountedInv ==
    \A l \in Locations : \/ counted[locrev][l] = db[l]
                         \/ \E h \in hooks : l \in DOMAIN h /\ h[l] = db[l]

LoopInv ==
    /\ \A i \in 1..Revision : /\ history[i].row \in Rows => history[i].ver <= db[history[i].row]
                              /\ history[i].locrev <= locrev
    /\ \A i \in 1..Len(changes) :
          IF changes[i].kind = "message"
          THEN changes[i].row = NoRow /\ changes[i].rev \in 1..Revision
          ELSE changes[i].row \in Rows
    /\ loop.at \in {"read", "publish"} => loop.row \in Rows
    /\ loop.at = "publish" => loop.ver <= db[loop.row]
    /\ loop.locrev <= locrev
    /\ cut # {} => overflow

(* Messages *)

Pipe == wire \o outq

\* What a snapshot says of a row: of the locations it leaves out, what its
\* checkpoint counts.
Says(omitted, k, rows, r) ==
    IF omitted /\ r \in Locations THEN counted[k][r] ELSE rows[r]

\* The rows were read when the checkpoint k and the revision n were.
Covers(omitted, k, n, rows) ==
    /\ n <= Revision /\ k \in 1..locrev
    /\ \A r \in Rows : rows[r] <= db[r]
    /\ \A l \in Locations : ~omitted => counted[k][l] <= rows[l]
    /\ \A i \in 1..n : history[i].row \in Orders => history[i].ver <= rows[history[i].row]

Valid(m) ==
    /\ m.type = "event"    => m.rev \in 1..Revision /\ m = Event(m.rev)
    /\ m.type = "snapshot" => Covers(m.omitted, m.locrev, m.rev, m.rows)

PipeInv == \A i \in 1..Len(Pipe) : Valid(Pipe[i])

Sound(h) ==
    /\ h.at \in {"revision", "rows", "check", "reply"} => h.k \in 1..locrev
    /\ h.at \in {"rows", "check", "reply", "give_up", "connect"} => h.n <= Revision
    /\ h.at \in {"check", "reply"} => Covers(h.omit, h.k, h.n, h.rows)
    /\ \A i \in 1..Len(h.rest) : Valid(h.rest[i])
HandlerInv == Sound(handler)

(* The connection *)

ConnInv ==
    /\ ~page.open => handler.at = "none" /\ ~registered /\ wire = <<>> /\ up = <<>>
    /\ ~registered => outq = <<>>
    /\ handler.at # "none" => (handler.initial <=> ~registered)
    /\ handler.at = "none" => ~page.open
    /\ handler.at \in {"replay", "receive"} => ~handler.initial
    /\ handler.at = "connect" => handler.initial
    /\ handler.initial /\ handler.at # "connect" => wire = <<>>

\* The first message of a connection is the snapshot, or the notice that there is none.
FirstInv ==
    page.open /\ page.first /\ ~page.pending =>
        \/ handler.initial /\ handler.at # "connect"
        \/ wire # <<>> /\ Head(wire).type \in {"snapshot", "resync_required"}

\* What the page has begun to handle.
BusyInv ==
    /\ page.open /\ page.first /\ busy.kind = "snapshot" => ~page.pending
    /\ page.open /\ ~page.first /\ busy.kind = "snapshot" => ~page.old
    /\ page.open /\ ~page.first /\ page.old => page.pending
    /\ busy.kind = "event" => busy.rev = page.revision + 1

(* The checkpoints *)

\* The rows R were read from the database and have what the checkpoint k counts.
Backed(k, rows, R) ==
    /\ k <= locrev /\ \A r \in R : rows[r] <= db[r]
    /\ k # 0 => \A l \in Locations : counted[k][l] <= rows[l]

CheckpointInv ==
    /\ Backed(page.locrev, page.view, Rows)
    /\ busy.kind = "snapshot" => busy.locrev # 0 /\ Backed(busy.locrev, busy.rows, Rows)
    /\ busy.kind = "event" => busy.row \in Locations /\ busy.ver <= db[busy.row]
    /\ busy.locrev <= locrev
    /\ cache.locrev # 0 /\ cache.observed <= locrev
    /\ Backed(IF cache.complete THEN cache.locrev ELSE 0, cache.rows, Locations)
    /\ cache.locrev <= locrev
    /\ Backed(http.locrev, http.rows, Rows)

(* The revision *)

\* The revision the page has, or will have when the snapshot it handles is written.
At == IF busy.kind = "snapshot" THEN busy.rev ELSE page.revision

RevisionInv ==
    ~page.old =>
        /\ At <= Revision
        /\ \A i \in 1..At : history[i].row \in Orders =>
               history[i].ver <= page.view[history[i].row]
        /\ busy.kind = "event" =>
               /\ busy.rev <= Revision /\ busy.row \in Locations
               /\ history[busy.rev].row = busy.row /\ history[busy.rev].ver = busy.ver
               /\ busy.ver <= page.view[busy.row]

(* What is shown *)

\* The page counts an event about r after the revision n.
After(n, r) == \E i \in 1..Revision : n < i /\ i <= page.revision /\ history[i].row = r

\* Nothing the page shows is missing from the snapshot rows, read at revision n.
Outright == busy.kind = "snapshot" \/ (page.open /\ page.first /\ ~page.pending)
Shows(rows, n) ==
    \A r \in Orders : page.view[r] > 0 => rows[r] > 0 \/ (~Outright /\ After(n, r))

ShownInv ==
    /\ \A i \in 1..Len(Pipe) : Pipe[i].type = "snapshot" =>
          /\ Shows(Pipe[i].rows, Pipe[i].rev)
          /\ \A j \in i+1..Len(Pipe) : Pipe[j].type = "snapshot" =>
                \A r \in Orders : Pipe[i].rows[r] <= Pipe[j].rows[r]
          /\ handler.at \in {"check", "reply"} =>
                \A r \in Orders : Pipe[i].rows[r] <= handler.rows[r]
    /\ handler.at \in {"check", "reply"} => Shows(handler.rows, handler.n)

(* What is told *)

\* The last version of r is still to be published.
Pend(r) ==
    \/ \E h \in hooks : r \in DOMAIN h /\ h[r] = db[r]
    \/ \E i \in 1..Len(changes) : changes[i].row = r
    \/ <<r, db[r]>> \in cut
    \/ loop.at = "read" /\ loop.row = r
    \/ loop.at = "publish" /\ loop.row = r /\ loop.ver = db[r]

\* Who has version v of r, and the events up to n, has the last version, or will
\* be told, or never.
Known(r, v, n) ==
    \/ v = db[r]
    \/ <<r, db[r]>> \in missed
    \/ Pend(r)
    \/ \E i \in 1..Revision : n < i /\ history[i].row = r /\ history[i].ver = db[r]

Notice(i) == \E j \in 1..Len(Pipe) : i < j /\ Pipe[j].type = "resync_required"

ToldInv ==
    /\ \A r \in Rows : \/ handler.at \notin {"check", "reply"}
                       \/ handler.at = "check" /\ handler.omit /\ r \in Locations
                       \/ Known(r, Says(handler.omit, handler.k, handler.rows, r), handler.n)
    /\ \A i \in 1..Len(Pipe) : Pipe[i].type = "snapshot" =>
          \/ Notice(i)
          \/ \A r \in Rows : Known(r, Says(Pipe[i].omitted, Pipe[i].locrev, Pipe[i].rows, r),
                                   Pipe[i].rev)
    /\ page.open /\ ~page.first /\ (busy.kind = "snapshot" \/ ~page.pending) =>
          \/ Notice(0)
          \/ \A r \in Rows : Known(r, page.view[r], At)

ServerInv == DataTypes /\ LoopTypes /\ ConnTypes /\ DataInv /\ CountedInv /\ LoopInv
ClientInv == PageTypes /\ CheckpointInv
LinkInv   == PipeInv /\ HandlerInv /\ ConnInv /\ FirstInv /\ BusyInv
IInv      == ServerInv /\ ClientInv /\ LinkInv /\ RevisionInv /\ ShownInv /\ ToldInv

-----------------------------------------------------------------------------
(* Steps *)

\* Rows change by commits, hooks by commits and their turns, checkpoints with hooks.
LEMMA DataSteps ==
  ASSUME DataTypes, Next
  PROVE  \/ \E R \in SUBSET Rows : Commit(R)
         \/ \E h \in hooks : AfterCommit(h)
         \/ RestartServer
         \/ UNCHANGED dataVars /\ used' \in Uses /\ used'.commits = used.commits
<1> USE DEF DataTypes, Uses
<1>1. CASE ServerStep
  <2>1. CASE LoopTop BY <2>1 DEF LoopTop
  <2>2. CASE LoopGet BY <2>2 DEF LoopGet
  <2>3. CASE LoopHeartbeat BY <2>3 DEF LoopHeartbeat
  <2>4. CASE LoopRead BY <2>4 DEF LoopRead
  <2>5. CASE LoopFails BY <2>5 DEF LoopFails
  <2>6. CASE LoopPublish BY <2>6 DEF LoopPublish
  <2>7. CASE PublishRobots
    <3>1. used' = [used EXCEPT !.robots = @ + 1] /\ UNCHANGED dataVars BY <2>7 DEF PublishRobots
    <3> QED BY <3>1
  <2>8. CASE SnapshotKey BY <2>8 DEF SnapshotKey
  <2>9. CASE SnapshotRevision BY <2>9 DEF SnapshotRevision
  <2>10. CASE SnapshotRows BY <2>10 DEF SnapshotRows
  <2>11. CASE SnapshotCheck BY <2>11 DEF SnapshotCheck
  <2>12. CASE Reply BY <2>12 DEF Reply
  <2>13. CASE Connect BY <2>13 DEF Connect
  <2>14. CASE Replay BY <2>14 DEF Replay
  <2>15. CASE ReceiveResync BY <2>15 DEF ReceiveResync
  <2>16. CASE Sender BY <2>16 DEF Sender
  <2> QED BY <1>1, <2>1, <2>2, <2>3, <2>4, <2>5, <2>6, <2>7, <2>8, <2>9, <2>10, <2>11,
             <2>12, <2>13, <2>14, <2>15, <2>16 DEF ServerStep
<1>2. CASE ClientStep
  <2>1. CASE IgnoreSnapshot BY <2>1 DEF IgnoreSnapshot, Delivered
  <2>2. CASE RejectSnapshot BY <2>2 DEF RejectSnapshot, Delivered
  <2>3. CASE ApplySnapshot BY <2>3 DEF ApplySnapshot, Delivered
  <2>4. CASE HeartbeatArrives BY <2>4 DEF HeartbeatArrives, Delivered
  <2>5. CASE ResyncRequiredArrives BY <2>5 DEF ResyncRequiredArrives, Delivered
  <2>6. CASE IgnoreEvent BY <2>6 DEF IgnoreEvent, Delivered
  <2>7. CASE GapInEvents BY <2>7 DEF GapInEvents, Delivered
  <2>8. CASE ApplyEvent BY <2>8 DEF ApplyEvent, Delivered
  <2>9. CASE SnapshotWritten BY <2>9 DEF SnapshotWritten, serverVars
  <2>10. CASE EventWritten BY <2>10 DEF EventWritten
  <2>11. CASE LoadLocations BY <2>11 DEF LoadLocations
  <2>12. CASE LocationsLoaded BY <2>12 DEF LocationsLoaded, serverVars
  <2> QED BY <1>2, <2>1, <2>2, <2>3, <2>4, <2>5, <2>6, <2>7, <2>8, <2>9, <2>10, <2>11,
             <2>12 DEF ClientStep
<1>3. CASE OpenSocket BY <1>3 DEF OpenSocket
<1>4. CASE LoseConnection BY <1>4 DEF LoseConnection
<1>5. CASE ReloadPage
  <2>1. used' = [used EXCEPT !.reloads = @ + 1] /\ UNCHANGED dataVars BY <1>5 DEF ReloadPage
  <2> QED BY <2>1
<1> QED BY <1>1, <1>2, <1>3, <1>4, <1>5 DEF Next

\* Versions and checkpoints are only added and, outside a restart, events.
DataGrows ==
    /\ \A r \in Rows : db[r] <= db'[r]
    /\ locrev <= locrev' /\ \A k \in 1..locrev : counted'[k] = counted[k]
EventsGrow == Revision <= Revision' /\ \A i \in 1..Revision : history'[i] = history[i]

LEMMA RowsApart ==
  /\ Locations \subseteq Rows /\ Orders \subseteq Rows /\ NoRow \notin Rows
  /\ \A r \in Orders : r \notin Locations
  /\ \A r \in Rows : r \in Locations \/ r \in Orders
BY RowsAssumption DEF Rows

LEMMA MoreRestarts ==
  ASSUME used \in Uses
  PROVE  /\ [used EXCEPT !.restarts = @ + 1] \in Uses
         /\ [used EXCEPT !.restarts = @ + 1].commits = used.commits
BY DEF Uses

LEMMA DataKept ==
  ASSUME DataTypes, DataInv, CountedInv, Next
  PROVE  DataTypes' /\ DataInv' /\ CountedInv'
<1> USE RowsApart DEF DataTypes, Versions, Uses
<1>1. CASE \E R \in SUBSET Rows : Commit(R)
  <2>1. PICK R \in SUBSET Rows : Commit(R) BY <1>1
  <2> DEFINE new == [r \in R |-> db[r] + 1]
  <2>2. /\ used' = [used EXCEPT !.commits = @ + 1] /\ used.commits < MaxCommits
        /\ db' = [r \in Rows |-> IF r \in R THEN db[r] + 1 ELSE db[r]]
        /\ hooks' = hooks \cup {new} /\ UNCHANGED <<locrev, counted>>
    BY <2>1 DEF Commit
  <2>3. MaxCommits \in Nat /\ used.commits + 1 \in 0..MaxCommits
    BY <2>2, LimitsAssumption
  <2>4. \A r \in Rows : db'[r] \in Versions /\ db[r] <= db'[r] /\ db'[r] <= used'.commits
    BY <2>2, <2>3 DEF DataInv
  <2>5. DataTypes' BY <2>2, <2>3, <2>4
  <2>6. DOMAIN new = R /\ \A r \in R : new[r] = db'[r] BY <2>2
  <2>7. \A k \in 1..locrev, l \in Locations : counted[k][l] \in Nat BY LimitsAssumption
  <2> HIDE DEF new
  <2>8. DataInv'
    <3>1. \A h \in hooks' : /\ DOMAIN h \subseteq Rows
                            /\ \A r \in DOMAIN h : h[r] \in Versions /\ h[r] <= db'[r]
      <4> SUFFICES ASSUME NEW h \in hooks'
                   PROVE  /\ DOMAIN h \subseteq Rows
                          /\ \A r \in DOMAIN h : h[r] \in Versions /\ h[r] <= db'[r]
        OBVIOUS
      <4>1. CASE h \in hooks BY <4>1, <2>4 DEF DataInv
      <4>2. CASE h = new BY <4>2, <2>4, <2>6
      <4> QED BY <4>1, <4>2, <2>2
    <3>2. \A k \in 1..locrev, l \in Locations : counted[k][l] <= db'[l]
      BY <2>4, <2>7 DEF DataInv
    <3> QED BY <3>1, <3>2, <2>2, <2>4 DEF DataInv
  <2>9. CountedInv'
    <3> SUFFICES ASSUME NEW l \in Locations
                 PROVE  counted[locrev][l] = db'[l] \/ \E h \in hooks' : l \in DOMAIN h /\ h[l] = db'[l]
      BY <2>2 DEF CountedInv
    <3>1. CASE l \in R BY <3>1, <2>2, <2>6
    <3>2. CASE l \notin R BY <3>2, <2>2 DEF CountedInv
    <3> QED BY <3>1, <3>2
  <2> QED BY <2>5, <2>8, <2>9
<1>2. CASE \E h \in hooks : AfterCommit(h)
  <2>1. PICK h \in hooks : AfterCommit(h) BY <1>2
  <2>2. hooks' = hooks \ {h} /\ UNCHANGED <<db, used>> BY <2>1 DEF AfterCommit
  <2>3. DOMAIN h \subseteq Rows /\ \A r \in DOMAIN h : h[r] \in Versions /\ h[r] <= db[r] BY DEF DataInv
  <2>4. CASE DOMAIN h \cap Locations = {}
    <3>1. UNCHANGED <<locrev, counted>> BY <2>1, <2>4 DEF AfterCommit, Counts
    <3> QED BY <3>1, <2>2, <2>4 DEF DataInv, CountedInv
  <2>5. CASE DOMAIN h \cap Locations # {}
    <3> DEFINE last == counted[locrev]
               next == [l \in Locations |-> IF l \in DOMAIN h THEN Newer(last[l], h[l]) ELSE last[l]]
    <3>1. locrev' = locrev + 1 /\ counted' = Append(counted, next)
      BY <2>1, <2>5 DEF AfterCommit, Counts
    <3>2. last \in [Locations -> Versions] OBVIOUS
    <3>3. \A l \in Locations : /\ next[l] \in Versions /\ next[l] <= db[l] /\ next[l] >= last[l]
                               /\ l \in DOMAIN h => next[l] >= h[l]
      BY <2>3, <3>2, LimitsAssumption DEF Newer, DataInv
    <3>4. next \in [Locations -> Versions] BY <3>3
    <3>5. \A l \in Locations : l \notin DOMAIN h => next[l] = last[l] OBVIOUS
    <3> HIDE DEF next
    <3>6. counted' \in Seq([Locations -> Versions]) /\ Len(counted') = locrev'
      BY <3>1, <3>4
    <3>7. counted'[locrev'] = next /\ \A k \in 1..locrev : counted'[k] = counted[k]
      BY <3>1
    <3>8. DataTypes' BY <3>6, <3>1, <2>2
    <3>9. \A k \in 1..locrev', l \in Locations : counted'[k][l] <= db[l]
      <4> TAKE k \in 1..locrev', l \in Locations
      <4>1. CASE k = locrev' BY <4>1, <3>7, <3>3
      <4>2. CASE k \in 1..locrev BY <4>2, <3>7 DEF DataInv
      <4> QED BY <4>1, <4>2, <3>1
    <3>10. DataInv' BY <3>9, <2>2 DEF DataInv
    <3>11. CountedInv'
      <4> SUFFICES ASSUME NEW l \in Locations
                   PROVE  next[l] = db[l] \/ \E g \in hooks' : l \in DOMAIN g /\ g[l] = db[l]
        BY <3>7, <2>2 DEF CountedInv
      <4>1. CASE last[l] = db[l] BY <4>1, <3>3, <3>2, LimitsAssumption
      <4>2. CASE l \in DOMAIN h /\ h[l] = db[l] BY <4>2, <3>3, <2>3, LimitsAssumption
      <4>3. CASE \E g \in hooks \ {h} : l \in DOMAIN g /\ g[l] = db[l] BY <4>3, <2>2
      <4> QED BY <4>1, <4>2, <4>3 DEF CountedInv
    <3> QED BY <3>8, <3>10, <3>11
  <2> QED BY <2>4, <2>5
<1>3. CASE RestartServer
  <2> DEFINE next == [l \in Locations |-> db[l]]
  <2>1. /\ UNCHANGED db /\ hooks' = {} /\ locrev' = locrev + 1
        /\ counted' = Append(counted, next)
        /\ used' = [used EXCEPT !.restarts = @ + 1]
    BY <1>3 DEF RestartServer
  <2>2. next \in [Locations -> Versions] /\ \A l \in Locations : next[l] = db[l] OBVIOUS
  <2> HIDE DEF next
  <2>3. counted' \in Seq([Locations -> Versions]) /\ Len(counted') = locrev'
    BY <2>1, <2>2
  <2>4. counted'[locrev'] = next /\ \A k \in 1..locrev : counted'[k] = counted[k]
    BY <2>1
  <2>5. \A k \in 1..locrev', l \in Locations : counted'[k][l] <= db[l]
    <3> TAKE k \in 1..locrev', l \in Locations
    <3>1. CASE k = locrev' BY <3>1, <2>4, <2>2, LimitsAssumption
    <3>2. CASE k \in 1..locrev BY <3>2, <2>4 DEF DataInv
    <3> QED BY <3>1, <3>2, <2>1
  <2>6. used'.commits = used.commits BY <2>1, MoreRestarts
  <2>7. DataTypes'
    <3>1. used' \in Uses BY <2>1, MoreRestarts DEF Uses
    <3>2. db' \in [Rows -> Versions] /\ locrev' \in Nat \ {0} BY <2>1
    <3> QED BY <2>3, <3>1, <3>2
  <2>8. DataInv' BY <2>1, <2>5, <2>6 DEF DataInv
  <2>9. CountedInv' BY <2>1, <2>2, <2>4 DEF CountedInv
  <2> QED BY <2>7, <2>8, <2>9
<1>4. CASE UNCHANGED dataVars /\ used' \in Uses /\ used'.commits = used.commits
  <2> QED BY <1>4 DEF dataVars, DataInv, CountedInv
<1> QED BY <1>1, <1>2, <1>3, <1>4, DataSteps

-----------------------------------------------------------------------------
(* The loop and its queue *)

\* The changes of a commit are about its rows, and about each of them.
LEMMA ItemsOfRows ==
  ASSUME NEW R \in SUBSET Rows
  PROVE  /\ SetToSeq(R) \in Seq(R)
         /\ \A r \in R : \E i \in 1..Len(SetToSeq(R)) : SetToSeq(R)[i] = r
<1> DEFINE n == Cardinality(R)
<1>1. IsFiniteSet(R) BY RowsAssumption, FS_Subset
<1>2. n \in Nat /\ ExistsBijection(1..n, R) BY <1>1, FS_CardinalityType
<1>3. PICK g : g \in Bijection(1..n, R) BY <1>2 DEF ExistsBijection
<1>4. g \in [1..n -> R] /\ IsInjective(g) BY <1>3 DEF Bijection, Injection
<1>5. SetToSeq(R) \in [1..n -> R] /\ IsInjective(SetToSeq(R)) BY <1>4 DEF SetToSeq
<1>6. SetToSeq(R) \in Injection(1..n, R) BY <1>5 DEF Injection
<1>7. IsFiniteSet(1..n) /\ Cardinality(1..n) = n BY <1>2, FS_Interval
<1>8. SetToSeq(R) \in Surjection(1..n, R)
  <2> HIDE DEF n
  <2> QED BY <1>1, <1>6, <1>7, FS_Injection DEF n
<1>9. \A r \in R : \E i \in 1..n : SetToSeq(R)[i] = r BY <1>8 DEF Surjection
<1>10. SetToSeq(R) \in Seq(R) /\ Len(SetToSeq(R)) = n
  <2> HIDE DEF n
  <2> QED BY <1>2, <1>5
<1> QED BY <1>9, <1>10

\* What waits is kept, and what does not fit is told by the overflow.
LEMMA Enqueued ==
  ASSUME LoopTypes, UNCHANGED setup, NEW items \in Seq(Items), Enqueue(items)
  PROVE  /\ changes' \in Seq(Items) /\ Len(changes') <= ChangesMax /\ overflow' \in BOOLEAN
         /\ Len(changes) <= Len(changes') /\ \A i \in 1..Len(changes) : changes'[i] = changes[i]
         /\ \A i \in 1..Len(changes') : i > Len(changes) =>
               \E j \in 1..Len(items) : changes'[i] = items[j]
         /\ overflow => overflow'
         /\ ~overflow' => \A j \in 1..Len(items) : \E i \in 1..Len(changes') : changes'[i] = items[j]
<1> DEFINE all == changes \o items
<1>1. /\ all \in Seq(Items) /\ Len(all) = Len(changes) + Len(items)
      /\ \A i \in 1..Len(changes) : all[i] = changes[i]
      /\ \A i \in 1..Len(all) : i > Len(changes) => all[i] = items[i - Len(changes)]
      /\ \A j \in 1..Len(items) : all[Len(changes) + j] = items[j]
  BY DEF LoopTypes
<1>2. ChangesMax \in Nat \ {0} BY LimitsAssumption DEF LoopTypes, ChangesMax
<1>3. IF Len(all) <= ChangesMax THEN changes' = all /\ UNCHANGED overflow
      ELSE changes' = SubSeq(all, 1, ChangesMax) /\ overflow' = TRUE
  BY DEF Enqueue
<1>4. Len(changes) \in Nat /\ Len(items) \in Nat /\ Len(changes) <= ChangesMax /\ overflow \in BOOLEAN
  BY DEF LoopTypes
<1> HIDE DEF all
<1>5. CASE Len(all) <= ChangesMax
  <2>1. changes' = all /\ overflow' = overflow BY <1>3, <1>5
  <2>2. \A i \in 1..Len(all) : i > Len(changes) => \E j \in 1..Len(items) : all[i] = items[j]
    <3> TAKE i \in 1..Len(all)
    <3> HAVE i > Len(changes)
    <3>1. i - Len(changes) \in 1..Len(items) BY <1>1, <1>4
    <3> QED BY <3>1, <1>1
  <2>3. \A j \in 1..Len(items) : \E i \in 1..Len(all) : all[i] = items[j]
    <3> TAKE j \in 1..Len(items)
    <3>1. Len(changes) + j \in 1..Len(all) BY <1>1, <1>4
    <3> QED BY <3>1, <1>1
  <2>4. overflow' \in BOOLEAN /\ (overflow => overflow') BY <2>1, <1>4
  <2>5. changes' \in Seq(Items) /\ Len(changes) <= Len(changes') BY <2>1, <1>1, <1>4
  <2>6. Len(changes') <= ChangesMax BY <2>1, <1>5
  <2>7. \A i \in 1..Len(changes) : changes'[i] = changes[i] BY <2>1, <1>1
  <2>8. /\ \A i \in 1..Len(changes') : i > Len(changes) =>
              \E j \in 1..Len(items) : changes'[i] = items[j]
        /\ \A j \in 1..Len(items) : \E i \in 1..Len(changes') : changes'[i] = items[j]
    BY <2>1, <2>2, <2>3
  <2> QED BY <2>4, <2>5, <2>6, <2>7, <2>8
<1>6. CASE Len(all) > ChangesMax
  <2>1. changes' = SubSeq(all, 1, ChangesMax) /\ overflow' = TRUE BY <1>3, <1>6, <1>1, <1>2, <1>4
  <2>2. /\ changes' \in Seq(Items) /\ Len(changes') = ChangesMax
        /\ \A i \in 1..ChangesMax : changes'[i] = all[i]
    BY <2>1, <1>1, <1>2, <1>6
  <2>3. \A i \in 1..Len(changes') : i > Len(changes) => \E j \in 1..Len(items) : changes'[i] = items[j]
    <3> TAKE i \in 1..Len(changes')
    <3> HAVE i > Len(changes)
    <3>1. i - Len(changes) \in 1..Len(items) BY <1>1, <1>2, <1>4, <1>6, <2>2
    <3>2. changes'[i] = items[i - Len(changes)] BY <1>1, <1>2, <1>4, <1>6, <2>2
    <3> QED BY <3>1, <3>2
  <2>4. \A i \in 1..Len(changes) : changes'[i] = changes[i] BY <1>1, <1>2, <1>4, <2>2
  <2>5. overflow' \in BOOLEAN /\ overflow' BY <2>1
  <2>6. Len(changes') <= ChangesMax /\ Len(changes) <= Len(changes') BY <2>2, <1>2, <1>4
  <2> QED BY <2>2, <2>3, <2>4, <2>5, <2>6
<1>7. Len(all) \in Nat BY <1>1, <1>4
<1> QED BY <1>2, <1>5, <1>6, <1>7

\* Who touches the loop, its queue and its events.
LoopPart == <<changes, overflow, history, loop, cut>>
LEMMA LoopSteps ==
  ASSUME Next
  PROVE  /\ \/ \E h \in hooks : AfterCommit(h)
            \/ LoopTop \/ LoopGet \/ LoopHeartbeat \/ LoopRead \/ LoopFails \/ LoopPublish
            \/ PublishRobots \/ RestartServer
            \/ UNCHANGED LoopPart /\ (OpenSocket \/ UNCHANGED missed)
         /\ UNCHANGED setup
<1>6. UNCHANGED setup BY DEF Next
<1> USE <1>6 DEF LoopPart, loopVars, lossVars
<1>1. CASE ServerStep
  <2>1. CASE \E R \in SUBSET Rows : Commit(R) BY <2>1 DEF Commit
  <2>8. CASE SnapshotKey BY <2>8 DEF SnapshotKey
  <2>9. CASE SnapshotRevision BY <2>9 DEF SnapshotRevision
  <2>10. CASE SnapshotRows BY <2>10 DEF SnapshotRows
  <2>11. CASE SnapshotCheck BY <2>11 DEF SnapshotCheck
  <2>12. CASE Reply BY <2>12 DEF Reply
  <2>13. CASE Connect BY <2>13 DEF Connect
  <2>14. CASE Replay BY <2>14 DEF Replay
  <2>15. CASE ReceiveResync BY <2>15 DEF ReceiveResync
  <2>16. CASE Sender BY <2>16 DEF Sender
  <2> QED BY <1>1, <2>1, <2>8, <2>9, <2>10, <2>11,
             <2>12, <2>13, <2>14, <2>15, <2>16 DEF ServerStep
<1>2. CASE ClientStep
  <2>1. CASE IgnoreSnapshot BY <2>1 DEF IgnoreSnapshot, Delivered
  <2>2. CASE RejectSnapshot BY <2>2 DEF RejectSnapshot, Delivered
  <2>3. CASE ApplySnapshot BY <2>3 DEF ApplySnapshot, Delivered
  <2>4. CASE HeartbeatArrives BY <2>4 DEF HeartbeatArrives, Delivered
  <2>5. CASE ResyncRequiredArrives BY <2>5 DEF ResyncRequiredArrives, Delivered
  <2>6. CASE IgnoreEvent BY <2>6 DEF IgnoreEvent, Delivered
  <2>7. CASE GapInEvents BY <2>7 DEF GapInEvents, Delivered
  <2>8. CASE ApplyEvent BY <2>8 DEF ApplyEvent, Delivered
  <2>9. CASE SnapshotWritten BY <2>9 DEF SnapshotWritten, serverVars
  <2>10. CASE EventWritten BY <2>10 DEF EventWritten
  <2>11. CASE LoadLocations BY <2>11 DEF LoadLocations
  <2>12. CASE LocationsLoaded BY <2>12 DEF LocationsLoaded, serverVars
  <2> QED BY <1>2, <2>1, <2>2, <2>3, <2>4, <2>5, <2>6, <2>7, <2>8, <2>9, <2>10, <2>11,
             <2>12 DEF ClientStep
<1>3. CASE OpenSocket BY <1>3 DEF OpenSocket
<1>4. CASE LoseConnection BY <1>4 DEF LoseConnection
<1>5. CASE ReloadPage BY <1>5 DEF ReloadPage
<1> QED BY <1>1, <1>2, <1>3, <1>4, <1>5 DEF Next

LEMMA DataGrown ==
  ASSUME DataTypes, DataInv, CountedInv, Next
  PROVE  DataGrows
<1> USE DEF DataTypes, DataGrows, Versions
<1>0. \A r \in Rows : db[r] \in Nat BY LimitsAssumption
<1>1. CASE \E R \in SUBSET Rows : Commit(R)
  <2>1. PICK R \in SUBSET Rows : Commit(R) BY <1>1
  <2> QED BY <2>1, <1>0 DEF Commit
<1>2. CASE \E h \in hooks : AfterCommit(h)
  <2>1. PICK h \in hooks : AfterCommit(h) BY <1>2
  <2> DEFINE next == [l \in Locations |->
                         IF l \in DOMAIN h THEN Newer(counted[locrev][l], h[l]) ELSE counted[locrev][l]]
  <2>2. /\ db' = db
        /\ \/ UNCHANGED <<locrev, counted>>
           \/ locrev' = locrev + 1 /\ counted' = Append(counted, next)
    BY <2>1 DEF AfterCommit
  <2> HIDE DEF next
  <2>3. CASE UNCHANGED <<locrev, counted>> BY <2>2, <2>3, <1>0
  <2>4. CASE locrev' = locrev + 1 /\ counted' = Append(counted, next)
    <3>1. \A k \in 1..locrev : counted'[k] = counted[k] BY <2>4
    <3> QED BY <2>2, <2>4, <3>1, <1>0
  <2> QED BY <2>2, <2>3, <2>4
<1>3. CASE RestartServer
  <2> DEFINE next == [l \in Locations |-> db[l]]
  <2>1. UNCHANGED db /\ locrev' = locrev + 1 /\ counted' = Append(counted, next)
    BY <1>3 DEF RestartServer
  <2> HIDE DEF next
  <2> QED BY <2>1, <1>0
<1>4. CASE UNCHANGED dataVars BY <1>4, <1>0 DEF dataVars
<1> QED BY <1>1, <1>2, <1>3, <1>4, DataSteps

LEMMA EventsGrown ==
  ASSUME LoopTypes, Next, ~RestartServer
  PROVE  EventsGrow
<1> USE DEF LoopTypes, EventsGrow, Revision
<1>1. CASE \E h \in hooks : AfterCommit(h) BY <1>1 DEF AfterCommit
<1>2. CASE LoopTop BY <1>2 DEF LoopTop
<1>3. CASE LoopGet BY <1>3 DEF LoopGet
<1>4. CASE LoopHeartbeat BY <1>4 DEF LoopHeartbeat
<1>5. CASE LoopRead BY <1>5 DEF LoopRead
<1>6. CASE LoopFails BY <1>6 DEF LoopFails
<1>7. CASE LoopPublish
  <2> DEFINE e == [row |-> loop.row, ver |-> loop.ver, locrev |-> loop.locrev]
  <2>1. history' = Append(history, e) BY <1>7 DEF LoopPublish
  <2> HIDE DEF e
  <2> QED BY <2>1
<1>8. CASE PublishRobots
  <2> DEFINE e == [row |-> NoRow, ver |-> 0, locrev |-> 0]
  <2>1. history' = Append(history, e) BY <1>8 DEF PublishRobots
  <2> HIDE DEF e
  <2> QED BY <2>1
<1>9. CASE UNCHANGED LoopPart BY <1>9 DEF LoopPart
<1> QED BY <1>1, <1>2, <1>3, <1>4, <1>5, <1>6, <1>7, <1>8, <1>9, LoopSteps

LEMMA LoopKept ==
  ASSUME DataTypes, LoopTypes, ConnTypes, DataInv, CountedInv, LoopInv, Next
  PROVE  LoopTypes' /\ LoopInv'
<1> DEFINE ChangesInv ==
      \A i \in 1..Len(changes) :
          IF changes[i].kind = "message"
          THEN changes[i].row = NoRow /\ changes[i].rev \in 1..Revision
          ELSE changes[i].row \in Rows
    HistoryInv == \A i \in 1..Revision : /\ history[i].row \in Rows => history[i].ver <= db[history[i].row]
                                         /\ history[i].locrev <= locrev
    PositionInv == /\ loop.at \in {"read", "publish"} => loop.row \in Rows
                   /\ loop.at = "publish" => loop.ver <= db[loop.row]
                   /\ loop.locrev <= locrev
<1>1. UNCHANGED setup /\ ChangesMax' = ChangesMax /\ ChangesMax \in Nat \ {0}
  BY LoopSteps, LimitsAssumption DEF ChangesMax, LoopTypes
<1>2. DataTypes' /\ DataGrows BY DataKept, DataGrown
<1>3. \A r \in Rows : db[r] \in Nat /\ db'[r] \in Nat /\ db[r] <= db'[r]
  BY <1>2, LimitsAssumption DEF DataTypes, DataGrows, Versions
<1>4. NoRow \notin Rows /\ NoRow \in Subject /\ Rows \subseteq Subject /\ 0 \in Versions /\ locrev \in Nat
  BY RowsApart, LimitsAssumption DEF Subject, Versions, DataTypes
<1>5. IdleLoop("top") \in [at : {"top", "get", "read", "publish"}, row : Subject, ver : Versions, locrev : Nat]
      /\ IdleLoop("get") \in [at : {"top", "get", "read", "publish"}, row : Subject, ver : Versions, locrev : Nat]
      /\ IdleLoop("top").at = "top" /\ IdleLoop("get").at = "get"
      /\ IdleLoop("top").locrev = 0 /\ IdleLoop("get").locrev = 0
  BY <1>4 DEF IdleLoop
<1>a. locrev' \in Nat /\ locrev <= locrev' /\ 0 <= locrev'
  BY <1>2, <1>4 DEF DataGrows, DataTypes
<1>b. \A i \in 1..Revision : history[i].locrev \in Nat /\ history[i].locrev <= locrev'
  <2> TAKE i \in 1..Revision
  <2>1. history[i] \in Entries BY DEF LoopTypes, Revision
  <2>2. history[i].locrev \in Nat BY <2>1 DEF Entries
  <2> QED BY <2>2, <1>4, <1>a DEF LoopInv
<1>c. loop.locrev \in Nat /\ loop.locrev <= locrev' BY <1>4, <1>a DEF LoopInv, LoopTypes
<1>6. ASSUME UNCHANGED <<history, loop>> PROVE HistoryInv' /\ PositionInv'
  <2>1. \A i \in 1..Revision : history[i].row \in Rows => history[i].ver \in Nat
    <3> TAKE i \in 1..Revision
    <3>1. history[i] \in Entries BY DEF LoopTypes, Revision
    <3> QED BY <3>1, LimitsAssumption DEF Entries, Versions
  <2>2. loop.ver \in Nat BY LimitsAssumption DEF LoopTypes, Versions
  <2>3. HistoryInv'
    <3>1. Revision' = Revision BY <1>6 DEF Revision
    <3> SUFFICES ASSUME NEW i \in 1..Revision, history[i].row \in Rows
                 PROVE  history[i].ver <= db'[history[i].row]
      BY <1>6, <3>1, <1>b
    <3>2. history[i].ver <= db[history[i].row] BY DEF LoopInv
    <3> QED BY <3>2, <2>1, <1>3
  <2>4. PositionInv' BY <1>6, <2>2, <1>3, <1>c DEF LoopInv
  <2> QED BY <2>3, <2>4
<1>7. ASSUME UNCHANGED db, UNCHANGED history PROVE HistoryInv'
  BY <1>7, <1>b DEF LoopInv, Revision
<1>8. ASSUME UNCHANGED <<changes, history>> PROVE ChangesInv'
  BY <1>8 DEF LoopInv, Revision
<1>9. CASE \E h \in hooks : AfterCommit(h)
  <2>1. PICK h \in hooks : AfterCommit(h) BY <1>9
  <2> DEFINE S     == SetToSeq(DOMAIN h)
             items == [i \in 1..Len(S) |-> [kind |-> "change", row |-> S[i], rev |-> 0]]
  <2>2. /\ Enqueue(items) /\ UNCHANGED <<db, history, loop>>
        /\ cut' = cut \cup {<<r, h[r]>> : r \in {q \in DOMAIN h :
                                \A i \in DOMAIN changes' : changes'[i].row # q}}
    BY <2>1 DEF AfterCommit
  <2>3. DOMAIN h \in SUBSET Rows BY DEF DataInv
  <2>4. S \in Seq(DOMAIN h) /\ \A r \in DOMAIN h : \E i \in 1..Len(S) : S[i] = r
    BY <2>3, ItemsOfRows
  <2> HIDE DEF S
  <2>5. /\ items \in Seq(Items) /\ Len(items) = Len(S)
        /\ \A i \in 1..Len(S) : items[i].kind = "change" /\ items[i].row = S[i] /\ S[i] \in Rows
    BY <2>3, <2>4, <1>4 DEF Items
  <2> HIDE DEF items
  <2>6. /\ changes' \in Seq(Items) /\ Len(changes') <= ChangesMax /\ overflow' \in BOOLEAN
        /\ Len(changes) <= Len(changes') /\ \A i \in 1..Len(changes) : changes'[i] = changes[i]
        /\ \A i \in 1..Len(changes') : i > Len(changes) =>
               \E j \in 1..Len(items) : changes'[i] = items[j]
        /\ overflow => overflow'
        /\ ~overflow' => \A j \in 1..Len(items) : \E i \in 1..Len(changes') : changes'[i] = items[j]
    BY <2>2, <2>5, <1>1, Enqueued
  <2>7. LoopTypes' BY <2>2, <2>6, <1>1 DEF LoopTypes
  <2>8. ChangesInv'
    <3> SUFFICES ASSUME NEW i \in 1..Len(changes')
                 PROVE  IF changes'[i].kind = "message"
                        THEN changes'[i].row = NoRow /\ changes'[i].rev \in 1..Revision
                        ELSE changes'[i].row \in Rows
      BY <2>2 DEF Revision
    <3>1. Len(changes) \in Nat BY DEF LoopTypes
    <3>2. CASE i \in 1..Len(changes) BY <3>2, <2>6 DEF LoopInv
    <3>3. CASE i > Len(changes)
      <4>1. PICK j \in 1..Len(items) : changes'[i] = items[j] BY <3>3, <2>6
      <4> QED BY <4>1, <2>5
    <3> QED BY <3>1, <3>2, <3>3
  <2>9. cut' # {} => overflow'
    <3> SUFFICES ASSUME ~overflow' PROVE cut' = {} OBVIOUS
    <3>1. cut = {} BY <2>6 DEF LoopInv, LoopTypes
    <3>2. \A q \in DOMAIN h : \E i \in DOMAIN changes' : changes'[i].row = q
      <4> TAKE q \in DOMAIN h
      <4>1. PICK j \in 1..Len(S) : S[j] = q BY <2>4
      <4>2. PICK i \in 1..Len(changes') : changes'[i] = items[j] BY <4>1, <2>5, <2>6
      <4>3. changes'[i].row = q BY <4>1, <4>2, <2>5
      <4>4. i \in DOMAIN changes' BY <2>6
      <4> QED BY <4>3, <4>4
    <3> QED BY <3>1, <3>2, <2>2
  <2> QED BY <2>2, <2>7, <2>8, <2>9, <1>6 DEF LoopInv
<1>10. CASE LoopTop
  <2>1. /\ UNCHANGED <<changes, history, db>> /\ loop' = IdleLoop("get") /\ overflow' = FALSE /\ cut' = {}
    BY <1>10 DEF LoopTop, dataVars
  <2> QED BY <2>1, <1>a, <1>1, <1>5, <1>7, <1>8 DEF LoopInv, LoopTypes
<1>11. CASE LoopGet
  <2> DEFINE item == Head(changes)
  <2>1. /\ loop.at = "get" /\ changes # <<>> /\ changes' = Tail(changes)
        /\ \/ loop' = IdleLoop("top")
           \/ item.kind = "change" /\ loop' = [IdleLoop("read") EXCEPT !.row = item.row]
        /\ UNCHANGED <<overflow, history, cut, db>>
    BY <1>11 DEF LoopGet, dataVars
  <2>2. /\ changes' \in Seq(Items) /\ Len(changes') <= ChangesMax /\ item = changes[1]
        /\ 1 \in 1..Len(changes)
        /\ \A i \in 1..Len(changes') : i + 1 \in 1..Len(changes) /\ changes'[i] = changes[i + 1]
    BY <2>1, <1>1 DEF LoopTypes
  <2>3. ChangesInv'
    <3>1. Revision' = Revision BY <2>1 DEF Revision
    <3> QED BY <3>1, <2>2 DEF LoopInv
  <2> HIDE DEF item
  <2>4. item.kind = "change" => item.row \in Rows BY <2>2 DEF LoopInv
  <2>5. /\ loop' \in [at : {"top", "get", "read", "publish"}, row : Subject, ver : Versions, locrev : Nat]
        /\ loop'.at \in {"top", "read"} /\ (loop'.at = "read" => loop'.row \in Rows)
        /\ loop'.locrev = 0
    BY <2>1, <2>4, <1>4 DEF IdleLoop
  <2> QED BY <2>1, <2>2, <2>3, <2>5, <1>a, <1>1, <1>7 DEF LoopInv, LoopTypes
<1>12. CASE LoopHeartbeat
  <2>1. UNCHANGED <<changes, overflow, history, cut, db>> /\ loop' = IdleLoop("top")
    BY <1>12 DEF LoopHeartbeat, dataVars, lossVars
  <2> QED BY <2>1, <1>a, <1>1, <1>5, <1>7, <1>8 DEF LoopInv, LoopTypes
<1>13. CASE LoopRead
  <2>1. /\ UNCHANGED <<changes, overflow, history, cut, db>> /\ loop.at = "read"
        /\ loop' = [loop EXCEPT !.at = "publish", !.ver = db[loop.row],
                            !.locrev = IF loop.row \in Locations THEN locrev ELSE 0]
    BY <1>13 DEF LoopRead, dataVars, lossVars
  <2>2. loop.row \in Rows BY <2>1 DEF LoopInv
  <2>3. /\ loop' \in [at : {"top", "get", "read", "publish"}, row : Subject, ver : Versions, locrev : Nat]
        /\ loop'.at = "publish" /\ loop'.row = loop.row /\ loop'.ver = db[loop.row]
        /\ loop'.locrev \in {locrev, 0}
    BY <2>1, <2>2, <1>4 DEF LoopTypes, DataTypes
  <2> QED BY <2>1, <2>2, <2>3, <1>a, <1>1, <1>3, <1>7, <1>8 DEF LoopInv, LoopTypes
<1>14. CASE LoopFails
  <2>1. UNCHANGED <<changes, overflow, history, cut, db>> /\ loop' = IdleLoop("top")
    BY <1>14 DEF LoopFails, dataVars
  <2> QED BY <2>1, <1>a, <1>1, <1>5, <1>7, <1>8 DEF LoopInv, LoopTypes
<1>15. CASE LoopPublish
  <2> DEFINE e == [row |-> loop.row, ver |-> loop.ver, locrev |-> loop.locrev]
  <2>1. /\ UNCHANGED <<changes, overflow, cut, db>> /\ loop' = IdleLoop("top") /\ loop.at = "publish"
        /\ history' = Append(history, e)
    BY <1>15 DEF LoopPublish, dataVars, lossVars
  <2>2. e \in Entries /\ e.row \in Rows /\ e.ver <= db[e.row] /\ e.locrev <= locrev'
    BY <2>1, <1>c DEF LoopInv, LoopTypes, Entries
  <2> HIDE DEF e
  <2>3. history' \in Seq(Entries) /\ Revision' = Revision + 1 /\ Revision \in Nat
    BY <2>1, <2>2 DEF LoopTypes, Revision
  <2>4. /\ \A i \in 1..Revision : history'[i] = history[i]
        /\ history'[Revision'] = e
    BY <2>1, <2>3 DEF Revision, LoopTypes
  <2>5. HistoryInv'
    <3> SUFFICES ASSUME NEW i \in 1..Revision'
                 PROVE  /\ history'[i].row \in Rows => history'[i].ver <= db[history'[i].row]
                        /\ history'[i].locrev <= locrev'
      BY <2>1
    <3>1. CASE i \in 1..Revision BY <3>1, <2>4, <1>b DEF LoopInv
    <3>2. CASE i = Revision' BY <3>2, <2>4, <2>2
    <3> QED BY <3>1, <3>2, <2>3
  <2>6. ChangesInv' BY <2>1, <2>3 DEF LoopInv
  <2> QED BY <2>1, <2>3, <2>5, <2>6, <1>1, <1>5, <1>a DEF LoopInv, LoopTypes
<1>16. CASE PublishRobots
  <2> DEFINE e == [row |-> NoRow, ver |-> 0, locrev |-> 0]
             q == [kind |-> "message", row |-> NoRow, rev |-> Revision + 1]
  <2>1. /\ Enqueue(<<q>>) /\ UNCHANGED <<cut, db, loop>> /\ history' = Append(history, e)
    BY <1>16 DEF PublishRobots, dataVars, lossVars
  <2>2. e \in Entries /\ e.row \notin Rows /\ e.locrev <= locrev' BY <1>4, <1>a DEF Entries
  <2> HIDE DEF e
  <2>3. history' \in Seq(Entries) /\ Revision' = Revision + 1 /\ Revision \in Nat
    BY <2>1, <2>2 DEF LoopTypes, Revision
  <2>4. /\ \A i \in 1..Revision : history'[i] = history[i]
        /\ history'[Revision'] = e
    BY <2>1, <2>3 DEF Revision, LoopTypes
  <2>5. HistoryInv'
    <3> SUFFICES ASSUME NEW i \in 1..Revision'
                 PROVE  /\ history'[i].row \in Rows => history'[i].ver <= db[history'[i].row]
                        /\ history'[i].locrev <= locrev'
      BY <2>1
    <3>1. CASE i \in 1..Revision BY <3>1, <2>4, <1>b DEF LoopInv
    <3>2. CASE i = Revision' BY <3>2, <2>4, <2>2
    <3> QED BY <3>1, <3>2, <2>3
  <2>6. q \in Items /\ q.kind = "message" /\ q.row = NoRow /\ q.rev = Revision' BY <2>3, <1>4 DEF Items
  <2> HIDE DEF q
  <2>7. <<q>> \in Seq(Items) /\ Len(<<q>>) = 1 /\ <<q>>[1] = q BY <2>6
  <2>8. /\ changes' \in Seq(Items) /\ Len(changes') <= ChangesMax /\ overflow' \in BOOLEAN
        /\ Len(changes) <= Len(changes') /\ \A i \in 1..Len(changes) : changes'[i] = changes[i]
        /\ \A i \in 1..Len(changes') : i > Len(changes) =>
               \E j \in 1..Len(<<q>>) : changes'[i] = <<q>>[j]
        /\ overflow => overflow'
    BY <2>1, <2>7, <1>1, Enqueued
  <2>9. ChangesInv'
    <3> SUFFICES ASSUME NEW i \in 1..Len(changes')
                 PROVE  IF changes'[i].kind = "message"
                        THEN changes'[i].row = NoRow /\ changes'[i].rev \in 1..Revision'
                        ELSE changes'[i].row \in Rows
      OBVIOUS
    <3>1. Len(changes) \in Nat BY DEF LoopTypes
    <3>2. CASE i \in 1..Len(changes) BY <3>2, <2>3, <2>8 DEF LoopInv
    <3>3. CASE i > Len(changes)
      <4>1. changes'[i] = q BY <3>3, <2>7, <2>8
      <4> QED BY <4>1, <2>6, <2>3
    <3> QED BY <3>1, <3>2, <3>3
  <2>10. PositionInv' BY <2>1, <1>c DEF LoopInv
  <2> QED BY <2>1, <2>3, <2>5, <2>8, <2>9, <2>10, <1>1 DEF LoopInv, LoopTypes
<1>17. CASE RestartServer
  <2>1. /\ changes' = <<>> /\ overflow' = FALSE /\ history' = <<>> /\ loop' = IdleLoop("top")
        /\ cut' = {}
    BY <1>17 DEF RestartServer
  <2>2. Len(changes') = 0 /\ Len(history') = 0 /\ changes' \in Seq(Items) /\ history' \in Seq(Entries)
    BY <2>1
  <2>a. overflow' = FALSE /\ loop' = IdleLoop("top") BY <2>1
  <2>b. Len(changes') <= ChangesMax' BY <2>2, <1>1
  <2>c. setup' \in Setups BY <1>1 DEF LoopTypes
  <2>3. LoopTypes' BY <2>a, <2>b, <2>c, <2>2, <1>5 DEF LoopTypes
  <2>4. LoopInv' BY <2>1, <2>2, <1>5, <1>a DEF LoopInv, Revision
  <2> QED BY <2>3, <2>4
<1>18. CASE UNCHANGED LoopPart BY <1>18, <1>1, <1>6, <1>8 DEF LoopPart, LoopInv, LoopTypes
<1> QED BY <1>9, <1>10, <1>11, <1>12, <1>13, <1>14, <1>15, <1>16, <1>17, <1>18, LoopSteps

-----------------------------------------------------------------------------
(* The pipe: the messages in the network and in the browser's queue *)

\* A step takes d messages from the head and adds at most one, of M, at the end; what
\* else it drops it replaces by a notice.
Flows(d, M) ==
    /\ Notice(d) => Notice(0)'
    /\ \A j \in 1..Len(Pipe') :
          \/ j = Len(Pipe') /\ Pipe'[j] \in M
          \/ j + d <= Len(Pipe) /\ Pipe'[j] = Pipe[j + d] /\ (Notice(j + d) => Notice(j)')

LEMMA PipeType ==
  ASSUME ConnTypes
  PROVE  /\ Pipe \in Seq(Messages) /\ Len(Pipe) = Len(wire) + Len(outq)
         /\ \A i \in 1..Len(wire) : Pipe[i] = wire[i]
         /\ Len(wire) \in Nat /\ Len(outq) \in Nat
BY DEF ConnTypes, Pipe

LEMMA AppendFlows ==
  ASSUME ConnTypes, NEW m, Pipe' = Append(Pipe, m)
  PROVE  Flows(0, {m})
<1>1. /\ Len(Pipe) \in Nat /\ Len(Pipe') = Len(Pipe) + 1 /\ Pipe'[Len(Pipe')] = m
      /\ \A i \in 1..Len(Pipe) : Pipe'[i] = Pipe[i]
  BY PipeType
<1>2. ASSUME NEW i \in Nat, Notice(i) PROVE Notice(i)'
  BY <1>1, <1>2 DEF Notice
<1> QED BY <1>1, <1>2 DEF Flows

LEMMA StillFlows ==
  ASSUME ConnTypes, NEW M,
         Len(Pipe') = Len(Pipe), \A i \in 1..Len(Pipe) : Pipe'[i] = Pipe[i]
  PROVE  Flows(0, M)
<1>1. Len(Pipe) \in Nat BY PipeType
<1>2. ASSUME NEW i \in Nat, Notice(i) PROVE Notice(i)'
  BY <1>1, <1>2 DEF Notice
<1> QED BY <1>1, <1>2 DEF Flows

LEMMA TailFlows ==
  ASSUME ConnTypes, wire # <<>>, wire' = Tail(wire), outq' = outq
  PROVE  /\ Flows(1, {}) /\ Len(Pipe) \in Nat /\ Len(Pipe) > 0 /\ Pipe[1] = Head(wire)
         /\ wire' \in Seq(Messages) /\ Len(wire') <= WireMax /\ Head(wire) \in Messages
<1>0. wire \in Seq(Messages) /\ outq \in Seq(Messages) BY DEF ConnTypes
<1>1. Pipe' = Tail(Pipe) /\ Pipe # <<>> BY <1>0 DEF Pipe
<1>2. /\ Len(Pipe) \in Nat /\ Len(Pipe) > 0 /\ Len(Pipe') = Len(Pipe) - 1
      /\ \A i \in 1..Len(Pipe') : Pipe'[i] = Pipe[i + 1]
  BY <1>1, PipeType
<1>3. ASSUME NEW i \in Nat, Notice(i + 1) PROVE Notice(i)'
  <2>1. PICK j \in 1..Len(Pipe) : i + 1 < j /\ Pipe[j].type = "resync_required" BY <1>3 DEF Notice
  <2>2. j - 1 \in 1..Len(Pipe') /\ i < j - 1 /\ Pipe'[j - 1] = Pipe[j] BY <2>1, <1>2
  <2> QED BY <2>1, <2>2 DEF Notice
<1>4. Flows(1, {})
  <2>1. Notice(1) => Notice(0)' BY <1>3
  <2>2. ASSUME NEW j \in 1..Len(Pipe')
        PROVE  j + 1 <= Len(Pipe) /\ Pipe'[j] = Pipe[j + 1] /\ (Notice(j + 1) => Notice(j)')
    BY <1>2, <1>3
  <2> QED BY <2>1, <2>2 DEF Flows
<1>5. /\ Pipe[1] = Head(wire) /\ wire' \in Seq(Messages) /\ Len(wire') <= WireMax
      /\ Head(wire) \in Messages
  <2>1. Len(wire) \in Nat /\ Len(wire) > 0 /\ Head(wire) = wire[1] /\ WireMax \in Nat
    BY LimitsAssumption DEF ConnTypes
  <2>2. Len(wire') = Len(wire) - 1 BY DEF ConnTypes
  <2> QED BY <2>1, <2>2, PipeType DEF ConnTypes
<1> QED BY <1>2, <1>4, <1>5

LEMMA CutFlows ==
  ASSUME ConnTypes, wire' = wire, outq' = <<ResyncRequired>>
  PROVE  Flows(0, {ResyncRequired}) /\ Notice(0)' /\ Pipe'[Len(Pipe')] = ResyncRequired /\ Len(Pipe') \in Nat \ {0}
<1>1. /\ Len(wire) \in Nat /\ Len(Pipe') = Len(wire) + 1 /\ Pipe'[Len(Pipe')] = ResyncRequired
      /\ \A i \in 1..Len(wire) : Pipe'[i] = Pipe[i]
      /\ Len(wire) <= Len(Pipe)
  <2>1. Pipe' = Append(wire, ResyncRequired) BY DEF ConnTypes, Pipe
  <2>2. Len(wire) \in Nat /\ Len(outq) \in Nat /\ Len(Pipe) = Len(wire) + Len(outq) BY PipeType
  <2>3. Len(Pipe') = Len(wire) + 1 /\ Pipe'[Len(Pipe')] = ResyncRequired BY <2>1, <2>2 DEF ConnTypes
  <2>4. \A i \in 1..Len(wire) : Pipe'[i] = Pipe[i] BY <2>1, PipeType DEF ConnTypes
  <2> QED BY <2>2, <2>3, <2>4
<1>2. ResyncRequired.type = "resync_required" BY DEF ResyncRequired
<1>3. \A i \in 0..Len(wire) : Notice(i)' BY <1>1, <1>2 DEF Notice
<1> QED BY <1>1, <1>3 DEF Flows

LEMMA MoreFlows ==
  ASSUME NEW d, NEW M, NEW N, M \subseteq N, Flows(d, M)
  PROVE  Flows(d, N)
BY DEF Flows

LEMMA ResyncIsMessage ==
  ResyncRequired \in Messages /\ ResyncRequired.type = "resync_required"
BY DEF ResyncRequired, Messages, Notices

\* A broadcast adds its message, or a notice for all that waited.
LEMMA Broadcasts ==
  ASSUME ConnTypes, NEW m \in Messages, Broadcast(m), wire' = wire
  PROVE  /\ outq' \in Seq(Messages) /\ Len(outq') <= QueueMax
         /\ Flows(0, {m, ResyncRequired})
         /\ ~registered => outq' = outq
         /\ registered /\ m = ResyncRequired =>
               Len(Pipe') \in Nat \ {0} /\ Pipe'[Len(Pipe')] = ResyncRequired
<1>1. QueueMax \in Nat /\ QueueMax >= 1 BY LimitsAssumption
<1>2. CASE ~registered
  <2>1. outq' = outq /\ Pipe' = Pipe BY <1>2 DEF Broadcast, Pipe
  <2> QED BY <2>1, <1>2, StillFlows DEF ConnTypes
<1>3. CASE registered /\ Room
  <2>1. outq' = Append(outq, m) BY <1>3 DEF Broadcast
  <2>2. Pipe' = Append(Pipe, m) BY <2>1 DEF Pipe, ConnTypes
  <2>3. Flows(0, {m}) BY <2>2, AppendFlows
  <2>4. outq' \in Seq(Messages) /\ Len(outq') <= QueueMax BY <2>1, <1>1, <1>3 DEF ConnTypes, Room
  <2>5. Len(Pipe') \in Nat \ {0} /\ Pipe'[Len(Pipe')] = m BY <2>2, PipeType
  <2> QED BY <2>3, <2>4, <2>5, <1>3, MoreFlows
<1>4. CASE registered /\ ~Room
  <2>1. outq' = <<ResyncRequired>> BY <1>4 DEF Broadcast
  <2>2. outq' \in Seq(Messages) /\ Len(outq') <= QueueMax BY <2>1, <1>1, ResyncIsMessage
  <2> QED BY <2>1, <2>2, <1>4, CutFlows, MoreFlows
<1> QED BY <1>2, <1>3, <1>4

\* The steps that take the message at the head.
Receipt ==
    \/ IgnoreSnapshot \/ RejectSnapshot \/ ApplySnapshot
    \/ HeartbeatArrives \/ ResyncRequiredArrives
    \/ IgnoreEvent \/ GapInEvents \/ ApplyEvent

Disconnection == LoseConnection \/ RestartServer \/ ReloadPage

LEMMA Receipts ==
  ASSUME Receipt
  PROVE  /\ Delivered /\ page.open /\ busy = Free /\ wire # <<>>
         /\ Head(wire).type \in {"snapshot", "heartbeat", "resync_required", "event"}
<1>1. CASE IgnoreSnapshot BY <1>1 DEF IgnoreSnapshot, Incoming
<1>2. CASE RejectSnapshot BY <1>2 DEF RejectSnapshot, Incoming
<1>3. CASE ApplySnapshot BY <1>3 DEF ApplySnapshot, Incoming
<1>4. CASE HeartbeatArrives BY <1>4 DEF HeartbeatArrives, Incoming
<1>5. CASE ResyncRequiredArrives BY <1>5 DEF ResyncRequiredArrives, Incoming
<1>6. CASE IgnoreEvent BY <1>6 DEF IgnoreEvent, Incoming
<1>7. CASE GapInEvents BY <1>7 DEF GapInEvents, Incoming
<1>8. CASE ApplyEvent BY <1>8 DEF ApplyEvent, Incoming
<1> QED BY <1>1, <1>2, <1>3, <1>4, <1>5, <1>6, <1>7, <1>8 DEF Receipt

LEMMA Disconnections ==
  ASSUME PageTypes, Disconnection
  PROVE  Disconnected /\ ~page'.open /\ busy' \in {busy, Free} /\ Pipe' = <<>>
<1>1. CASE LoseConnection
  <2>1. page' = [page EXCEPT !.open = FALSE] /\ Disconnected /\ busy' = busy BY <1>1 DEF LoseConnection
  <2> QED BY <2>1 DEF PageTypes, Disconnected, Pipe
<1>2. CASE RestartServer
  <2>1. page' = [page EXCEPT !.open = FALSE, !.old = TRUE] /\ Disconnected /\ busy' = busy
    BY <1>2 DEF RestartServer
  <2> QED BY <2>1 DEF PageTypes, Disconnected, Pipe
<1>3. CASE ReloadPage
  <2>1. /\ page' = NewPage(locrev, page'.view) /\ Disconnected /\ busy' = Free
    BY <1>3 DEF ReloadPage, NewPage
  <2> QED BY <2>1 DEF NewPage, Disconnected, Pipe
<1> QED BY <1>1, <1>2, <1>3 DEF Disconnection

\* What a message says stays true while versions, checkpoints and events are only added.
LEMMA CoversKept ==
  ASSUME DataTypes, DataTypes', LoopTypes, DataGrows, EventsGrow,
         NEW omitted, NEW k, NEW n \in Nat, NEW rows \in [Rows -> Versions],
         Covers(omitted, k, n, rows)
  PROVE  Covers(omitted, k, n, rows)'
<1>1. \A r \in Rows : rows[r] \in Nat /\ db[r] \in Nat /\ db'[r] \in Nat /\ db[r] <= db'[r]
  BY LimitsAssumption DEF DataTypes, DataGrows, Versions
<1>2. locrev \in Nat /\ locrev' \in Nat /\ locrev <= locrev' /\ Revision \in Nat /\ Revision' \in Nat
      /\ Revision <= Revision'
  BY DEF DataTypes, DataGrows, EventsGrow, LoopTypes, Revision
<1>3. n <= Revision' /\ k \in 1..locrev' BY <1>2 DEF Covers
<1>4. \A r \in Rows : rows[r] <= db'[r] BY <1>1 DEF Covers
<1>5. counted'[k] = counted[k] BY DEF Covers, DataGrows
<1>6. \A i \in 1..n : history'[i] = history[i] BY <1>2 DEF Covers, EventsGrow
<1>7. \A l \in Locations : ~omitted => counted'[k][l] <= rows[l] BY <1>5 DEF Covers
<1>8. \A i \in 1..n : history'[i].row \in Orders => history'[i].ver <= rows[history'[i].row]
  BY <1>6 DEF Covers
<1> QED BY <1>3, <1>4, <1>7, <1>8 DEF Covers

LEMMA ValidKept ==
  ASSUME DataTypes, DataTypes', LoopTypes, DataGrows, EventsGrow, NEW m \in Messages, Valid(m)
  PROVE  Valid(m)'
<1>1. Revision \in Nat /\ Revision' \in Nat /\ Revision <= Revision'
  BY DEF EventsGrow, LoopTypes, Revision
<1>2. CASE m.type = "event"
  <2>1. m.rev \in 1..Revision /\ m = Event(m.rev) BY <1>2 DEF Valid
  <2>2. history'[m.rev] = history[m.rev] BY <2>1 DEF EventsGrow
  <2> QED BY <1>1, <1>2, <2>1, <2>2 DEF Valid, Event
<1>3. CASE m.type = "snapshot"
  <2>1. m \in Snapshots BY <1>3 DEF Messages, Events, Beats, Notices
  <2>2. Covers(m.omitted, m.locrev, m.rev, m.rows) BY <1>3 DEF Valid
  <2>3. Covers(m.omitted, m.locrev, m.rev, m.rows)' BY <2>1, <2>2, CoversKept DEF Snapshots
  <2> QED BY <1>3, <2>3 DEF Valid
<1> QED BY <1>2, <1>3 DEF Valid

LEMMA EventType ==
  ASSUME LoopTypes, NEW i \in 1..Revision
  PROVE  /\ Event(i) \in Events /\ Event(i) \in Messages /\ Event(i).type = "event"
         /\ Event(i).rev = i /\ Event(i).row = history[i].row /\ Event(i).ver = history[i].ver
         /\ Valid(Event(i))
<1>1. history[i] \in Entries /\ i \in Nat BY DEF LoopTypes, Revision
<1>2. /\ Event(i) \in Events /\ Event(i).type = "event" /\ Event(i).rev = i
      /\ Event(i).row = history[i].row /\ Event(i).ver = history[i].ver
  BY <1>1 DEF Event, Events, Entries
<1> QED BY <1>2 DEF Messages, Valid

LEMMA SnapshotType ==
  ASSUME ConnTypes
  PROVE  /\ Snapshot(handler) \in Snapshots /\ Snapshot(handler) \in Messages
         /\ Snapshot(handler).type = "snapshot"
         /\ Snapshot(handler).rev = handler.n /\ Snapshot(handler).locrev = handler.k
         /\ Snapshot(handler).omitted = handler.omit /\ Snapshot(handler).rows = handler.rows
BY DEF Snapshot, Snapshots, Messages, ConnTypes, Handlers, RevisionBefore, LocationsBefore

PipeTyped ==
    /\ outq' \in Seq(Messages) /\ Len(outq') <= QueueMax
    /\ wire' \in Seq(Messages) /\ Len(wire') <= WireMax

\* How the pipe moves in a step of the server.
ServerFlow ==
    \/ \E m \in Messages :
          Flows(0, {m, ResyncRequired}) /\ m.type # "snapshot" /\ Valid(m)'
    \/ Reply /\ handler.at = "reply" /\ Flows(0, {Snapshot(handler)})

LEMMA ServerFlows ==
  ASSUME LoopTypes, LoopTypes', ConnTypes, LoopInv, HandlerInv, ConnInv, ServerStep, EventsGrow,
         DataTypes, DataTypes', DataGrows
  PROVE  PipeTyped /\ ServerFlow
<1> DEFINE Plain(m) == m.type # "snapshot" /\ Valid(m)'
<1>0. ResyncRequired \in Messages /\ Plain(ResyncRequired)
  BY ResyncIsMessage DEF Valid
<1>1. ASSUME UNCHANGED <<outq, wire>> PROVE PipeTyped /\ ServerFlow
  <2>1. Pipe' = Pipe BY <1>1 DEF Pipe
  <2>2. Flows(0, {ResyncRequired, ResyncRequired}) BY <2>1, StillFlows
  <2> QED BY <1>0, <1>1, <2>2 DEF ServerFlow, PipeTyped, ConnTypes
<1>2. ASSUME NEW m \in Messages, Plain(m), Broadcast(m), wire' = wire PROVE PipeTyped /\ ServerFlow
  <2>1. Flows(0, {m, ResyncRequired}) /\ outq' \in Seq(Messages) /\ Len(outq') <= QueueMax
    BY <1>2, Broadcasts
  <2> QED BY <1>2, <2>1 DEF ServerFlow, PipeTyped, ConnTypes
<1>3. CASE \E R \in SUBSET Rows : Commit(R) BY <1>3, <1>1 DEF Commit, connVars
<1>4. CASE \E h \in hooks : AfterCommit(h) BY <1>4, <1>1 DEF AfterCommit, connVars
<1>5. CASE LoopTop
  <2>1. wire' = wire /\ (Broadcast(ResyncRequired) \/ UNCHANGED outq) BY <1>5 DEF LoopTop
  <2> QED BY <2>1, <1>0, <1>1, <1>2
<1>6. CASE LoopGet
  <2> DEFINE item == Head(changes)
  <2>0. wire' = wire /\ changes # <<>> BY <1>6 DEF LoopGet
  <2>1. UNCHANGED outq \/ (item.kind = "message" /\ Broadcast(Event(item.rev)))
    BY <1>6 DEF LoopGet
  <2>2. CASE item.kind = "message" /\ Broadcast(Event(item.rev))
    <3>1. item = changes[1] /\ 1 \in 1..Len(changes) BY <2>0 DEF LoopTypes
    <3>2. item.rev \in 1..Revision BY <3>1, <2>2 DEF LoopInv
    <3>3. Event(item.rev) \in Messages /\ Event(item.rev).type = "event" /\ Valid(Event(item.rev))
      BY <3>2, EventType
    <3>4. PICK m \in Messages : m = Event(item.rev) BY <3>3
    <3>5. Plain(m) BY <3>3, <3>4, ValidKept
    <3> QED BY <3>4, <3>5, <2>0, <2>2, <1>2
  <2> QED BY <2>0, <2>1, <2>2, <1>1
<1>7. CASE LoopHeartbeat
  <2>1. wire' = wire /\ Broadcast(Heartbeat(Revision)) BY <1>7 DEF LoopHeartbeat
  <2>2. Heartbeat(Revision) \in Messages BY DEF Heartbeat, Messages, Beats, LoopTypes, Revision
  <2>3. PICK m \in Messages : m = Heartbeat(Revision) BY <2>2
  <2>4. Plain(m) BY <2>3 DEF Heartbeat, Valid
  <2> QED BY <2>1, <2>3, <2>4, <1>2
<1>8. CASE LoopRead BY <1>8, <1>1 DEF LoopRead, connVars
<1>9. CASE LoopFails BY <1>9, <1>1 DEF LoopFails, connVars
<1>10. CASE LoopPublish
  <2> DEFINE e == [row |-> loop.row, ver |-> loop.ver, locrev |-> loop.locrev]
  <2>1. wire' = wire /\ Broadcast(Event(Revision)') /\ history' = Append(history, e)
    BY <1>10 DEF LoopPublish
  <2> HIDE DEF e
  <2>2. Revision' \in 1..Revision' BY <2>1 DEF Revision, LoopTypes
  <2>3. /\ Event(Revision)' \in Messages /\ Event(Revision)'.type = "event"
        /\ Event(Revision)'.rev = Revision'
    <3>1. history'[Revision'] \in Entries /\ Revision' \in Nat BY <2>2 DEF LoopTypes, Revision
    <3> QED BY <3>1 DEF Event, Events, Entries, Messages
  <2>4. PICK m \in Messages : m = Event(Revision)' BY <2>3
  <2>5. m.rev \in 1..Revision' /\ m = Event(m.rev)' BY <2>4, <2>3, <2>2 DEF Event
  <2>6. Plain(m) BY <2>3, <2>4, <2>5 DEF Valid
  <2> QED BY <2>1, <2>4, <2>6, <1>2
<1>11. CASE PublishRobots BY <1>11, <1>1 DEF PublishRobots, connVars
<1>12. CASE SnapshotKey BY <1>12, <1>1 DEF SnapshotKey
<1>13. CASE SnapshotRevision BY <1>13, <1>1 DEF SnapshotRevision
<1>14. CASE SnapshotRows BY <1>14, <1>1 DEF SnapshotRows
<1>15. CASE SnapshotCheck BY <1>15, <1>1 DEF SnapshotCheck
<1>16. CASE Reply
  <2> DEFINE sent == IF handler.at = "reply" THEN Snapshot(handler) ELSE ResyncRequired
  <2>1. /\ handler.at \in {"reply", "give_up"}
        /\ \/ handler.initial /\ Len(wire) < WireMax /\ wire' = Append(wire, sent) /\ outq' = outq
           \/ ~handler.initial /\ Room /\ outq' = Append(outq, sent) /\ wire' = wire
    BY <1>16 DEF Reply
  <2>2. sent \in Messages BY SnapshotType, ResyncIsMessage
  <2> HIDE DEF sent
  <2>a. QueueMax \in Nat /\ WireMax \in Nat BY LimitsAssumption
  <2>3. PipeTyped
    <3>1. CASE handler.initial
      <4>1. Len(wire) < WireMax /\ wire' = Append(wire, sent) /\ outq' = outq BY <3>1, <2>1
      <4> QED BY <4>1, <2>a, <2>2 DEF PipeTyped, ConnTypes
    <3>2. CASE ~handler.initial
      <4>1. Room /\ outq' = Append(outq, sent) /\ wire' = wire BY <3>2, <2>1
      <4> QED BY <4>1, <2>a, <2>2 DEF PipeTyped, ConnTypes, Room
    <3> QED BY <3>1, <3>2
  <2>4. handler.initial => outq = <<>> BY <2>1 DEF ConnInv
  <2>5. Pipe' = Append(Pipe, sent)
    <3>1. CASE handler.initial BY <3>1, <2>1, <2>2, <2>4 DEF Pipe, ConnTypes
    <3>2. CASE ~handler.initial
      <4>1. outq' = Append(outq, sent) /\ wire' = wire BY <3>2, <2>1
      <4> QED BY <4>1, <2>2 DEF Pipe, ConnTypes
    <3> QED BY <3>1, <3>2
  <2>6. Flows(0, {sent}) BY <2>5, AppendFlows
  <2>7. CASE handler.at = "reply" BY <2>7, <2>3, <2>6, <1>16 DEF ServerFlow, sent
  <2>8. CASE handler.at # "reply"
    <3>1. sent = ResyncRequired BY <2>8 DEF sent
    <3>2. Flows(0, {ResyncRequired, ResyncRequired}) BY <3>1, <2>6
    <3> QED BY <3>2, <2>3, <1>0 DEF ServerFlow
  <2> QED BY <2>7, <2>8
<1>17. CASE Connect BY <1>17, <1>1 DEF Connect
<1>18. CASE Replay
  <2>1. /\ wire' = wire
        /\ \/ outq' = outq
           \/ handler.rest # <<>> /\ Room /\ outq' = Append(outq, Head(handler.rest))
    BY <1>18 DEF Replay
  <2>2. CASE handler.rest # <<>> /\ Room /\ outq' = Append(outq, Head(handler.rest))
    <3>1. handler.rest \in Seq(Events) BY DEF ConnTypes, Handlers
    <3>2. Head(handler.rest) \in Events /\ Head(handler.rest) = handler.rest[1]
          /\ 1 \in 1..Len(handler.rest)
      BY <3>1, <2>2
    <3>3. Valid(Head(handler.rest)) BY <3>2 DEF HandlerInv, Sound
    <3>4. PICK m \in Events : m = Head(handler.rest) BY <3>2
    <3>5. m \in Messages /\ m.type = "event" BY DEF Messages, Events
    <3>6. Plain(m) BY <3>3, <3>4, <3>5, ValidKept
    <3>7. Pipe' = Append(Pipe, m) BY <2>1, <2>2, <3>4, <3>5 DEF Pipe, ConnTypes
    <3>8. Flows(0, {m, ResyncRequired})
      <4>1. Flows(0, {m}) BY <3>7, AppendFlows
      <4> QED BY <4>1, MoreFlows
    <3>9. PipeTyped BY <2>1, <2>2, <3>4, <3>5, LimitsAssumption DEF PipeTyped, ConnTypes, Room
    <3> QED BY <3>5, <3>6, <3>8, <3>9 DEF ServerFlow
  <2> QED BY <2>1, <2>2, <1>1
<1>19. CASE ReceiveResync BY <1>19, <1>1 DEF ReceiveResync
<1>20. CASE Sender
  <2>1. outq # <<>> /\ Len(wire) < WireMax /\ wire' = Append(wire, Head(outq)) /\ outq' = Tail(outq)
    BY <1>20 DEF Sender
  <2>2. Len(Pipe') = Len(Pipe) /\ \A i \in 1..Len(Pipe) : Pipe'[i] = Pipe[i]
    <3>1. Len(wire) \in Nat /\ Len(outq) \in Nat /\ Len(outq) > 0 /\ Head(outq) = outq[1]
      BY <2>1 DEF ConnTypes
    <3>2. Len(wire') = Len(wire) + 1 /\ Len(outq') = Len(outq) - 1
      BY <2>1, <3>1 DEF ConnTypes
    <3> QED BY <2>1, <3>1, <3>2 DEF Pipe, ConnTypes
  <2>3. PipeTyped BY <2>1, LimitsAssumption DEF PipeTyped, ConnTypes
  <2>4. Flows(0, {ResyncRequired, ResyncRequired}) BY <2>2, StillFlows
  <2> QED BY <2>3, <2>4, <1>0 DEF ServerFlow
<1> QED BY <1>3, <1>4, <1>5, <1>6, <1>7, <1>8, <1>9, <1>10, <1>11, <1>12, <1>13, <1>14, <1>15,
           <1>16, <1>17, <1>18, <1>19, <1>20 DEF ServerStep

\* How the pipe moves in any step.
LEMMA PipeFlows ==
  ASSUME LoopTypes, LoopTypes', ConnTypes, PageTypes, LoopInv, HandlerInv, ConnInv, Next,
         DataTypes, DataTypes', DataInv, CountedInv
  PROVE  /\ PipeTyped
         /\ \/ Disconnection /\ Pipe' = <<>>
            \/ ~Disconnection /\ Receipt /\ Flows(1, {})
            \/ ~Disconnection /\ ~Receipt /\ ServerStep /\ UNCHANGED clientVars /\ ServerFlow
            \/ /\ ~Disconnection /\ ~Receipt /\ UNCHANGED <<outq, wire>> /\ Pipe' = Pipe
               /\ SnapshotWritten \/ EventWritten \/ LoadLocations \/ LocationsLoaded \/ OpenSocket
<1>1. CASE Disconnection
  <2>1. Disconnected /\ Pipe' = <<>> BY <1>1, Disconnections
  <2>2. PipeTyped
    <3>1. wire' = <<>> /\ outq' = <<>> BY <2>1 DEF Disconnected
    <3>2. QueueMax \in Nat /\ WireMax \in Nat BY LimitsAssumption
    <3> QED BY <3>1, <3>2 DEF PipeTyped
  <2> QED BY <1>1, <2>1, <2>2
<1>2. CASE ~Disconnection /\ ~Receipt /\ ServerStep /\ UNCHANGED clientVars
  <2>1. EventsGrow /\ DataGrows BY <1>2, EventsGrown, DataGrown DEF Disconnection
  <2> QED BY <1>2, <2>1, ServerFlows
<1>3. CASE ~Disconnection /\ Receipt
  <2>1. Delivered /\ wire # <<>> BY <1>3, Receipts
  <2>2. wire' = Tail(wire) /\ outq' = outq BY <2>1 DEF Delivered
  <2>3. Flows(1, {}) /\ wire' \in Seq(Messages) /\ Len(wire') <= WireMax BY <2>1, <2>2, TailFlows
  <2> QED BY <1>3, <2>2, <2>3 DEF PipeTyped, ConnTypes
<1>4. CASE ~Disconnection /\ ~Receipt /\ (SnapshotWritten \/ EventWritten \/ LoadLocations \/ LocationsLoaded \/ OpenSocket)
  <2>1. UNCHANGED <<outq, wire>>
    <3>1. CASE SnapshotWritten BY <3>1 DEF SnapshotWritten, serverVars, connVars
    <3>2. CASE EventWritten BY <3>2 DEF EventWritten
    <3>3. CASE LoadLocations BY <3>3 DEF LoadLocations, connVars
    <3>4. CASE LocationsLoaded BY <3>4 DEF LocationsLoaded, serverVars, connVars
    <3>5. CASE OpenSocket BY <3>5 DEF OpenSocket
    <3> QED BY <1>4, <3>1, <3>2, <3>3, <3>4, <3>5
  <2> QED BY <1>4, <2>1 DEF PipeTyped, Pipe, ConnTypes
<1> QED BY <1>1, <1>2, <1>3, <1>4 DEF Next, Disconnection, ClientStep, Receipt

\* No message in the pipe says what is not so.
LEMMA PipeKept ==
  ASSUME LoopTypes, LoopTypes', ConnTypes, PageTypes, LoopInv, HandlerInv, ConnInv, Next,
         DataTypes, DataTypes', DataInv, CountedInv, PipeInv
  PROVE  PipeInv'
<1>1. CASE Pipe' = <<>> BY <1>1 DEF PipeInv
<1>2. ASSUME ~Disconnection, NEW d \in Nat, NEW M, Flows(d, M),
             \A m \in M : Valid(m)'
      PROVE  PipeInv'
  <2>1. DataGrows /\ EventsGrow BY <1>2, DataGrown, EventsGrown DEF Disconnection
  <2> SUFFICES ASSUME NEW j \in 1..Len(Pipe') PROVE Valid(Pipe[j])'
    BY DEF PipeInv
  <2>2. CASE Pipe'[j] \in M
    <3>1. PICK m \in M : m = Pipe'[j] BY <2>2
    <3> QED BY <3>1, <1>2 DEF Valid
  <2>3. CASE j + d <= Len(Pipe) /\ Pipe'[j] = Pipe[j + d]
    <3>1. j + d \in 1..Len(Pipe) BY <2>3, PipeType
    <3>2. Pipe[j + d] \in Messages /\ Valid(Pipe[j + d]) BY <3>1, PipeType DEF PipeInv
    <3>3. PICK m \in Messages : m = Pipe[j + d] BY <3>2
    <3>4. Valid(m)' BY <2>1, <3>2, <3>3, ValidKept
    <3> QED BY <2>3, <3>3, <3>4 DEF Valid
  <2> QED BY <1>2, <2>2, <2>3 DEF Flows
<1>3. CASE ~Disconnection /\ Receipt /\ Flows(1, {}) BY <1>2, <1>3
<1>4. CASE ~Disconnection /\ ServerStep /\ ServerFlow
  <2>1. CASE \E m \in Messages : Flows(0, {m, ResyncRequired}) /\ Valid(m)'
    <3>1. PICK m \in Messages : Flows(0, {m, ResyncRequired}) /\ Valid(m)' BY <2>1
    <3>2. \A x \in {m, ResyncRequired} : Valid(x)' BY <3>1 DEF Valid, ResyncRequired
    <3> QED BY <3>1, <3>2, <1>2, <1>4
  <2>2. CASE handler.at = "reply" /\ Flows(0, {Snapshot(handler)})
    <3>1. PICK m \in Messages : m = Snapshot(handler) BY SnapshotType
    <3>2. Covers(handler.omit, handler.k, handler.n, handler.rows) BY <2>2 DEF HandlerInv, Sound
    <3>3. Valid(m) BY <3>1, <3>2, SnapshotType DEF Valid
    <3>4. DataGrows /\ EventsGrow BY <1>4, DataGrown, EventsGrown DEF Disconnection
    <3>5. Valid(m)' BY <3>3, <3>4, ValidKept
    <3>6. Flows(0, {m}) BY <2>2, <3>1
    <3> QED BY <3>5, <3>6, <1>2, <1>4
  <2> QED BY <1>4, <2>1, <2>2 DEF ServerFlow
<1>5. CASE ~Disconnection /\ Pipe' = Pipe
  <2>1. Flows(0, {}) BY <1>5, StillFlows
  <2> QED BY <2>1, <1>2, <1>5
<1> QED BY <1>1, <1>3, <1>4, <1>5, PipeFlows

-----------------------------------------------------------------------------
(* What each step of the page does *)

LEMMA Requested ==
  ASSUME DataTypes, ConnTypes, NEW p \in Pages, Request(p)
  PROVE  /\ page' \in Pages /\ up' \in Seq(Nat)
         /\ page'.open = p.open /\ page'.first = p.first /\ page'.revision = p.revision
         /\ page'.old = p.old /\ page'.locrev = p.locrev /\ page'.view = p.view
         /\ p.open \/ p.pending => page'.pending
         /\ ~p.open => up' = up /\ page'.pending = p.pending
<1>1. p.locrev \in Nat BY DEF Pages, DataTypes
<1>2. CASE p.pending \/ ~p.open BY <1>2 DEF Request, ConnTypes, Pages
<1>3. CASE ~(p.pending \/ ~p.open)
  <2>1. page' = [p EXCEPT !.pending = TRUE] /\ up' = Append(up, p.locrev) BY <1>3 DEF Request
  <2>2. up' \in Seq(Nat) BY <2>1, <1>1 DEF ConnTypes
  <2>3. page' \in Pages /\ page'.pending BY <2>1 DEF Pages
  <2> QED BY <2>1, <2>2, <2>3, <1>3 DEF Pages
<1> QED BY <1>2, <1>3

LEMMA Merged ==
  ASSUME NEW shown \in [Rows -> Versions], NEW rows \in [Rows -> Versions], NEW R
  PROVE  /\ Merge(shown, rows, R) \in [Rows -> Versions]
         /\ \A r \in Rows :
              /\ r \notin R => Merge(shown, rows, R)[r] = shown[r]
              /\ r \in R /\ r \in Orders /\ rows[r] = 0 => Merge(shown, rows, R)[r] = 0
              /\ r \in R /\ (r \notin Orders \/ rows[r] # 0) =>
                    /\ Merge(shown, rows, R)[r] \in {shown[r], rows[r]}
                    /\ shown[r] <= Merge(shown, rows, R)[r] /\ rows[r] <= Merge(shown, rows, R)[r]
<1>1. \A r \in Rows : shown[r] \in Nat /\ rows[r] \in Nat BY LimitsAssumption DEF Versions
<1>2. \A r \in Rows : Merge(shown, rows, R)[r] =
          IF r \notin R THEN shown[r]
          ELSE IF r \in Orders /\ rows[r] = 0 THEN 0
          ELSE IF shown[r] < rows[r] THEN rows[r] ELSE shown[r]
  BY DEF Merge, Fresher, Newer
<1>3. 0 \in Versions BY LimitsAssumption DEF Versions
<1>4. Merge(shown, rows, R) \in [Rows -> Versions] BY <1>2, <1>3 DEF Merge, Fresher, Newer
<1> QED BY <1>1, <1>2, <1>4

\* The message at the head, and what is known of it.
LEMMA Heads ==
  ASSUME ConnTypes, PipeInv, LoopTypes, wire # <<>>
  PROVE  /\ Head(wire) \in Messages /\ Pipe[1] = Head(wire) /\ 1 \in 1..Len(Pipe)
         /\ Head(wire).type = "snapshot" =>
               /\ Head(wire) \in Snapshots
               /\ Covers(Head(wire).omitted, Head(wire).locrev, Head(wire).rev, Head(wire).rows)
         /\ Head(wire).type = "event" =>
               /\ Head(wire) \in Events /\ Head(wire).rev \in 1..Revision
               /\ Head(wire).row = history[Head(wire).rev].row
               /\ Head(wire).ver = history[Head(wire).rev].ver
               /\ Head(wire).locrev = history[Head(wire).rev].locrev
         /\ Head(wire).type = "heartbeat" => Head(wire) \in Beats
<1>1. Len(wire) > 0 /\ Head(wire) = wire[1] /\ 1 \in 1..Len(wire) BY DEF ConnTypes
<1>2. Head(wire) \in Messages /\ Pipe[1] = Head(wire) /\ 1 \in 1..Len(Pipe)
  <2>1. wire[1] \in Messages /\ Len(wire) \in Nat BY <1>1 DEF ConnTypes
  <2>2. Pipe[1] = wire[1] /\ 1 \in 1..Len(Pipe) BY <1>1, PipeType
  <2> QED BY <1>1, <2>1, <2>2
<1>3. Valid(Head(wire)) BY <1>2 DEF PipeInv
<1>4. PICK m \in Messages : m = Head(wire) BY <1>2
<1>5. /\ m.type = "snapshot" => m \in Snapshots
      /\ m.type = "event" => m \in Events
      /\ m.type = "heartbeat" => m \in Beats
  BY DEF Messages, Events, Beats, Notices, Snapshots
<1>6. m.type = "event" => /\ m.row = history[m.rev].row /\ m.ver = history[m.rev].ver
                          /\ m.locrev = history[m.rev].locrev
  BY <1>3, <1>4 DEF Valid, Event
<1> QED BY <1>2, <1>3, <1>4, <1>5, <1>6 DEF Valid

LEMMA IgnoreEffect ==
  ASSUME IgnoreSnapshot \/ IgnoreEvent
  PROVE  UNCHANGED <<page, busy, cache, http, up>>
BY DEF IgnoreSnapshot, IgnoreEvent, Delivered

LEMMA RejectEffect ==
  ASSUME DataTypes, ConnTypes, PageTypes, RejectSnapshot
  PROVE  /\ page' \in Pages /\ up' \in Seq(Nat) /\ UNCHANGED <<busy, cache, http>>
         /\ page'.open = page.open /\ ~page'.first /\ page'.revision = page.revision
         /\ page'.old = page.old /\ page'.locrev = page.locrev /\ page'.view = page.view
         /\ page'.pending
<1> DEFINE p == [page EXCEPT !.first = FALSE, !.pending = FALSE]
<1>1. /\ Request(p) /\ page.open /\ UNCHANGED <<busy, cache, http>>
  BY DEF RejectSnapshot, Delivered, Incoming
<1>2. /\ p \in Pages /\ p.open = page.open /\ ~p.first /\ p.revision = page.revision /\ p.old = page.old
      /\ p.locrev = page.locrev /\ p.view = page.view
  BY DEF PageTypes, Pages
<1> HIDE DEF p
<1> QED BY <1>1, <1>2, Requested

\* A heartbeat, a notice or an event past a gap: at most a request.
LEMMA AskEffect ==
  ASSUME DataTypes, ConnTypes, PageTypes,
         HeartbeatArrives \/ ResyncRequiredArrives \/ GapInEvents
  PROVE  /\ page' \in Pages /\ up' \in Seq(Nat) /\ UNCHANGED <<busy, cache, http>>
         /\ page'.open = page.open /\ page'.first = page.first /\ page'.revision = page.revision
         /\ page'.old = page.old /\ page'.locrev = page.locrev /\ page'.view = page.view
         /\ page.pending => page'.pending
         /\ ~HeartbeatArrives => page'.pending
<1>1. page \in Pages BY DEF PageTypes
<1>2. UNCHANGED <<busy, cache, http>> /\ page.open
  BY DEF HeartbeatArrives, ResyncRequiredArrives, GapInEvents, Delivered, Incoming
<1>3. CASE HeartbeatArrives
  <2>1. Request(page) \/ UNCHANGED <<page, up>> BY <1>3 DEF HeartbeatArrives
  <2> QED BY <2>1, <1>1, <1>2, <1>3, Requested DEF ConnTypes
<1>4. CASE ResyncRequiredArrives \/ GapInEvents
  <2>1. Request(page) BY <1>4 DEF ResyncRequiredArrives, GapInEvents
  <2> QED BY <2>1, <1>1, <1>2, <1>4, Requested
<1> QED BY <1>3, <1>4

LEMMA ApplySnapshotEffect ==
  ASSUME DataTypes, LoopTypes, ConnTypes, PageTypes, PipeInv, ApplySnapshot,
         NEW m \in Snapshots, m = Head(wire)
  PROVE  /\ page' \in Pages /\ busy' \in Works /\ UNCHANGED <<cache, http, up>>
         /\ page'.open = page.open /\ ~page'.first /\ ~page'.old /\ page'.locrev = m.locrev
         /\ page'.view = Merge(page.view, m.rows, IF m.omitted THEN Orders ELSE Rows)
         /\ m.omitted => /\ page'.revision = m.rev /\ ~page'.pending /\ busy' = busy
                         /\ page.locrev = m.locrev
         /\ ~m.omitted => /\ page'.revision = page.revision /\ page'.pending = page.pending
                          /\ busy'.kind = "snapshot" /\ busy'.rev = m.rev
                          /\ busy'.locrev = m.locrev /\ busy'.rows = m.rows
         /\ page.first \/ m.rev >= page.revision
<1> DEFINE R == IF m.omitted THEN Orders ELSE Rows
           v == Merge(page.view, m.rows, R)
           p == [page EXCEPT !.first = FALSE, !.old = FALSE, !.locrev = m.locrev, !.view = v]
<1>1. /\ UNCHANGED <<cache, http, up>> /\ page.open /\ wire # <<>>
      /\ page.first \/ m.rev >= page.revision
      /\ ~m.omitted \/ page.locrev = m.locrev
      /\ IF m.omitted
         THEN page' = [p EXCEPT !.revision = m.rev, !.pending = FALSE] /\ UNCHANGED busy
         ELSE page' = p /\ busy' = [Free EXCEPT !.kind = "snapshot", !.rev = m.rev,
                                        !.locrev = m.locrev, !.rows = m.rows]
  BY DEF ApplySnapshot, Delivered, Incoming
<1>a. page \in Pages /\ locrev \in Nat BY DEF PageTypes, DataTypes
<1>b. m.type = "snapshot" BY DEF Snapshots
<1>2. /\ m.rev \in Nat /\ m.locrev \in 1..locrev /\ m.locrev \in 0..locrev /\ m.locrev \in Nat
      /\ m.rows \in [Rows -> Versions] /\ m.omitted \in BOOLEAN
  BY <1>1, <1>a, <1>b, Heads DEF Snapshots, Covers
<1>3. v \in [Rows -> Versions] BY <1>2, Merged DEF PageTypes, Pages
<1> HIDE DEF v
<1>4. /\ p \in Pages /\ p.open = page.open /\ ~p.first /\ ~p.old /\ p.locrev = m.locrev /\ p.view = v
      /\ p.revision = page.revision /\ p.pending = page.pending
  BY <1>2, <1>3, <1>a DEF Pages
<1> HIDE DEF p
<1>5. CASE m.omitted
  <2>1. page' = [p EXCEPT !.revision = m.rev, !.pending = FALSE] /\ UNCHANGED busy BY <1>1, <1>5
  <2>2. busy' \in Works BY <2>1 DEF PageTypes
  <2>3. /\ page' \in Pages /\ page'.open = p.open /\ page'.first = p.first /\ page'.old = p.old
        /\ page'.locrev = p.locrev /\ page'.view = p.view /\ page'.revision = m.rev /\ ~page'.pending
    BY <2>1, <1>2, <1>4 DEF Pages
  <2> QED BY <2>1, <2>2, <2>3, <1>1, <1>4, <1>5 DEF v
<1>6. CASE ~m.omitted
  <2>1. page' = p /\ busy' = [Free EXCEPT !.kind = "snapshot", !.rev = m.rev,
                                 !.locrev = m.locrev, !.rows = m.rows]
    BY <1>1, <1>6
  <2>2. 0 \in Versions /\ NoRow \in Subject BY LimitsAssumption DEF Versions, Subject
  <2>3. /\ busy' \in Works /\ busy'.kind = "snapshot" /\ busy'.rev = m.rev
        /\ busy'.locrev = m.locrev /\ busy'.rows = m.rows
    BY <2>1, <2>2, <1>2 DEF Free, Works
  <2> QED BY <2>1, <2>3, <1>1, <1>4, <1>6 DEF v
<1> QED BY <1>2, <1>5, <1>6

LEMMA ApplyEventEffect ==
  ASSUME DataTypes, LoopTypes, ConnTypes, PageTypes, PipeInv, ApplyEvent,
         NEW m \in Events, m = Head(wire)
  PROVE  /\ page' \in Pages /\ busy' \in Works /\ UNCHANGED <<cache, http, up>>
         /\ page'.open = page.open /\ page'.first = page.first /\ page'.old = page.old
         /\ page'.pending = page.pending
         /\ m.rev = page.revision + 1
         /\ \A r \in Rows : IF r = m.row
                            THEN /\ page'.view[r] \in {page.view[r], m.ver}
                                 /\ page.view[r] <= page'.view[r] /\ m.ver <= page'.view[r]
                            ELSE page'.view[r] = page.view[r]
         /\ \/ /\ m.row \notin Locations /\ page'.revision = m.rev /\ page'.locrev = page.locrev
               /\ busy' = busy
            \/ /\ m.row \in Locations /\ page'.revision = page.revision /\ page'.locrev = 0
               /\ busy'.kind = "event" /\ busy'.rev = m.rev /\ busy'.row = m.row /\ busy'.ver = m.ver
<1>1. /\ UNCHANGED <<cache, http, up>> /\ page.open /\ wire # <<>> /\ m.rev = page.revision + 1
      /\ \/ /\ m.row \notin Locations
            /\ page' = [page EXCEPT !.revision = m.rev, !.view =
                  [r \in Rows |-> IF r = m.row THEN Fresher(@[r], m.ver) ELSE @[r]]]
            /\ UNCHANGED busy
         \/ /\ m.row \in Locations
            /\ page' = [page EXCEPT !.locrev = 0, !.view[m.row] = Fresher(@, m.ver)]
            /\ busy' = [Free EXCEPT !.kind = "event", !.rev = m.rev,
                              !.locrev = m.locrev, !.row = m.row, !.ver = m.ver]
  BY DEF ApplyEvent, Delivered, Incoming
<1>2. m.rev \in Nat /\ m.row \in Subject /\ m.ver \in Versions /\ m.locrev \in Nat BY DEF Events
<1>3. \A v, w \in Versions : Fresher(v, w) \in Versions /\ Fresher(v, w) \in {v, w} /\ v <= Fresher(v, w)
                             /\ w <= Fresher(v, w)
  BY LimitsAssumption DEF Fresher, Newer, Versions
<1>4. page \in Pages /\ page.view \in [Rows -> Versions] /\ busy \in Works /\ 0 \in 0..locrev
  BY DEF PageTypes, Pages, DataTypes
<1>5. CASE m.row \notin Locations
  <2> DEFINE v == [r \in Rows |-> IF r = m.row THEN Fresher(page.view[r], m.ver) ELSE page.view[r]]
  <2>1. page' = [page EXCEPT !.revision = m.rev, !.view = v] /\ UNCHANGED busy BY <1>1, <1>5
  <2>2. /\ v \in [Rows -> Versions]
        /\ \A r \in Rows : IF r = m.row
                           THEN /\ v[r] \in {page.view[r], m.ver}
                                /\ page.view[r] <= v[r] /\ m.ver <= v[r]
                           ELSE v[r] = page.view[r]
    BY <1>2, <1>3, <1>4
  <2> HIDE DEF v
  <2>3. /\ page' \in Pages /\ page'.open = page.open /\ page'.first = page.first
        /\ page'.old = page.old /\ page'.pending = page.pending /\ page'.revision = m.rev
        /\ page'.locrev = page.locrev /\ page'.view = v
    BY <2>1, <2>2, <1>2, <1>4 DEF Pages
  <2> QED BY <2>1, <2>2, <2>3, <1>1, <1>4, <1>5
<1>6. CASE m.row \in Locations
  <2> DEFINE v == [page.view EXCEPT ![m.row] = Fresher(@, m.ver)]
  <2>1. /\ page' = [page EXCEPT !.locrev = 0, !.view = v]
        /\ busy' = [Free EXCEPT !.kind = "event", !.rev = m.rev,
                              !.locrev = m.locrev, !.row = m.row, !.ver = m.ver]
    BY <1>1, <1>4, <1>6 DEF Pages
  <2>2. /\ v \in [Rows -> Versions]
        /\ \A r \in Rows : IF r = m.row
                           THEN /\ v[r] \in {page.view[r], m.ver}
                                /\ page.view[r] <= v[r] /\ m.ver <= v[r]
                           ELSE v[r] = page.view[r]
    BY <1>2, <1>3, <1>4
  <2> HIDE DEF v
  <2>3. /\ page' \in Pages /\ page'.open = page.open /\ page'.first = page.first
        /\ page'.old = page.old /\ page'.pending = page.pending /\ page'.revision = page.revision
        /\ page'.locrev = 0 /\ page'.view = v
    BY <2>1, <2>2, <1>2, <1>4 DEF Pages
  <2>4. 0 \in Versions /\ NoRow \in Subject BY LimitsAssumption DEF Versions, Subject
  <2>5. /\ busy' \in Works /\ busy'.kind = "event" /\ busy'.rev = m.rev /\ busy'.row = m.row
        /\ busy'.ver = m.ver
    BY <2>1, <2>4, <1>2 DEF Free, Works, NoRows
  <2> QED BY <2>2, <2>3, <2>5, <1>1, <1>6
<1> QED BY <1>5, <1>6

LEMMA Frees ==
  /\ Free \in Works /\ Free.kind = "none" /\ Free.locrev = 0 /\ Free.rev = 0
  /\ NoLoad \in Loads /\ NoLoad.locrev = 0 /\ NoLoad.rows = NoRows
  /\ NoRows \in [Rows -> Versions] /\ \A r \in Rows : NoRows[r] = 0
<1>1. 0 \in Versions /\ NoRow \in Subject BY LimitsAssumption DEF Versions, Subject
<1>2. NoRows \in [Rows -> Versions] /\ \A r \in Rows : NoRows[r] = 0 BY <1>1 DEF NoRows
<1> QED BY <1>1, <1>2 DEF Free, NoLoad, Works, Loads

LEMMA WrittenCache ==
  ASSUME cache \in Caches, NEW k \in Nat, NEW rows, \A l \in Locations : rows[l] \in Versions
  PROVE  /\ Written(rows, k) \in Caches
         /\ \/ Written(rows, k) = cache
            \/ /\ Written(rows, k).locrev = k /\ Written(rows, k).observed = k
               /\ Written(rows, k).complete
               /\ \A l \in Locations : Written(rows, k).rows[l] = rows[l]
<1> DEFINE kept == [l \in Locations |-> rows[l]]
           new  == [locrev |-> k, observed |-> k, complete |-> TRUE, rows |-> kept]
<1>1. kept \in [Locations -> Versions] /\ \A l \in Locations : kept[l] = rows[l] OBVIOUS
<1>2. Written(rows, k) = cache \/ Written(rows, k) = new BY DEF Written
<1> HIDE DEF kept
<1>3. new \in Caches BY <1>1 DEF Caches
<1>4. new.locrev = k /\ new.observed = k /\ new.complete /\ new.rows = kept OBVIOUS
<1> HIDE DEF new
<1> QED BY <1>1, <1>2, <1>3, <1>4

LEMMA SnapshotWrittenEffect ==
  ASSUME PageTypes, SnapshotWritten
  PROVE  /\ page' \in Pages /\ UNCHANGED <<http, up>> /\ busy.kind = "snapshot" /\ busy' = Free
         /\ page'.open = page.open /\ page'.first = page.first /\ page'.old = page.old
         /\ page'.locrev = page.locrev /\ page'.view = page.view
         /\ page'.revision = busy.rev /\ ~page'.pending
         /\ cache' = Written(busy.rows, busy.locrev) /\ cache' \in Caches
<1>1. /\ busy.kind = "snapshot" /\ busy' = Free /\ UNCHANGED <<http, up>>
      /\ cache' = Written(busy.rows, busy.locrev)
      /\ page' = [page EXCEPT !.revision = busy.rev, !.pending = FALSE]
  BY DEF SnapshotWritten, serverVars, connVars
<1>2. busy.rev \in Nat /\ busy.locrev \in Nat /\ \A l \in Locations : busy.rows[l] \in Versions
  BY RowsApart DEF PageTypes, Works
<1>3. cache' \in Caches BY <1>1, <1>2, WrittenCache DEF PageTypes
<1> QED BY <1>1, <1>2, <1>3 DEF PageTypes, Pages

LEMMA EventWrittenEffect ==
  ASSUME DataTypes, ConnTypes, PageTypes, EventWritten, busy.row \in Locations
  PROVE  /\ page' \in Pages /\ up' \in Seq(Nat) /\ UNCHANGED http /\ busy.kind = "event" /\ busy' = Free
         /\ page'.open = page.open /\ page'.first = page.first /\ page'.old = page.old
         /\ page'.locrev = page.locrev /\ page'.view = page.view
         /\ page'.revision = busy.rev
         /\ page.pending => page'.pending
         /\ ~page.open => up' = up
         /\ cache' \in Caches
         /\ \/ cache' = cache
            \/ /\ ~cache'.complete /\ cache'.locrev = cache.locrev
               /\ cache'.observed \in {cache.observed, busy.locrev}
               /\ \A l \in Locations : cache'.rows[l] = IF l = busy.row THEN busy.ver ELSE cache.rows[l]
<1> DEFINE p == [page EXCEPT !.revision = busy.rev]
           rows == [cache.rows EXCEPT ![busy.row] = busy.ver]
           c == [cache EXCEPT !.complete = FALSE, !.rows = rows,
                              !.observed = Newer(@, busy.locrev)]
<1>1. page \in Pages /\ busy \in Works /\ cache \in Caches BY DEF PageTypes
<1>2. busy.kind = "event" /\ busy' = Free /\ UNCHANGED http BY DEF EventWritten
<1>3. cache' \in {cache, c}
  <2>1. \/ cache' = cache
        \/ cache' = [cache EXCEPT !.complete = FALSE, !.rows[busy.row] = busy.ver,
                                   !.observed = Newer(@, busy.locrev)]
    BY DEF EventWritten
  <2> QED BY <2>1, <1>1 DEF Caches
<1>4. IF page.locrev = 0 THEN Request(p) ELSE page' = p /\ UNCHANGED up BY DEF EventWritten
<1>5. /\ rows \in [Locations -> Versions]
      /\ \A l \in Locations : rows[l] = IF l = busy.row THEN busy.ver ELSE cache.rows[l]
  BY <1>1 DEF Caches, Works
<1> HIDE DEF rows
<1>6. Newer(cache.observed, busy.locrev) \in {cache.observed, busy.locrev} BY DEF Newer
<1>7. /\ c \in Caches /\ ~c.complete /\ c.locrev = cache.locrev /\ c.rows = rows
      /\ c.observed \in {cache.observed, busy.locrev}
  BY <1>1, <1>5, <1>6 DEF Caches, Works
<1> HIDE DEF c
<1>8. /\ p \in Pages /\ p.open = page.open /\ p.first = page.first /\ p.old = page.old
      /\ p.locrev = page.locrev /\ p.view = page.view /\ p.revision = busy.rev /\ p.pending = page.pending
  BY <1>1 DEF Pages, Works
<1> HIDE DEF p
<1>9. /\ page' \in Pages /\ up' \in Seq(Nat)
      /\ page'.open = page.open /\ page'.first = page.first /\ page'.old = page.old
      /\ page'.locrev = page.locrev /\ page'.view = page.view
      /\ page'.revision = busy.rev /\ (page.pending => page'.pending) /\ (~page.open => up' = up)
  <2>1. CASE page.locrev = 0
    <3>1. Request(p) BY <2>1, <1>4
    <3> QED BY <3>1, <1>8, Requested
  <2>2. CASE page.locrev # 0 BY <2>2, <1>4, <1>8 DEF ConnTypes
  <2> QED BY <2>1, <2>2
<1> QED BY <1>1, <1>2, <1>3, <1>5, <1>7, <1>9

LEMMA LoadEffect ==
  ASSUME DataTypes, PageTypes, LoadLocations
  PROVE  /\ UNCHANGED <<page, busy, cache, up>>
         /\ http' \in Loads
         /\ http'.locrev \in {locrev, 0} /\ http'.rows = db
<1>1. PICK k \in {locrev, 0} :
        http' = [at |-> "answered", started |-> page.revision, locrev |-> k, rows |-> db]
  BY DEF LoadLocations
<1>2. UNCHANGED <<page, busy, cache, up>> BY DEF LoadLocations, connVars
<1> QED BY <1>1, <1>2 DEF Loads, DataTypes, PageTypes, Pages

LEMMA LoadedEffect ==
  ASSUME DataTypes, PageTypes, LocationsLoaded
  PROVE  /\ UNCHANGED <<busy, up>> /\ http' = NoLoad /\ page' \in Pages /\ cache' \in Caches
         /\ page'.open = page.open /\ page'.first = page.first /\ page'.old = page.old
         /\ page'.pending = page.pending /\ page'.revision = page.revision
         /\ cache' = cache \/ (http.locrev # 0 /\ cache' = Written(http.rows, http.locrev))
         /\ \/ page' = page
            \/ page'.locrev = http.locrev /\ page'.view = Merge(page.view, http.rows, Locations)
<1>1. page \in Pages /\ cache \in Caches /\ http \in Loads BY DEF PageTypes
<1> DEFINE v == Merge(page.view, http.rows, Locations)
<1>2. /\ UNCHANGED <<busy, up>> /\ http' = NoLoad
      /\ \/ UNCHANGED <<page, cache>>
         \/ /\ page' = [page EXCEPT !.view = v, !.locrev = http.locrev]
            /\ cache' = IF http.locrev = 0 THEN cache ELSE Written(http.rows, http.locrev)
  BY DEF LocationsLoaded, serverVars, connVars
<1>3. v \in [Rows -> Versions] BY <1>1, Merged DEF Pages, Loads
<1> HIDE DEF v
<1>4. http.locrev \in Nat /\ \A l \in Locations : http.rows[l] \in Versions
  BY <1>1, RowsApart DEF Loads
<1>5. Written(http.rows, http.locrev) \in Caches BY <1>1, <1>4, WrittenCache
<1>6. CASE UNCHANGED <<page, cache>> BY <1>1, <1>2, <1>6
<1>7. CASE /\ page' = [page EXCEPT !.view = v, !.locrev = http.locrev]
           /\ cache' = IF http.locrev = 0 THEN cache ELSE Written(http.rows, http.locrev)
  <2>1. /\ page' \in Pages /\ page'.open = page.open /\ page'.first = page.first /\ page'.old = page.old
        /\ page'.pending = page.pending /\ page'.revision = page.revision
        /\ page'.locrev = http.locrev /\ page'.view = v
    BY <1>1, <1>3, <1>4, <1>7 DEF Pages
  <2> QED BY <2>1, <1>1, <1>2, <1>5, <1>7 DEF v
<1> QED BY <1>2, <1>6, <1>7

LEMMA OpenEffect ==
  ASSUME PageTypes, OpenSocket
  PROVE  /\ ~page.open /\ page' \in Pages /\ UNCHANGED <<busy, cache, http, up>>
         /\ page'.open /\ page'.first /\ ~page'.pending /\ page'.revision = page.revision
         /\ page'.old = page.old /\ page'.locrev = page.locrev /\ page'.view = page.view
<1>1. /\ ~page.open /\ UNCHANGED <<busy, cache, http, up>>
      /\ page' = [page EXCEPT !.open = TRUE, !.first = TRUE, !.pending = FALSE]
  BY DEF OpenSocket
<1> QED BY <1>1 DEF PageTypes, Pages

LEMMA CloseEffect ==
  ASSUME PageTypes, LoseConnection \/ RestartServer
  PROVE  /\ page' \in Pages /\ UNCHANGED <<busy, cache>> /\ http' \in {http, NoLoad} /\ ~page'.open
         /\ page'.first = page.first /\ page'.pending = page.pending
         /\ page'.revision = page.revision /\ page'.locrev = page.locrev /\ page'.view = page.view
         /\ page'.old = page.old \/ page'.old
         /\ LoseConnection => page'.old = page.old
         /\ RestartServer => page'.old
<1>1. CASE LoseConnection
  <2>1. page' = [page EXCEPT !.open = FALSE] /\ UNCHANGED <<busy, cache, http>>
    BY <1>1 DEF LoseConnection
  <2>2. /\ page' \in Pages /\ ~page'.open /\ page'.first = page.first /\ page'.pending = page.pending
        /\ page'.revision = page.revision /\ page'.locrev = page.locrev /\ page'.view = page.view
        /\ page'.old = page.old
    BY <2>1 DEF PageTypes, Pages
  <2>3. RestartServer => page'.old
    <3> SUFFICES ASSUME RestartServer PROVE page'.old OBVIOUS
    <3>1. page' = [page EXCEPT !.open = FALSE, !.old = TRUE] BY DEF RestartServer
    <3> QED BY <3>1 DEF PageTypes, Pages
  <2> QED BY <2>1, <2>2, <2>3
<1>2. CASE RestartServer
  <2>1. page' = [page EXCEPT !.open = FALSE, !.old = TRUE] /\ UNCHANGED <<busy, cache>> /\ http' = NoLoad
    BY <1>2 DEF RestartServer
  <2>2. /\ page' \in Pages /\ ~page'.open /\ page'.first = page.first /\ page'.pending = page.pending
        /\ page'.revision = page.revision /\ page'.locrev = page.locrev /\ page'.view = page.view
        /\ page'.old
    BY <2>1 DEF PageTypes, Pages
  <2>3. LoseConnection => page'.old = page.old
    <3> SUFFICES ASSUME LoseConnection PROVE page'.old = page.old OBVIOUS
    <3>1. page' = [page EXCEPT !.open = FALSE] BY DEF LoseConnection
    <3> QED BY <3>1 DEF PageTypes, Pages
  <2> QED BY <2>1, <2>2, <2>3
<1> QED BY <1>1, <1>2

LEMMA ReloadEffect ==
  ASSUME DataTypes, PageTypes, ReloadPage
  PROVE  /\ page' \in Pages /\ busy' = Free /\ http' = NoLoad /\ cache' \in Caches
         /\ ~page'.open /\ page'.first /\ ~page'.pending /\ ~page'.old
         /\ page'.revision = 0 /\ page'.locrev = locrev
         /\ cache' = cache \/ cache' = Written(db, locrev)
         /\ \/ page'.view = db
            \/ /\ cache.complete /\ cache.locrev = locrev
               /\ \A r \in Rows : page'.view[r] = IF r \in Locations THEN cache.rows[r] ELSE db[r]
<1> DEFINE v == [r \in Rows |-> IF r \in Locations THEN cache.rows[r] ELSE db[r]]
<1>1. /\ busy' = Free /\ http' = NoLoad
      /\ \/ /\ cache.complete /\ cache.locrev = locrev
            /\ page' = NewPage(locrev, v) /\ UNCHANGED cache
         \/ page' = NewPage(locrev, db) /\ cache' = Written(db, locrev)
  BY DEF ReloadPage
<1>2. cache \in Caches /\ locrev \in Nat /\ db \in [Rows -> Versions] BY DEF PageTypes, DataTypes
<1>3. v \in [Rows -> Versions] /\ \A r \in Rows : v[r] = IF r \in Locations THEN cache.rows[r] ELSE db[r]
  BY <1>2 DEF Caches
<1>4. \A l \in Locations : db[l] \in Versions BY <1>2, RowsApart
<1>5. Written(db, locrev) \in Caches BY <1>2, <1>4, WrittenCache
<1> HIDE DEF v
<1>6. CASE cache.complete /\ cache.locrev = locrev /\ page' = NewPage(locrev, v) /\ UNCHANGED cache
  <2>1. /\ page' \in Pages /\ ~page'.open /\ page'.first /\ ~page'.pending /\ ~page'.old
        /\ page'.revision = 0 /\ page'.locrev = locrev /\ page'.view = v
    BY <1>2, <1>3, <1>6 DEF NewPage, Pages
  <2> QED BY <2>1, <1>1, <1>2, <1>3, <1>6
<1>7. CASE page' = NewPage(locrev, db) /\ cache' = Written(db, locrev)
  <2>1. /\ page' \in Pages /\ ~page'.open /\ page'.first /\ ~page'.pending /\ ~page'.old
        /\ page'.revision = 0 /\ page'.locrev = locrev /\ page'.view = db
    BY <1>2, <1>7 DEF NewPage, Pages
  <2> QED BY <2>1, <1>1, <1>5, <1>7
<1> QED BY <1>1, <1>6, <1>7

-----------------------------------------------------------------------------
(* Checkpoints *)

LEMMA CountsAreNumbers ==
  ASSUME DataTypes, NEW k \in 1..locrev, NEW l \in Locations
  PROVE  counted[k][l] \in Nat
<1>1. counted[k] \in [Locations -> Versions] BY DEF DataTypes
<1> QED BY <1>1, LimitsAssumption DEF Versions

LEMMA BackedKept ==
  ASSUME DataTypes, DataTypes', DataGrows, NEW k \in Nat, NEW rows, NEW R \in SUBSET Rows,
         \A r \in R : rows[r] \in Versions, Backed(k, rows, R)
  PROVE  Backed(k, rows, R)'
<1>1. \A r \in R : rows[r] \in Nat /\ db[r] \in Nat /\ db'[r] \in Nat /\ db[r] <= db'[r]
  BY LimitsAssumption DEF DataTypes, DataGrows, Versions
<1>2. locrev \in Nat /\ locrev' \in Nat /\ locrev <= locrev' BY DEF DataTypes, DataGrows
<1>3. k # 0 => k \in 1..locrev /\ counted'[k] = counted[k] BY <1>2 DEF Backed, DataGrows
<1> QED BY <1>1, <1>2, <1>3 DEF Backed

\* What the database shows has what every checkpoint counts.
LEMMA NowBacked ==
  ASSUME DataTypes, DataInv, NEW k \in 0..locrev
  PROVE  Backed(k, db, Rows)
<1>1. \A r \in Rows : db[r] \in Nat BY LimitsAssumption DEF DataTypes, Versions
<1>2. k # 0 => k \in 1..locrev BY DEF DataTypes
<1> QED BY <1>1, <1>2, RowsApart DEF Backed, DataInv, DataTypes

CacheBacked(c) ==
    /\ c.locrev # 0 /\ c.locrev <= locrev /\ c.observed <= locrev
    /\ Backed(IF c.complete THEN c.locrev ELSE 0, c.rows, Locations)
BusyBacked(b) ==
    /\ b.kind = "snapshot" => b.locrev # 0 /\ Backed(b.locrev, b.rows, Rows)
    /\ b.kind = "event" => b.row \in Locations /\ b.ver <= db[b.row]
    /\ b.locrev <= locrev

LEMMA CacheKept ==
  ASSUME DataTypes, DataTypes', DataGrows, NEW c \in Caches, CacheBacked(c)
  PROVE  CacheBacked(c)'
<1>1. locrev \in Nat /\ locrev' \in Nat /\ locrev <= locrev' BY DEF DataTypes, DataGrows
<1>2. c.locrev \in Nat /\ c.observed \in Nat /\ \A l \in Locations : c.rows[l] \in Versions
  BY DEF Caches
<1> DEFINE k == IF c.complete THEN c.locrev ELSE 0
<1>3. k \in Nat /\ Backed(k, c.rows, Locations) BY <1>2 DEF CacheBacked
<1> HIDE DEF k
<1>4. Backed(k, c.rows, Locations)' BY <1>2, <1>3, BackedKept, RowsApart
<1> QED BY <1>1, <1>2, <1>4 DEF CacheBacked, k

LEMMA BusyKept ==
  ASSUME DataTypes, DataTypes', DataGrows, NEW b \in Works, BusyBacked(b)
  PROVE  BusyBacked(b)'
<1>1. locrev \in Nat /\ locrev' \in Nat /\ locrev <= locrev' BY DEF DataTypes, DataGrows
<1>2. b.locrev \in Nat /\ b.ver \in Nat /\ b.rows \in [Rows -> Versions] BY LimitsAssumption DEF Works, Versions
<1>3. b.kind = "snapshot" => Backed(b.locrev, b.rows, Rows)'
  BY <1>2, BackedKept DEF BusyBacked
<1>4. b.kind = "event" => b.ver <= db'[b.row]
  <2> SUFFICES ASSUME b.kind = "event" PROVE b.ver <= db'[b.row] OBVIOUS
  <2>1. b.row \in Rows /\ b.ver <= db[b.row] BY RowsApart DEF BusyBacked
  <2>2. db[b.row] <= db'[b.row] /\ db[b.row] \in Nat /\ db'[b.row] \in Nat
    BY <2>1, LimitsAssumption DEF DataTypes, DataGrows, Versions
  <2> QED BY <2>1, <2>2, <1>2
<1> QED BY <1>1, <1>2, <1>3, <1>4 DEF BusyBacked

\* A write of rows that were read leaves the cache honest.
LEMMA WrittenBacked ==
  ASSUME DataTypes, cache \in Caches, CacheBacked(cache), NEW k \in 1..locrev,
         NEW rows \in [Rows -> Versions], Backed(k, rows, Rows)
  PROVE  CacheBacked(Written(rows, k))
<1>1. k \in Nat /\ k <= locrev /\ k # 0 /\ \A l \in Locations : rows[l] \in Versions
  BY RowsApart DEF DataTypes
<1> DEFINE c == Written(rows, k)
<1>2. CASE c = cache BY <1>2
<1>3. CASE /\ c.locrev = k /\ c.observed = k /\ c.complete
           /\ \A l \in Locations : c.rows[l] = rows[l]
  BY <1>1, <1>3, RowsApart DEF CacheBacked, Backed
<1> QED BY <1>1, <1>2, <1>3, WrittenCache

LEMMA CheckpointKept ==
  ASSUME DataTypes, LoopTypes, ConnTypes, PageTypes, DataInv, CountedInv, LoopInv, PipeInv,
         CheckpointInv, Next
  PROVE  PageTypes' /\ CheckpointInv'
<1> DEFINE PageBacked(p) == Backed(p.locrev, p.view, Rows)
<1>1. DataTypes' /\ DataInv' /\ DataGrows BY DataKept, DataGrown
<1>2. page \in Pages /\ busy \in Works /\ cache \in Caches /\ http \in Loads BY DEF PageTypes
<1>3. PageBacked(page) /\ BusyBacked(busy) /\ CacheBacked(cache) /\ Backed(http.locrev, http.rows, Rows)
  BY DEF CheckpointInv, CacheBacked, BusyBacked
<1>4. SUFFICES /\ PageTypes' /\ PageBacked(page)' /\ BusyBacked(busy)' /\ CacheBacked(cache)'
               /\ Backed(http.locrev, http.rows, Rows)'
  BY DEF CheckpointInv, CacheBacked, BusyBacked
<1>5. ASSUME NEW p \in Pages, PageBacked(p) PROVE PageBacked(p)'
  BY <1>1, <1>5, BackedKept DEF Pages
<1>6. ASSUME NEW h \in Loads, Backed(h.locrev, h.rows, Rows) PROVE Backed(h.locrev, h.rows, Rows)'
  BY <1>1, <1>6, BackedKept DEF Loads
<1> HIDE DEF PageBacked
<1>7. ASSUME page' \in Pages, Backed(page'.locrev, page'.view, Rows), busy' \in Works, BusyBacked(busy'),
             cache' \in Caches, CacheBacked(cache'),
             http' \in Loads, Backed(http'.locrev, http'.rows, Rows)
      PROVE  /\ PageTypes' /\ PageBacked(page)' /\ BusyBacked(busy)' /\ CacheBacked(cache)'
             /\ Backed(http.locrev, http.rows, Rows)'
  <2>1. PICK p \in Pages : p = page' /\ PageBacked(p) BY <1>7 DEF PageBacked
  <2>2. PICK b \in Works : b = busy' /\ BusyBacked(b) BY <1>7
  <2>3. PICK c \in Caches : c = cache' /\ CacheBacked(c) BY <1>7
  <2>4. PICK h \in Loads : h = http' /\ Backed(h.locrev, h.rows, Rows) BY <1>7
  <2>5. PageBacked(p)' BY <2>1, <1>5
  <2>6. BusyBacked(b)' BY <2>2, <1>1, BusyKept
  <2>7. CacheBacked(c)' BY <2>3, <1>1, CacheKept
  <2>8. Backed(h.locrev, h.rows, Rows)' BY <2>4, <1>6
  <2>9. PageTypes' BY <2>1, <2>2, <2>3, <2>4 DEF PageTypes
  <2>10. PageBacked(page)' BY <2>1, <2>5 DEF PageBacked
  <2>11. BusyBacked(busy)' BY <2>2, <2>6 DEF BusyBacked
  <2>12. CacheBacked(cache)' BY <2>3, <2>7 DEF CacheBacked
  <2>13. Backed(http.locrev, http.rows, Rows)' BY <2>4, <2>8
  <2> QED BY <2>9, <2>10, <2>11, <2>12, <2>13
<1>8. Backed(page.locrev, page.view, Rows) BY <1>3 DEF PageBacked
<1>9. BusyBacked(Free) BY Frees DEF BusyBacked, DataTypes
<1>10. Backed(NoLoad.locrev, NoLoad.rows, Rows)
  BY Frees, LimitsAssumption DEF Backed, DataTypes, Versions
<1>11. CASE ServerStep /\ UNCHANGED clientVars
  BY <1>11, <1>2, <1>3, <1>7, <1>8 DEF clientVars
<1>12. CASE ClientStep
  <2>1. CASE IgnoreSnapshot \/ IgnoreEvent
    BY <2>1, <1>2, <1>3, <1>7, <1>8, IgnoreEffect
  <2>2. CASE RejectSnapshot
    <3>1. /\ page' \in Pages /\ UNCHANGED <<busy, cache, http>>
          /\ page'.locrev = page.locrev /\ page'.view = page.view
      BY <2>2, RejectEffect
    <3> QED BY <3>1, <1>2, <1>3, <1>7, <1>8
  <2>3. CASE ApplySnapshot
    <3>1. wire # <<>> /\ Head(wire).type = "snapshot" BY <2>3 DEF ApplySnapshot, Incoming
    <3>2. PICK m \in Snapshots : m = Head(wire) BY <3>1, Heads
    <3>3. Covers(m.omitted, m.locrev, m.rev, m.rows) BY <3>1, <3>2, Heads
    <3> DEFINE R == IF m.omitted THEN Orders ELSE Rows
               v == Merge(page.view, m.rows, R)
    <3>4. /\ page' \in Pages /\ busy' \in Works /\ UNCHANGED <<cache, http>>
          /\ page'.locrev = m.locrev /\ page'.view = v
          /\ m.omitted => busy' = busy /\ page.locrev = m.locrev
          /\ ~m.omitted => /\ busy'.kind = "snapshot" /\ busy'.locrev = m.locrev
                            /\ busy'.rows = m.rows
      BY <2>3, <3>2, ApplySnapshotEffect
    <3>5. m.locrev \in 1..locrev /\ m.rows \in [Rows -> Versions] /\ page.view \in [Rows -> Versions]
          /\ m.omitted \in BOOLEAN
      BY <3>3, <1>2 DEF Covers, Snapshots, Pages
    <3>6. /\ v \in [Rows -> Versions]
          /\ \A r \in Rows :
              /\ r \notin R => v[r] = page.view[r]
              /\ r \in R /\ r \in Orders /\ m.rows[r] = 0 => v[r] = 0
              /\ r \in R /\ (r \notin Orders \/ m.rows[r] # 0) =>
                    /\ v[r] \in {page.view[r], m.rows[r]}
                    /\ page.view[r] <= v[r] /\ m.rows[r] <= v[r]
      BY <3>5, Merged
    <3> HIDE DEF v
    <3>7. \A r \in Rows : v[r] <= db[r]
      <4> TAKE r \in Rows
      <4>1. page.view[r] <= db[r] /\ m.rows[r] <= db[r] /\ db[r] \in Nat
        BY <1>8, <3>3, LimitsAssumption DEF Backed, Covers, DataTypes, Versions
      <4> QED BY <4>1, <3>6
    <3>8. \A l \in Locations : counted[m.locrev][l] <= v[l]
      <4> TAKE l \in Locations
      <4>1. l \in Rows /\ l \notin Orders BY RowsApart
      <4>2. CASE m.omitted
        <5>1. v[l] = page.view[l] BY <4>1, <4>2, <3>6
        <5>2. page.locrev = m.locrev /\ page.locrev # 0 BY <4>2, <3>4, <3>5 DEF DataTypes
        <5> QED BY <5>1, <5>2, <1>8 DEF Backed
      <4>3. CASE ~m.omitted
        <5>1. m.rows[l] <= v[l] BY <4>1, <4>3, <3>6
        <5>2. counted[m.locrev][l] <= m.rows[l] BY <4>3, <3>3 DEF Covers
        <5>3. counted[m.locrev][l] \in Nat /\ m.rows[l] \in Nat /\ v[l] \in Nat
          BY <4>1, <3>5, <3>6, LimitsAssumption, CountsAreNumbers DEF Versions
        <5> QED BY <5>1, <5>2, <5>3
      <4> QED BY <4>2, <4>3
    <3>9. Backed(page'.locrev, page'.view, Rows)
      <4>1. m.locrev <= locrev BY <3>5 DEF DataTypes
      <4> QED BY <4>1, <3>4, <3>7, <3>8 DEF Backed
    <3>10. BusyBacked(busy')
      <4>1. CASE m.omitted BY <4>1, <3>4, <1>3
      <4>2. CASE ~m.omitted
        <5>1. m.locrev # 0 /\ m.locrev <= locrev BY <3>5 DEF DataTypes
        <5>2. Backed(m.locrev, m.rows, Rows) BY <5>1, <4>2, <3>3 DEF Backed, Covers
        <5> QED BY <5>1, <5>2, <4>2, <3>4 DEF BusyBacked
      <4> QED BY <4>1, <4>2, <3>5
    <3> QED BY <3>4, <3>9, <3>10, <1>2, <1>3, <1>7
  <2>4. CASE HeartbeatArrives \/ ResyncRequiredArrives \/ GapInEvents
    <3>1. /\ page' \in Pages /\ UNCHANGED <<busy, cache, http>>
          /\ page'.locrev = page.locrev /\ page'.view = page.view
      BY <2>4, AskEffect
    <3> QED BY <3>1, <1>2, <1>3, <1>7, <1>8
  <2>5. CASE ApplyEvent
    <3>1. wire # <<>> /\ Head(wire).type = "event" BY <2>5 DEF ApplyEvent, Incoming
    <3>2. PICK m \in Events : m = Head(wire) BY <3>1, Heads
    <3>3. /\ m.rev \in 1..Revision /\ m.row = history[m.rev].row /\ m.ver = history[m.rev].ver
          /\ m.locrev = history[m.rev].locrev
      BY <3>1, <3>2, Heads
    <3>4. /\ page' \in Pages /\ busy' \in Works /\ UNCHANGED <<cache, http>>
          /\ \A r \in Rows : IF r = m.row
                             THEN /\ page'.view[r] \in {page.view[r], m.ver}
                                  /\ page.view[r] <= page'.view[r]
                             ELSE page'.view[r] = page.view[r]
          /\ \/ /\ m.row \notin Locations /\ page'.locrev = page.locrev /\ busy' = busy
             \/ /\ m.row \in Locations /\ page'.locrev = 0
                /\ busy'.kind = "event" /\ busy'.row = m.row /\ busy'.ver = m.ver
      BY <2>5, <3>2, ApplyEventEffect
    <3>5. m.row \in Rows => m.ver <= db[m.row] BY <3>3 DEF LoopInv
    <3>6. page.view \in [Rows -> Versions] /\ page'.view \in [Rows -> Versions] BY <1>2, <3>4 DEF Pages
    <3>7. \A r \in Rows : page'.view[r] <= db[r]
      <4> TAKE r \in Rows
      <4>1. page.view[r] <= db[r] BY <1>8 DEF Backed
      <4> QED BY <4>1, <3>4, <3>5
    <3>8. \A r \in Rows : page.view[r] <= page'.view[r] /\ page.view[r] \in Nat /\ page'.view[r] \in Nat
      BY <3>4, <3>6, LimitsAssumption DEF Versions
    <3>9. Backed(page'.locrev, page'.view, Rows)
      <4>1. CASE page'.locrev = 0 BY <4>1, <3>7 DEF Backed, DataTypes
      <4>2. CASE page'.locrev = page.locrev /\ page.locrev # 0
        <5>1. page.locrev \in 1..locrev BY <4>2, <1>2, <1>8 DEF Backed, Pages, DataTypes
        <5>2. \A l \in Locations : counted[page.locrev][l] <= page'.view[l]
          <6> TAKE l \in Locations
          <6>1. counted[page.locrev][l] <= page.view[l] /\ counted[page.locrev][l] \in Nat /\ l \in Rows
            BY <4>2, <5>1, <1>8, RowsApart, LimitsAssumption DEF Backed, DataTypes, Versions
          <6> QED BY <6>1, <3>8
        <5> QED BY <4>2, <5>2, <3>7, <1>8 DEF Backed
      <4> QED BY <4>1, <4>2, <3>4
    <3>10. BusyBacked(busy')
      <4>1. CASE busy' = busy BY <4>1, <1>3
      <4>2. CASE m.row \in Locations /\ busy'.kind = "event" /\ busy'.row = m.row /\ busy'.ver = m.ver
        <5>1. busy'.locrev = m.locrev BY <2>5, <3>2, <4>2 DEF ApplyEvent, Free, Works
        <5> QED BY <4>2, <5>1, <3>3, <3>5, RowsApart DEF BusyBacked, LoopInv
      <4> QED BY <4>1, <4>2, <3>4
    <3> QED BY <3>4, <3>9, <3>10, <1>2, <1>3, <1>7
  <2>6. CASE SnapshotWritten
    <3>1. /\ page' \in Pages /\ UNCHANGED http /\ busy.kind = "snapshot" /\ busy' = Free
          /\ page'.locrev = page.locrev /\ page'.view = page.view
          /\ cache' = Written(busy.rows, busy.locrev) /\ cache' \in Caches
      BY <2>6, SnapshotWrittenEffect
    <3>2. Backed(busy.locrev, busy.rows, Rows) /\ busy.locrev # 0 BY <3>1, <1>3 DEF BusyBacked
    <3>3. busy.locrev \in 1..locrev /\ busy.rows \in [Rows -> Versions]
      BY <3>2, <1>2 DEF Backed, Works, DataTypes
    <3>4. CacheBacked(cache') BY <3>1, <3>2, <3>3, <1>2, <1>3, WrittenBacked
    <3> QED BY <3>1, <3>4, <1>2, <1>3, <1>7, <1>8, <1>9, Frees
  <2>7. CASE EventWritten
    <3>0. busy.kind = "event" BY <2>7 DEF EventWritten
    <3>1. busy.row \in Locations /\ busy.ver <= db[busy.row] /\ busy.locrev <= locrev
      BY <3>0, <1>3 DEF BusyBacked
    <3>2. /\ page' \in Pages /\ UNCHANGED http /\ busy' = Free
          /\ page'.locrev = page.locrev /\ page'.view = page.view
          /\ cache' \in Caches
          /\ \/ cache' = cache
             \/ /\ ~cache'.complete /\ cache'.locrev = cache.locrev
                /\ cache'.observed \in {cache.observed, busy.locrev}
                /\ \A l \in Locations : cache'.rows[l] = IF l = busy.row THEN busy.ver ELSE cache.rows[l]
      BY <2>7, <3>1, EventWrittenEffect
    <3>3. CacheBacked(cache')
      <4>1. CASE cache' = cache BY <4>1, <1>3
      <4>2. CASE /\ ~cache'.complete /\ cache'.locrev = cache.locrev
                 /\ cache'.observed \in {cache.observed, busy.locrev}
                 /\ \A l \in Locations : cache'.rows[l] = IF l = busy.row THEN busy.ver ELSE cache.rows[l]
        <5>1. \A l \in Locations : cache'.rows[l] <= db[l] BY <4>2, <3>1, <1>3 DEF CacheBacked, Backed
        <5>2. Backed(0, cache'.rows, Locations) BY <5>1 DEF Backed, DataTypes
        <5> QED BY <4>2, <5>2, <3>1, <1>3 DEF CacheBacked
      <4> QED BY <4>1, <4>2, <3>2
    <3> QED BY <3>2, <3>3, <1>2, <1>3, <1>7, <1>8, <1>9, Frees
  <2>8. CASE LoadLocations
    <3>1. UNCHANGED <<page, busy, cache>> /\ http' \in Loads /\ http'.locrev \in {locrev, 0} /\ http'.rows = db
      BY <2>8, LoadEffect
    <3>2. http'.locrev \in 0..locrev BY <3>1 DEF DataTypes
    <3>3. Backed(http'.locrev, http'.rows, Rows) BY <3>1, <3>2, NowBacked
    <3> QED BY <3>1, <3>3, <1>2, <1>3, <1>7, <1>8
  <2>9. CASE LocationsLoaded
    <3> DEFINE v == Merge(page.view, http.rows, Locations)
    <3>1. /\ UNCHANGED busy /\ http' = NoLoad /\ page' \in Pages /\ cache' \in Caches
          /\ cache' = cache \/ (http.locrev # 0 /\ cache' = Written(http.rows, http.locrev))
          /\ page' = page \/ (page'.locrev = http.locrev /\ page'.view = v)
      BY <2>9, LoadedEffect
    <3>2. page.view \in [Rows -> Versions] /\ http.rows \in [Rows -> Versions] /\ http.locrev \in Nat
      BY <1>2 DEF Pages, Loads
    <3>3. Backed(http.locrev, http.rows, Rows) BY <1>3
    <3>4. CacheBacked(cache')
      <4>1. CASE cache' = cache BY <4>1, <1>3
      <4>2. CASE http.locrev # 0 /\ cache' = Written(http.rows, http.locrev)
        <5>1. http.locrev \in 1..locrev BY <4>2, <3>2, <3>3 DEF Backed, DataTypes
        <5> QED BY <4>2, <5>1, <3>2, <3>3, <1>2, <1>3, WrittenBacked
      <4> QED BY <4>1, <4>2, <3>1
    <3>5. \A r \in Rows :
            /\ r \notin Locations => v[r] = page.view[r]
            /\ r \in Locations => v[r] \in {page.view[r], http.rows[r]} /\ http.rows[r] <= v[r]
      BY <3>2, Merged, RowsApart
    <3>6. v \in [Rows -> Versions] BY <3>2, Merged
    <3> HIDE DEF v
    <3>7. Backed(http.locrev, v, Rows)
      <4>1. ASSUME NEW r \in Rows PROVE v[r] <= db[r]
        <5>1. http.rows[r] <= db[r] /\ page.view[r] <= db[r] BY <3>3, <1>8 DEF Backed
        <5>2. v[r] = page.view[r] \/ v[r] = http.rows[r] BY <3>5
        <5> QED BY <5>1, <5>2
      <4>2. ASSUME http.locrev # 0, NEW l \in Locations PROVE counted[http.locrev][l] <= v[l]
        <5>1. counted[http.locrev][l] <= http.rows[l] /\ l \in Rows BY <4>2, <3>3, RowsApart DEF Backed
        <5>2. http.locrev \in 1..locrev BY <4>2, <3>2, <3>3 DEF Backed, DataTypes
        <5>3. counted[http.locrev][l] \in Nat /\ http.rows[l] \in Nat /\ v[l] \in Nat
          BY <5>1, <5>2, <3>2, <3>6, LimitsAssumption, CountsAreNumbers DEF Versions
        <5> QED BY <5>1, <5>3, <3>5
      <4> QED BY <4>1, <4>2, <3>3 DEF Backed
    <3>8. Backed(page'.locrev, page'.view, Rows)
      <4>1. CASE page' = page BY <4>1, <1>8
      <4>2. CASE page'.locrev = http.locrev /\ page'.view = v BY <4>2, <3>7
      <4> QED BY <4>1, <4>2, <3>1
    <3> QED BY <3>1, <3>4, <3>8, <1>2, <1>3, <1>7, <1>10, Frees
  <2> QED BY <1>12, <2>1, <2>2, <2>3, <2>4, <2>5, <2>6, <2>7, <2>8, <2>9 DEF ClientStep
<1>13. CASE OpenSocket
  <2>1. /\ page' \in Pages /\ UNCHANGED <<busy, cache, http>>
        /\ page'.locrev = page.locrev /\ page'.view = page.view
    BY <1>13, OpenEffect
  <2> QED BY <2>1, <1>2, <1>3, <1>7, <1>8
<1>14. CASE LoseConnection \/ RestartServer
  <2>1. /\ page' \in Pages /\ UNCHANGED <<busy, cache>> /\ http' \in {http, NoLoad}
        /\ page'.locrev = page.locrev /\ page'.view = page.view
    BY <1>14, CloseEffect
  <2>2. CASE http' = http BY <2>1, <2>2, <1>2, <1>3, <1>7, <1>8
  <2>3. CASE http' = NoLoad BY <2>1, <2>3, <1>2, <1>3, <1>7, <1>8, <1>10, Frees
  <2> QED BY <2>1, <2>2, <2>3
<1>15. CASE ReloadPage
  <2>1. /\ page' \in Pages /\ busy' = Free /\ http' = NoLoad /\ cache' \in Caches
        /\ page'.locrev = locrev
        /\ cache' = cache \/ cache' = Written(db, locrev)
        /\ \/ page'.view = db
           \/ /\ cache.complete /\ cache.locrev = locrev
              /\ \A r \in Rows : page'.view[r] = IF r \in Locations THEN cache.rows[r] ELSE db[r]
    BY <1>15, ReloadEffect
  <2>2. locrev \in 1..locrev /\ locrev \in 0..locrev /\ db \in [Rows -> Versions] BY DEF DataTypes
  <2>3. Backed(locrev, db, Rows) BY <2>2, NowBacked
  <2>4. CacheBacked(cache') BY <2>1, <2>2, <2>3, <1>2, <1>3, WrittenBacked
  <2>5. Backed(page'.locrev, page'.view, Rows)
    <3>1. CASE page'.view = db BY <3>1, <2>1, <2>3
    <3>2. CASE /\ cache.complete /\ cache.locrev = locrev
               /\ \A r \in Rows : page'.view[r] = IF r \in Locations THEN cache.rows[r] ELSE db[r]
      <4>1. Backed(locrev, cache.rows, Locations) BY <3>2, <1>3 DEF CacheBacked
      <4> QED BY <4>1, <3>2, <2>1, <2>3, RowsApart DEF Backed
    <3> QED BY <3>1, <3>2, <2>1
  <2> QED BY <2>1, <2>4, <2>5, <1>7, <1>9, <1>10, Frees
<1> QED BY <1>11, <1>12, <1>13, <1>14, <1>15 DEF Next

-----------------------------------------------------------------------------
(* The connection *)

LEMMA HandlerSteps ==
  ASSUME Next
  PROVE  \/ SnapshotKey \/ SnapshotRevision \/ SnapshotRows \/ SnapshotCheck
         \/ Reply \/ Connect \/ Replay \/ ReceiveResync \/ OpenSocket \/ Disconnection
         \/ UNCHANGED <<handler, registered>>
<1>1. CASE ServerStep
  <2>1. CASE \E R \in SUBSET Rows : Commit(R) BY <2>1 DEF Commit, connVars
  <2>2. CASE \E h \in hooks : AfterCommit(h) BY <2>2 DEF AfterCommit, connVars
  <2>3. CASE LoopTop BY <2>3 DEF LoopTop
  <2>4. CASE LoopGet BY <2>4 DEF LoopGet
  <2>5. CASE LoopHeartbeat BY <2>5 DEF LoopHeartbeat
  <2>6. CASE LoopRead BY <2>6 DEF LoopRead, connVars
  <2>7. CASE LoopFails BY <2>7 DEF LoopFails, connVars
  <2>8. CASE LoopPublish BY <2>8 DEF LoopPublish
  <2>9. CASE PublishRobots BY <2>9 DEF PublishRobots, connVars
  <2>10. CASE Sender BY <2>10 DEF Sender
  <2> QED BY <1>1, <2>1, <2>2, <2>3, <2>4, <2>5, <2>6, <2>7, <2>8, <2>9, <2>10 DEF ServerStep
<1>2. CASE ClientStep
  <2>1. CASE Receipt BY <2>1, Receipts DEF Delivered
  <2>2. CASE SnapshotWritten BY <2>2 DEF SnapshotWritten, serverVars, connVars
  <2>3. CASE EventWritten BY <2>3 DEF EventWritten
  <2>4. CASE LoadLocations BY <2>4 DEF LoadLocations, connVars
  <2>5. CASE LocationsLoaded BY <2>5 DEF LocationsLoaded, serverVars, connVars
  <2> QED BY <1>2, <2>1, <2>2, <2>3, <2>4, <2>5 DEF ClientStep, Receipt
<1> QED BY <1>1, <1>2 DEF Next, Disconnection

LEMMA NewHandler ==
  ASSUME NEW at \in Stages, NEW initial \in BOOLEAN, NEW ck \in Nat
  PROVE  /\ Handler(at, initial, ck) \in Handlers
         /\ Handler(at, initial, ck).at = at /\ Handler(at, initial, ck).initial = initial
         /\ Handler(at, initial, ck).rest = <<>> /\ Len(Handler(at, initial, ck).rest) = 0
<1>1. <<>> \in Seq(Events) /\ Len(<<>>) = 0 /\ 1 \in Nat /\ 0 \in Nat OBVIOUS
<1> QED BY <1>1, Frees DEF Handler, Handlers

LEMMA SoundKept ==
  ASSUME DataTypes, DataTypes', LoopTypes, DataGrows, EventsGrow, NEW h \in Handlers, Sound(h)
  PROVE  Sound(h)'
<1>1. locrev \in Nat /\ locrev' \in Nat /\ locrev <= locrev' BY DEF DataTypes, DataGrows
<1>2. Revision \in Nat /\ Revision' \in Nat /\ Revision <= Revision'
  BY DEF EventsGrow, LoopTypes, Revision
<1>3. h.k \in Nat /\ h.n \in Nat /\ h.rows \in [Rows -> Versions] /\ h.rest \in Seq(Events) BY DEF Handlers
<1>4. h.at \in {"check", "reply"} => Covers(h.omit, h.k, h.n, h.rows)'
  BY <1>3, CoversKept DEF Sound
<1>5. ASSUME NEW i \in 1..Len(h.rest) PROVE Valid(h.rest[i])'
  <2>1. h.rest[i] \in Messages BY <1>3 DEF Messages
  <2>2. PICK m \in Messages : m = h.rest[i] BY <2>1
  <2>3. Valid(m) BY <2>2 DEF Sound
  <2>4. Valid(m)' BY <2>3, ValidKept
  <2> QED BY <2>2, <2>4
<1> QED BY <1>1, <1>2, <1>3, <1>4, <1>5 DEF Sound

LEMMA HandlerKept ==
  ASSUME DataTypes, LoopTypes, ConnTypes, PageTypes, DataInv, CountedInv, LoopInv,
         HandlerInv, Next
  PROVE  handler' \in Handlers /\ registered' \in BOOLEAN /\ HandlerInv'
<1>1. DataTypes' /\ DataGrows BY DataKept, DataGrown
<1>2. handler \in Handlers /\ locrev \in Nat \ {0} /\ Revision \in Nat /\ registered \in BOOLEAN
      /\ Sound(handler) /\ db \in [Rows -> Versions] /\ handler.rest \in Seq(Events)
      /\ handler.initial \in BOOLEAN
  BY DEF ConnTypes, DataTypes, LoopTypes, Revision, HandlerInv, Handlers
<1>3. CASE Disconnection
  <2>1. handler' = NoHandler /\ registered' = FALSE BY <1>3, Disconnections DEF Disconnected
  <2>2. /\ NoHandler \in Handlers /\ NoHandler.at = "none" /\ NoHandler.rest = <<>>
        /\ Len(NoHandler.rest) = 0
    <3>1. "none" \in Stages /\ FALSE \in BOOLEAN /\ 0 \in Nat BY DEF Stages
    <3> QED BY <3>1, NewHandler DEF NoHandler
  <2>3. /\ handler'.at = "none" /\ 1..Len(handler'.rest) = {}
    BY <2>1, <2>2
  <2>4. HandlerInv' BY <2>3 DEF HandlerInv, Sound
  <2> QED BY <2>1, <2>2, <2>4
<1>4. ASSUME ~Disconnection, NEW h \in Handlers, h = handler', Sound(h)
      PROVE  handler' \in Handlers /\ HandlerInv'
  <2>1. EventsGrow BY <1>4, EventsGrown DEF Disconnection
  <2>2. Sound(h)' BY <1>1, <1>4, <2>1, SoundKept
  <2> QED BY <1>4, <2>2 DEF HandlerInv, Sound
<1>5. ASSUME ~Disconnection, handler' \in Handlers, Sound(handler')
      PROVE  handler' \in Handlers /\ HandlerInv'
  BY <1>4, <1>5
<1>6. CASE ~Disconnection /\ SnapshotKey
  <2> DEFINE h == [handler EXCEPT !.at = "revision", !.k = locrev, !.omit = (handler.ck = locrev)]
  <2>1. handler' = h /\ registered' = registered BY <1>6 DEF SnapshotKey
  <2>2. h \in Handlers /\ h.at = "revision" /\ h.k = locrev /\ h.rest = handler.rest
    BY <1>2 DEF Handlers, Stages
  <2> HIDE DEF h
  <2>3. Sound(h) BY <1>2, <2>2 DEF Sound
  <2> QED BY <1>2, <1>5, <1>6, <2>1, <2>2, <2>3
<1>7. CASE ~Disconnection /\ SnapshotRevision
  <2> DEFINE h == [handler EXCEPT !.at = "rows", !.n = Revision]
  <2>1. handler' = h /\ registered' = registered /\ handler.at = "revision" BY <1>7 DEF SnapshotRevision
  <2>2. h \in Handlers /\ h.at = "rows" /\ h.k = handler.k /\ h.n = Revision /\ h.rest = handler.rest
    BY <1>2 DEF Handlers, Stages
  <2> HIDE DEF h
  <2>3. Sound(h) BY <1>2, <2>1, <2>2 DEF Sound
  <2> QED BY <1>2, <1>5, <1>7, <2>1, <2>2, <2>3
<1>8. CASE ~Disconnection /\ SnapshotRows
  <2> DEFINE rows == [r \in Rows |-> IF handler.omit /\ r \in Locations THEN 0 ELSE db[r]]
             h == [handler EXCEPT !.at = "check", !.rows = rows]
  <2>1. handler' = h /\ registered' = registered /\ handler.at = "rows" BY <1>8 DEF SnapshotRows
  <2>2. 0 \in Versions /\ \A r \in Rows : db[r] \in Nat BY <1>2, LimitsAssumption DEF Versions
  <2>3. /\ rows \in [Rows -> Versions]
        /\ \A r \in Rows : rows[r] = IF handler.omit /\ r \in Locations THEN 0 ELSE db[r]
    BY <1>2, <2>2
  <2> HIDE DEF rows
  <2>4. /\ h \in Handlers /\ h.at = "check" /\ h.k = handler.k /\ h.n = handler.n /\ h.rest = handler.rest
        /\ h.omit = handler.omit /\ h.rows = rows
    BY <1>2, <2>3 DEF Handlers, Stages
  <2> HIDE DEF h
  <2>5. handler.k \in 1..locrev /\ handler.n <= Revision /\ handler.n \in Nat
    BY <1>2, <2>1 DEF Sound, Handlers
  <2>6. Covers(handler.omit, handler.k, handler.n, rows)
    <3>1. \A r \in Rows : rows[r] <= db[r] BY <2>2, <2>3
    <3>2. \A l \in Locations : ~handler.omit => counted[handler.k][l] <= rows[l]
      BY <2>3, <2>5, RowsApart DEF DataInv
    <3>3. \A i \in 1..handler.n : history[i].row \in Orders => history[i].ver <= rows[history[i].row]
      <4> TAKE i \in 1..handler.n
      <4> HAVE history[i].row \in Orders
      <4>1. i \in 1..Revision BY <2>5, <1>2
      <4> QED BY <4>1, <2>3, RowsApart DEF LoopInv
    <3> QED BY <2>5, <3>1, <3>2, <3>3 DEF Covers
  <2>7. Sound(h) BY <1>2, <2>4, <2>5, <2>6 DEF Sound
  <2> QED BY <1>2, <1>5, <1>8, <2>1, <2>4, <2>7
<1>9. CASE ~Disconnection /\ SnapshotCheck
  <2> DEFINE ok    == [handler EXCEPT !.at = "reply", !.attempt = 1, !.ck = 0]
             again == [Handler("key", handler.initial, 0) EXCEPT !.attempt = handler.attempt + 1]
             enough == [Handler("give_up", handler.initial, 0) EXCEPT !.n = Revision]
  <2>1. handler' \in {ok, again, enough} /\ registered' = registered /\ handler.at = "check"
    BY <1>9 DEF SnapshotCheck
  <2>2. ok \in Handlers /\ ok.at = "reply" /\ ok.k = handler.k /\ ok.n = handler.n /\ ok.omit = handler.omit
        /\ ok.rows = handler.rows /\ ok.rest = handler.rest
    BY <1>2 DEF Handlers, Stages
  <2>3. /\ Handler("key", handler.initial, 0) \in Handlers /\ Handler("give_up", handler.initial, 0) \in Handlers
        /\ Handler("key", handler.initial, 0).at = "key" /\ Handler("give_up", handler.initial, 0).at = "give_up"
        /\ Handler("key", handler.initial, 0).rest = <<>> /\ Handler("give_up", handler.initial, 0).rest = <<>>
    BY <1>2, NewHandler DEF Stages
  <2>a. handler.attempt + 1 \in Nat BY <1>2 DEF Handlers
  <2>4. again \in Handlers /\ again.at = "key" /\ again.rest = <<>> BY <2>a, <2>3 DEF Handlers
  <2>5. enough \in Handlers /\ enough.at = "give_up" /\ enough.rest = <<>> /\ enough.n = Revision
    BY <1>2, <2>3 DEF Handlers
  <2> HIDE DEF ok, again, enough
  <2>6. Sound(ok) BY <1>2, <2>1, <2>2 DEF Sound
  <2>7. Sound(again) /\ Sound(enough) BY <1>2, <2>4, <2>5 DEF Sound
  <2> QED BY <1>2, <1>5, <1>9, <2>1, <2>2, <2>4, <2>5, <2>6, <2>7
<1>10. CASE ~Disconnection /\ Reply
  <2> DEFINE a == [Handler("connect", TRUE, 0) EXCEPT !.n = handler.n]
             b == Handler("receive", FALSE, 0)
  <2>1. handler' \in {a, b} /\ registered' = registered /\ handler.at \in {"reply", "give_up"}
    BY <1>10 DEF Reply
  <2>2. /\ Handler("connect", TRUE, 0) \in Handlers /\ b \in Handlers
        /\ Handler("connect", TRUE, 0).at = "connect" /\ b.at = "receive"
        /\ Handler("connect", TRUE, 0).rest = <<>> /\ b.rest = <<>>
    <3>1. "connect" \in Stages /\ "receive" \in Stages /\ TRUE \in BOOLEAN /\ FALSE \in BOOLEAN /\ 0 \in Nat
      BY DEF Stages
    <3> QED BY <3>1, NewHandler
  <2>3. handler.n \in Nat BY <1>2 DEF Handlers
  <2>4. a \in Handlers /\ a.at = "connect" /\ a.rest = <<>> /\ a.n = handler.n BY <2>2, <2>3 DEF Handlers
  <2> HIDE DEF a, b
  <2>5. Sound(a) BY <1>2, <2>1, <2>4 DEF Sound
  <2>6. Sound(b) BY <2>2 DEF Sound
  <2> QED BY <1>2, <1>5, <1>10, <2>1, <2>2, <2>4, <2>5, <2>6
<1>11. CASE ~Disconnection /\ Connect
  <2> DEFINE first == Newer(handler.n, Revision - HistoryMax) + 1
             rest  == [i \in 1..(Revision - first + 1) |-> Event(first + i - 1)]
             h     == [Handler("replay", FALSE, 0) EXCEPT !.rest = rest]
  <2>1. handler' = h /\ registered' = TRUE /\ handler.at = "connect" BY <1>11 DEF Connect
  <2>2. handler.n \in Nat /\ handler.n <= Revision BY <1>2, <2>1 DEF Sound, Handlers
  <2>3. first \in Nat /\ first >= 1 /\ first <= Revision + 1
    <3>1. HistoryMax \in Nat /\ HistoryMax > 0 BY LimitsAssumption
    <3> QED BY <3>1, <2>2, <1>2 DEF Newer
  <2> HIDE DEF first
  <2>4. \A i \in 1..(Revision - first + 1) : first + i - 1 \in 1..Revision BY <2>3, <1>2
  <2>5. rest \in Seq(Events) /\ Len(rest) = Revision - first + 1
    <3>1. Revision - first + 1 \in Nat BY <2>3, <1>2
    <3>2. \A i \in 1..(Revision - first + 1) : Event(first + i - 1) \in Events
      BY <2>4, EventType
    <3> QED BY <3>1, <3>2
  <2>6. \A i \in 1..Len(rest) : Valid(rest[i])
    <3> TAKE i \in 1..Len(rest)
    <3>1. rest[i] = Event(first + i - 1) /\ first + i - 1 \in 1..Revision BY <2>4, <2>5
    <3> QED BY <3>1, EventType
  <2> HIDE DEF rest
  <2>7. Handler("replay", FALSE, 0) \in Handlers /\ Handler("replay", FALSE, 0).at = "replay"
    <3>1. "replay" \in Stages /\ FALSE \in BOOLEAN /\ 0 \in Nat BY DEF Stages
    <3> QED BY <3>1, NewHandler
  <2>8. h \in Handlers /\ h.at = "replay" /\ h.rest = rest BY <2>5, <2>7 DEF Handlers
  <2> HIDE DEF h
  <2>9. Sound(h) BY <2>6, <2>8 DEF Sound
  <2> QED BY <1>5, <1>11, <2>1, <2>8, <2>9
<1>12. CASE ~Disconnection /\ Replay
  <2> DEFINE a == Handler("receive", FALSE, 0)
             b == [handler EXCEPT !.rest = Tail(handler.rest)]
  <2>1. /\ registered' = registered /\ handler.at = "replay"
        /\ handler' = a \/ (handler.rest # <<>> /\ handler' = b)
    BY <1>12 DEF Replay
  <2>2. a \in Handlers /\ a.at = "receive" /\ a.rest = <<>>
    <3>1. "receive" \in Stages /\ FALSE \in BOOLEAN /\ 0 \in Nat BY DEF Stages
    <3> QED BY <3>1, NewHandler
  <2> HIDE DEF a
  <2>3. Sound(a) BY <2>2 DEF Sound
  <2>4. CASE handler.rest # <<>> /\ handler' = b
    <3>1. /\ Tail(handler.rest) \in Seq(Events)
          /\ \A i \in 1..Len(Tail(handler.rest)) :
                i + 1 \in 1..Len(handler.rest) /\ Tail(handler.rest)[i] = handler.rest[i + 1]
      BY <1>2, <2>4
    <3>2. b \in Handlers /\ b.at = "replay" /\ b.rest = Tail(handler.rest)
      BY <1>2, <2>1, <3>1 DEF Handlers
    <3> HIDE DEF b
    <3>3. \A i \in 1..Len(b.rest) : Valid(b.rest[i]) BY <1>2, <3>1, <3>2 DEF Sound
    <3>4. Sound(b) BY <3>2, <3>3 DEF Sound
    <3> QED BY <1>2, <1>5, <1>12, <2>1, <2>4, <3>2, <3>4
  <2> QED BY <1>2, <1>5, <1>12, <2>1, <2>2, <2>3, <2>4
<1>13. CASE ~Disconnection /\ (ReceiveResync \/ OpenSocket)
  <2>1. /\ registered' = registered
        /\ \/ up # <<>> /\ handler' = Handler("key", FALSE, Head(up))
           \/ handler' = Handler("key", TRUE, page.locrev)
    BY <1>13 DEF ReceiveResync, OpenSocket
  <2>2. PICK ck \in Nat, initial \in BOOLEAN : handler' = Handler("key", initial, ck)
    <3>1. up # <<>> => Head(up) \in Nat BY DEF ConnTypes
    <3>2. page.locrev \in Nat BY DEF PageTypes, Pages
    <3> QED BY <2>1, <3>1, <3>2
  <2>3. handler' \in Handlers /\ handler'.at = "key" /\ handler'.rest = <<>>
    <3>1. "key" \in Stages BY DEF Stages
    <3> QED BY <2>2, <3>1, NewHandler
  <2>4. Sound(handler') BY <2>3 DEF Sound
  <2> QED BY <1>2, <1>5, <1>13, <2>1, <2>3, <2>4
<1>14. CASE ~Disconnection /\ UNCHANGED <<handler, registered>>
  BY <1>2, <1>5, <1>14
<1> QED BY <1>3, <1>6, <1>7, <1>8, <1>9, <1>10, <1>11, <1>12, <1>13, <1>14, HandlerSteps


LEMMA PageSteps ==
  ASSUME Next
  PROVE  \/ ServerStep /\ UNCHANGED clientVars
         \/ IgnoreSnapshot \/ IgnoreEvent
         \/ RejectSnapshot
         \/ HeartbeatArrives \/ ResyncRequiredArrives \/ GapInEvents
         \/ ApplySnapshot \/ ApplyEvent
         \/ SnapshotWritten \/ EventWritten \/ LoadLocations \/ LocationsLoaded
         \/ OpenSocket \/ Disconnection
BY DEF Next, ClientStep, Disconnection

\* How the server's part of the connection moves.
Asking == {"key", "revision", "rows", "check"}
HandlerMoves ==
    \/ /\ handler.at \in Asking /\ handler'.at \in Asking \cup {"reply", "give_up"}
       /\ (handler'.initial <=> handler.initial) /\ UNCHANGED <<registered, outq, wire, up>>
    \/ /\ handler.at \in {"reply", "give_up"} /\ handler.initial
       /\ handler'.at = "connect" /\ handler'.initial
       /\ UNCHANGED <<registered, outq, up>>
       /\ wire' = Append(wire, IF handler.at = "reply" THEN Snapshot(handler) ELSE ResyncRequired)
    \/ /\ handler.at \in {"reply", "give_up"} /\ ~handler.initial
       /\ handler'.at = "receive" /\ ~handler'.initial
       /\ UNCHANGED <<registered, wire, up>>
    \/ /\ handler.at = "connect" /\ handler'.at = "replay" /\ ~handler'.initial
       /\ registered' /\ UNCHANGED <<outq, wire, up>>
    \/ /\ handler.at = "replay" /\ handler'.at \in {"replay", "receive"}
       /\ (handler'.initial => handler.initial)
       /\ UNCHANGED <<registered, wire, up>>
    \/ /\ handler.at = "receive" /\ handler'.at = "key" /\ ~handler'.initial
       /\ up # <<>> /\ up' = Tail(up) /\ UNCHANGED <<registered, outq, wire>>
    \/ /\ outq # <<>> /\ outq' = Tail(outq) /\ wire' = Append(wire, Head(outq))
       /\ UNCHANGED <<handler, registered, up>>
    \/ /\ UNCHANGED <<handler, registered, wire, up>> /\ (registered \/ outq' = outq)

LEMMA ServerMoves ==
  ASSUME DataTypes, LoopTypes, ConnTypes, ServerStep
  PROVE  HandlerMoves
<1> USE DEF HandlerMoves, Asking
<1>0. handler \in Handlers /\ handler.initial \in BOOLEAN BY DEF ConnTypes, Handlers
<1>1. CASE \E R \in SUBSET Rows : Commit(R) BY <1>1 DEF Commit, connVars
<1>2. CASE \E h \in hooks : AfterCommit(h) BY <1>2 DEF AfterCommit, connVars
<1>3. CASE LoopTop BY <1>3 DEF LoopTop, Broadcast
<1>4. CASE LoopGet BY <1>4 DEF LoopGet, Broadcast
<1>5. CASE LoopHeartbeat BY <1>5 DEF LoopHeartbeat, Broadcast
<1>6. CASE LoopRead BY <1>6 DEF LoopRead, connVars
<1>7. CASE LoopFails BY <1>7 DEF LoopFails, connVars
<1>8. CASE LoopPublish BY <1>8 DEF LoopPublish, Broadcast
<1>9. CASE PublishRobots BY <1>9 DEF PublishRobots, connVars
<1>10. CASE SnapshotKey
  <2>1. /\ handler.at = "key" /\ UNCHANGED <<registered, outq, wire, up>>
        /\ handler' = [handler EXCEPT !.at = "revision", !.k = locrev, !.omit = (handler.ck = locrev)]
    BY <1>10 DEF SnapshotKey
  <2> QED BY <2>1, <1>0 DEF Handlers
<1>11. CASE SnapshotRevision
  <2>1. /\ handler.at = "revision" /\ UNCHANGED <<registered, outq, wire, up>>
        /\ handler' = [handler EXCEPT !.at = "rows", !.n = Revision]
    BY <1>11 DEF SnapshotRevision
  <2> QED BY <2>1, <1>0 DEF Handlers
<1>12. CASE SnapshotRows
  <2>1. /\ handler.at = "rows" /\ UNCHANGED <<registered, outq, wire, up>>
        /\ handler' = [handler EXCEPT !.at = "check", !.rows =
                          [r \in Rows |-> IF handler.omit /\ r \in Locations THEN 0 ELSE db[r]]]
    BY <1>12 DEF SnapshotRows
  <2> QED BY <2>1, <1>0 DEF Handlers
<1>13. CASE SnapshotCheck
  <2>1. /\ handler.at = "check" /\ UNCHANGED <<registered, outq, wire, up>>
        /\ handler' \in {[handler EXCEPT !.at = "reply", !.attempt = 1, !.ck = 0],
                         [Handler("key", handler.initial, 0) EXCEPT !.attempt = handler.attempt + 1],
                         [Handler("give_up", handler.initial, 0) EXCEPT !.n = Revision]}
    BY <1>13 DEF SnapshotCheck
  <2>2. handler'.at \in {"reply", "key", "give_up"} /\ handler'.initial = handler.initial
    <3>1. CASE handler' = [handler EXCEPT !.at = "reply", !.attempt = 1, !.ck = 0]
      BY <3>1, <1>0 DEF Handlers
    <3>2. CASE handler' = [Handler("key", handler.initial, 0) EXCEPT !.attempt = handler.attempt + 1]
      BY <3>2 DEF Handler
    <3>3. CASE handler' = [Handler("give_up", handler.initial, 0) EXCEPT !.n = Revision]
      BY <3>3 DEF Handler
    <3> QED BY <2>1, <3>1, <3>2, <3>3
  <2> QED BY <2>1, <2>2
<1>14. CASE Reply
  <2>1. /\ handler.at \in {"reply", "give_up"} /\ UNCHANGED <<registered, up>>
        /\ \/ /\ handler.initial /\ outq' = outq
              /\ wire' = Append(wire, IF handler.at = "reply" THEN Snapshot(handler) ELSE ResyncRequired)
              /\ handler' = [Handler("connect", TRUE, 0) EXCEPT !.n = handler.n]
           \/ ~handler.initial /\ wire' = wire /\ handler' = Handler("receive", FALSE, 0)
    BY <1>14 DEF Reply
  <2>2. CASE handler.initial
    <3>1. handler' = [Handler("connect", TRUE, 0) EXCEPT !.n = handler.n] BY <2>1, <2>2
    <3>2. handler'.at = "connect" /\ handler'.initial BY <3>1 DEF Handler
    <3> QED BY <2>1, <2>2, <3>2
  <2>3. CASE ~handler.initial
    <3>1. handler' = Handler("receive", FALSE, 0) BY <2>1, <2>3
    <3>2. handler'.at = "receive" /\ ~handler'.initial BY <3>1 DEF Handler
    <3> QED BY <2>1, <2>3, <3>2
  <2> QED BY <2>2, <2>3
<1>15. CASE Connect
  <2>1. /\ handler.at = "connect" /\ registered' /\ UNCHANGED <<outq, wire, up>>
        /\ handler' = [Handler("replay", FALSE, 0) EXCEPT !.rest = handler'.rest]
    BY <1>15 DEF Connect, Handler
  <2>2. handler'.at = "replay" /\ ~handler'.initial BY <2>1 DEF Handler
  <2> QED BY <2>1, <2>2
<1>16. CASE Replay
  <2>1. /\ handler.at = "replay" /\ UNCHANGED <<registered, wire, up>>
        /\ \/ handler' = Handler("receive", FALSE, 0)
           \/ handler' = [handler EXCEPT !.rest = Tail(handler.rest)]
    BY <1>16 DEF Replay
  <2>2. handler'.at \in {"replay", "receive"} /\ (handler'.initial => handler.initial)
    <3>1. CASE handler' = Handler("receive", FALSE, 0) BY <3>1 DEF Handler
    <3>2. CASE handler' = [handler EXCEPT !.rest = Tail(handler.rest)] BY <3>2, <2>1, <1>0 DEF Handlers
    <3> QED BY <2>1, <3>1, <3>2
  <2> QED BY <2>1, <2>2
<1>17. CASE ReceiveResync
  <2>1. /\ handler.at = "receive" /\ UNCHANGED <<registered, outq, wire>> /\ up # <<>> /\ up' = Tail(up)
        /\ handler' = Handler("key", FALSE, Head(up))
    BY <1>17 DEF ReceiveResync
  <2>2. handler'.at = "key" /\ ~handler'.initial BY <2>1 DEF Handler
  <2> QED BY <2>1, <2>2
<1>18. CASE Sender BY <1>18 DEF Sender
<1> QED BY <1>1, <1>2, <1>3, <1>4, <1>5, <1>6, <1>7, <1>8, <1>9, <1>10, <1>11, <1>12, <1>13,
           <1>14, <1>15, <1>16, <1>17, <1>18 DEF ServerStep

\* With the socket closed, the server's part of the connection rests.
LEMMA ServerRests ==
  ASSUME HandlerMoves, ConnInv, ~page.open
  PROVE  UNCHANGED connVars
BY DEF HandlerMoves, ConnInv, Asking, connVars

LEMMA UpKept ==
  ASSUME DataTypes, LoopTypes, ConnTypes, PageTypes, ConnInv, CheckpointInv, Next
  PROVE  up' \in Seq(Nat) /\ (~page.open => up' \in {up, <<>>})
<1>1. ASSUME UNCHANGED up PROVE up' \in Seq(Nat) /\ (~page.open => up' \in {up, <<>>})
  BY <1>1 DEF ConnTypes
<1>2. CASE ServerStep
  <2>1. HandlerMoves BY <1>2, ServerMoves
  <2>2. up' = up \/ (up # <<>> /\ up' = Tail(up)) BY <2>1 DEF HandlerMoves
  <2>3. up' \in Seq(Nat)
    <3>1. up \in Seq(Nat) BY DEF ConnTypes
    <3>2. up # <<>> => Tail(up) \in Seq(Nat) BY <3>1
    <3> QED BY <2>2, <3>1, <3>2
  <2>4. ~page.open => up' = up BY <2>1, ServerRests DEF connVars
  <2> QED BY <2>3, <2>4
<1>3. CASE IgnoreSnapshot \/ IgnoreEvent BY <1>1, <1>3, IgnoreEffect
<1>4. CASE RejectSnapshot
  <2>1. page.open BY <1>4, Receipts DEF Receipt
  <2> QED BY <1>4, <2>1, RejectEffect
<1>5. CASE HeartbeatArrives \/ ResyncRequiredArrives \/ GapInEvents
  <2>1. page.open BY <1>5, Receipts DEF Receipt
  <2> QED BY <1>5, <2>1, AskEffect
<1>6. CASE ApplySnapshot BY <1>1, <1>6 DEF ApplySnapshot
<1>7. CASE ApplyEvent BY <1>1, <1>7 DEF ApplyEvent
<1>8. CASE SnapshotWritten BY <1>1, <1>8, SnapshotWrittenEffect
<1>9. CASE EventWritten
  <2>1. busy.row \in Locations BY <1>9 DEF EventWritten, CheckpointInv
  <2> QED BY <1>1, <1>9, <2>1, EventWrittenEffect
<1>10. CASE LoadLocations BY <1>1, <1>10, LoadEffect
<1>11. CASE LocationsLoaded BY <1>1, <1>11, LoadedEffect
<1>12. CASE OpenSocket BY <1>1, <1>12, OpenEffect
<1>13. CASE Disconnection
  <2>1. up' = <<>> BY <1>13, Disconnections DEF Disconnected
  <2> QED BY <2>1
<1> QED BY <1>2, <1>3, <1>4, <1>5, <1>6, <1>7, <1>8, <1>9, <1>10, <1>11, <1>12, <1>13, PageSteps

LEMMA ConnKept ==
  ASSUME DataTypes, LoopTypes, ConnTypes, PageTypes, ConnInv, CheckpointInv, PipeInv, Next
  PROVE  ConnInv'
<1>0. up' \in Seq(Nat) /\ (~page.open => up' \in {up, <<>>}) BY UpKept
<1>1. CASE ServerStep /\ UNCHANGED clientVars
  <2>1. HandlerMoves BY <1>1, ServerMoves
  <2>2. page' = page BY <1>1 DEF clientVars
  <2>3. CASE ~page.open
    <3>1. UNCHANGED connVars BY <2>1, <2>3, ServerRests
    <3> QED BY <2>2, <3>1 DEF ConnInv, connVars
  <2>4. CASE page.open
    <3>1. handler.at # "none" /\ (handler.initial <=> ~registered) BY <2>4 DEF ConnInv
    <3>2. /\ ~registered => outq = <<>>
          /\ handler.at \in {"replay", "receive"} => ~handler.initial
          /\ handler.at = "connect" => handler.initial
          /\ handler.initial /\ handler.at # "connect" => wire = <<>>
      BY DEF ConnInv
    <3>3. ~registered' => outq' = <<>> BY <2>1, <3>1, <3>2 DEF HandlerMoves, Asking
    <3>4. handler'.at # "none" /\ (handler'.initial <=> ~registered')
      <4>1. handler'.at # "none" BY <2>1, <3>1, <3>2 DEF HandlerMoves, Asking
      <4>2. handler'.initial => ~registered' BY <2>1, <3>1, <3>2 DEF HandlerMoves, Asking
      <4>3. ~handler'.initial => registered' BY <2>1, <3>1, <3>2 DEF HandlerMoves, Asking
      <4> QED BY <4>1, <4>2, <4>3
    <3>5. /\ handler'.at \in {"replay", "receive"} => ~handler'.initial
          /\ handler'.at = "connect" => handler'.initial
      BY <2>1, <3>1, <3>2 DEF HandlerMoves, Asking
    <3>6. handler'.initial /\ handler'.at # "connect" => wire' = <<>>
      BY <2>1, <3>1, <3>2 DEF HandlerMoves, Asking
    <3> QED BY <2>2, <2>4, <3>3, <3>4, <3>5, <3>6 DEF ConnInv
  <2> QED BY <2>3, <2>4
<1>2. ASSUME UNCHANGED <<handler, registered, outq, wire>>, page'.open = page.open
      PROVE  ConnInv'
  BY <1>0, <1>2 DEF ConnInv
<1>3. ASSUME Receipt, page'.open = page.open PROVE ConnInv'
  <2>1. page.open /\ wire # <<>> /\ UNCHANGED <<handler, registered, outq>>
    BY <1>3, Receipts DEF Delivered
  <2>2. ~(handler.initial /\ handler.at # "connect") BY <2>1 DEF ConnInv
  <2> QED BY <1>3, <2>1, <2>2 DEF ConnInv
<1>4. CASE IgnoreSnapshot \/ IgnoreEvent BY <1>3, <1>4, IgnoreEffect DEF Receipt
<1>5. CASE RejectSnapshot BY <1>3, <1>5, RejectEffect DEF Receipt
<1>6. CASE HeartbeatArrives \/ ResyncRequiredArrives \/ GapInEvents BY <1>3, <1>6, AskEffect DEF Receipt
<1>7. CASE ApplySnapshot
  <2>1. Head(wire) \in Snapshots
    <3>1. wire # <<>> /\ Head(wire).type = "snapshot" BY <1>7 DEF ApplySnapshot, Incoming
    <3> QED BY <3>1, Heads
  <2>2. page'.open = page.open BY <1>7, <2>1, ApplySnapshotEffect
  <2> QED BY <1>3, <1>7, <2>2 DEF Receipt
<1>8. CASE ApplyEvent
  <2>1. Head(wire) \in Events
    <3>1. wire # <<>> /\ Head(wire).type = "event" BY <1>8 DEF ApplyEvent, Incoming
    <3> QED BY <3>1, Heads
  <2>2. page'.open = page.open BY <1>8, <2>1, ApplyEventEffect
  <2> QED BY <1>3, <1>8, <2>2 DEF Receipt
<1>9. CASE SnapshotWritten
  BY <1>2, <1>9, SnapshotWrittenEffect DEF SnapshotWritten, serverVars, connVars
<1>10. CASE EventWritten
  <2>1. busy.row \in Locations BY <1>10 DEF EventWritten, CheckpointInv
  <2>2. UNCHANGED <<handler, registered, outq, wire>> BY <1>10 DEF EventWritten
  <2> QED BY <1>2, <1>10, <2>1, <2>2, EventWrittenEffect
<1>11. CASE LoadLocations
  BY <1>2, <1>11 DEF LoadLocations, connVars
<1>12. CASE LocationsLoaded
  BY <1>2, <1>12, LoadedEffect DEF LocationsLoaded, serverVars, connVars
<1>13. CASE OpenSocket
  <2>1. /\ ~page.open /\ page'.open BY <1>13, OpenEffect
  <2>2. handler' = Handler("key", TRUE, page.locrev) /\ UNCHANGED <<registered, outq, wire, up>>
    BY <1>13 DEF OpenSocket
  <2>3. handler'.at = "key" /\ handler'.initial BY <2>2 DEF Handler
  <2> QED BY <2>1, <2>2, <2>3 DEF ConnInv
<1>14. CASE Disconnection
  <2>1. Disconnected /\ ~page'.open BY <1>14, Disconnections
  <2>2. handler'.at = "none" /\ ~handler'.initial BY <2>1 DEF Disconnected, NoHandler, Handler
  <2> QED BY <2>1, <2>2 DEF ConnInv, Disconnected
<1> QED BY <1>1, <1>4, <1>5, <1>6, <1>7, <1>8, <1>9, <1>10, <1>11, <1>12, <1>13, <1>14, PageSteps

LEMMA FirstAndBusyKept ==
  ASSUME DataTypes, LoopTypes, ConnTypes, PageTypes, ConnInv, CheckpointInv, PipeInv, FirstInv,
         BusyInv, Next
  PROVE  FirstInv' /\ BusyInv'
<1>0. busy \in Works /\ page.revision \in Nat BY DEF PageTypes, Pages
<1>1. CASE ServerStep /\ UNCHANGED clientVars
  <2>1. HandlerMoves BY <1>1, ServerMoves
  <2>2. page' = page /\ busy' = busy BY <1>1 DEF clientVars
  <2>3. BusyInv' BY <2>2 DEF BusyInv
  <2>4. FirstInv'
    <3> SUFFICES ASSUME page.open, page.first, ~page.pending
                 PROVE  \/ handler'.initial /\ handler'.at # "connect"
                        \/ wire' # <<>> /\ Head(wire').type \in {"snapshot", "resync_required"}
      BY <2>2 DEF FirstInv
    <3>1. CASE handler.initial /\ handler.at # "connect"
      <4>1. ~registered /\ wire = <<>> /\ outq = <<>> BY <3>1 DEF ConnInv
      <4> DEFINE m == IF handler.at = "reply" THEN Snapshot(handler) ELSE ResyncRequired
      <4>2. m.type \in {"snapshot", "resync_required"} BY SnapshotType, ResyncIsMessage
      <4> HIDE DEF m
      <4>3. ASSUME wire' = Append(wire, m) PROVE wire' # <<>> /\ Head(wire') = m
        BY <4>1, <4>3
      <4> QED BY <2>1, <3>1, <4>1, <4>2, <4>3 DEF HandlerMoves, Asking, ConnInv, m
    <3>2. CASE wire # <<>> /\ Head(wire).type \in {"snapshot", "resync_required"}
      <4>1. ~(handler.initial /\ handler.at # "connect") BY <3>2 DEF ConnInv
      <4>2. wire' = wire \/ (outq # <<>> /\ wire' = Append(wire, Head(outq)))
            \/ (handler.initial /\ handler.at # "connect")
        BY <2>1 DEF HandlerMoves
      <4>3. CASE outq # <<>> /\ wire' = Append(wire, Head(outq))
        <5>1. wire \in Seq(Messages) BY DEF ConnTypes
        <5>2. wire' # <<>> /\ Head(wire') = Head(wire) BY <5>1, <4>3, <3>2
        <5> QED BY <3>2, <5>2
      <4> QED BY <3>2, <4>1, <4>2, <4>3
    <3> QED BY <3>1, <3>2 DEF FirstInv
  <2> QED BY <2>3, <2>4
\* A receipt ends a connection's first turn, or asks, or leaves its head.
<1>2. ASSUME Receipt PROVE /\ ~(handler.initial /\ handler.at # "connect") /\ page.open /\ busy = Free
                           /\ busy.kind = "none"
  <2>1. page.open /\ wire # <<>> /\ busy = Free BY <1>2, Receipts
  <2> QED BY <2>1, Frees DEF ConnInv
<1>3. ASSUME UNCHANGED <<handler, wire>>, page'.open = page.open, page'.first = page.first,
             page.pending => page'.pending
      PROVE  FirstInv'
  BY <1>3 DEF FirstInv
<1>4. CASE IgnoreSnapshot
  <2>1. ~page.first /\ UNCHANGED <<page, busy>> BY <1>4, IgnoreEffect DEF IgnoreSnapshot
  <2> QED BY <2>1 DEF FirstInv, BusyInv
<1>5. CASE IgnoreEvent
  <2>1. UNCHANGED <<page, busy>> /\ Head(wire).type = "event" BY <1>5, IgnoreEffect DEF IgnoreEvent, Incoming
  <2>2. ~(page.first /\ ~page.pending) BY <1>2, <1>5, <2>1 DEF FirstInv, Receipt
  <2> QED BY <2>1, <2>2 DEF FirstInv, BusyInv
<1>6. CASE RejectSnapshot
  <2>1. ~page'.first /\ page'.pending /\ busy' = busy BY <1>6, RejectEffect
  <2>2. busy'.kind = "none" BY <1>2, <1>6, <2>1 DEF Receipt
  <2> QED BY <2>1, <2>2 DEF FirstInv, BusyInv
<1>7. CASE HeartbeatArrives
  <2>1. page'.first = page.first /\ (page.pending => page'.pending) /\ busy' = busy /\ page'.old = page.old
    BY <1>7, AskEffect
  <2>2. Head(wire).type = "heartbeat" BY <1>7 DEF HeartbeatArrives, Incoming
  <2>3. ~(page.first /\ ~page.pending) /\ page.open /\ busy.kind = "none" BY <1>2, <1>7, <2>2 DEF FirstInv, Receipt
  <2> QED BY <2>1, <2>3 DEF FirstInv, BusyInv
<1>8. CASE ResyncRequiredArrives \/ GapInEvents
  <2>1. page'.first = page.first /\ busy' = busy /\ page'.old = page.old
    BY <1>8, AskEffect
  <2>2. page'.pending
    <3>1. ~HeartbeatArrives
      BY <1>8 DEF HeartbeatArrives, ResyncRequiredArrives, GapInEvents, Incoming
    <3> QED BY <1>8, <3>1, AskEffect
  <2>3. busy.kind = "none" BY <1>2, <1>8 DEF Receipt
  <2> QED BY <2>1, <2>2, <2>3 DEF FirstInv, BusyInv
<1>9. CASE ApplySnapshot
  <2>1. wire # <<>> /\ Head(wire).type = "snapshot" BY <1>9 DEF ApplySnapshot, Incoming
  <2>2. PICK m \in Snapshots : m = Head(wire) BY <2>1, Heads
  <2>3. ~page'.first /\ ~page'.old /\ (busy' = busy \/ busy'.kind = "snapshot")
    BY <1>9, <2>2, ApplySnapshotEffect
  <2>4. busy.kind = "none" BY <1>2, <1>9 DEF Receipt
  <2> QED BY <2>3, <2>4 DEF FirstInv, BusyInv
<1>10. CASE ApplyEvent
  <2>1. wire # <<>> /\ Head(wire).type = "event" BY <1>10 DEF ApplyEvent, Incoming
  <2>2. PICK m \in Events : m = Head(wire) BY <2>1, Heads
  <2>3. /\ page'.first = page.first /\ page'.old = page.old /\ page'.pending = page.pending
        /\ page'.open = page.open /\ m.rev = page.revision + 1
        /\ \/ page'.revision = m.rev /\ busy' = busy
           \/ page'.revision = page.revision /\ busy'.kind = "event" /\ busy'.rev = m.rev
    BY <1>10, <2>2, ApplyEventEffect
  <2>4. ~(page.first /\ ~page.pending) /\ page.open /\ busy.kind = "none"
    BY <1>2, <1>10, <2>1 DEF FirstInv, Receipt
  <2> QED BY <2>3, <2>4 DEF FirstInv, BusyInv
<1>11. CASE SnapshotWritten
  <2>1. /\ page'.open = page.open /\ page'.first = page.first /\ page'.old = page.old /\ ~page'.pending
        /\ busy.kind = "snapshot" /\ busy' = Free
    BY <1>11, SnapshotWrittenEffect
  <2>2. UNCHANGED <<handler, wire>> BY <1>11 DEF SnapshotWritten, serverVars, connVars
  <2>3. page.open /\ page.first => ~page.pending BY <2>1 DEF BusyInv
  <2> QED BY <2>1, <2>2, <2>3, Frees DEF FirstInv, BusyInv
<1>12. CASE EventWritten
  <2>1. busy.row \in Locations BY <1>12 DEF EventWritten, CheckpointInv
  <2>2. /\ page'.open = page.open /\ page'.first = page.first /\ page'.old = page.old
        /\ page.pending => page'.pending
        /\ busy' = Free
    BY <1>12, <2>1, EventWrittenEffect
  <2>3. UNCHANGED <<handler, wire>> BY <1>12 DEF EventWritten
  <2>4. FirstInv' BY <1>3, <2>2, <2>3
  <2> QED BY <2>2, <2>4, Frees DEF BusyInv
<1>13. CASE LoadLocations
  <2>1. UNCHANGED <<page, busy, handler, wire>> BY <1>13 DEF LoadLocations, connVars
  <2> QED BY <2>1 DEF FirstInv, BusyInv
<1>14. CASE LocationsLoaded
  <2>1. /\ page'.open = page.open /\ page'.first = page.first /\ page'.old = page.old
        /\ page.pending = page'.pending /\ busy' = busy /\ page'.revision = page.revision
    BY <1>14, LoadedEffect
  <2>2. UNCHANGED <<handler, wire>> BY <1>14 DEF LocationsLoaded, serverVars, connVars
  <2> QED BY <1>3, <2>1, <2>2 DEF BusyInv
<1>15. CASE OpenSocket
  <2>1. page'.first /\ ~page'.pending /\ page'.revision = page.revision /\ busy' = busy
    BY <1>15, OpenEffect
  <2>2. handler' = Handler("key", TRUE, page.locrev) BY <1>15 DEF OpenSocket
  <2>3. handler'.at = "key" /\ handler'.initial BY <2>2 DEF Handler
  <2> QED BY <2>1, <2>3 DEF FirstInv, BusyInv
<1>16. CASE Disconnection
  <2>1. ~page'.open BY <1>16, Disconnections
  <2>2. busy' = Free \/ (busy' = busy /\ page'.revision = page.revision)
    <3>1. CASE ReloadPage BY <3>1, ReloadEffect
    <3>2. CASE LoseConnection \/ RestartServer BY <3>2, CloseEffect
    <3> QED BY <1>16, <3>1, <3>2 DEF Disconnection
  <2> QED BY <2>1, <2>2, Frees DEF FirstInv, BusyInv
<1> QED BY <1>1, <1>4, <1>5, <1>6, <1>7, <1>8, <1>9, <1>10, <1>11, <1>12, <1>13, <1>14, <1>15, <1>16,
           PageSteps

-----------------------------------------------------------------------------
(* The revision *)

Follows(n, view) ==
    /\ n <= Revision
    /\ \A i \in 1..n : history[i].row \in Orders => history[i].ver <= view[history[i].row]
Noted(b, view) ==
    b.kind = "event" =>
        /\ b.rev <= Revision /\ b.row \in Locations
        /\ history[b.rev].row = b.row /\ history[b.rev].ver = b.ver
        /\ b.ver <= view[b.row]

LEMMA FollowsKept ==
  ASSUME LoopTypes, EventsGrow, NEW n \in Nat, NEW view, Follows(n, view)
  PROVE  Follows(n, view)'
<1>1. Revision \in Nat /\ Revision' \in Nat /\ Revision <= Revision'
  BY DEF EventsGrow, LoopTypes, Revision
<1>2. \A i \in 1..n : history'[i] = history[i] BY <1>1 DEF Follows, EventsGrow
<1> QED BY <1>1, <1>2 DEF Follows

LEMMA NotedKept ==
  ASSUME LoopTypes, EventsGrow, NEW b \in Works, NEW view, Noted(b, view),
         b.kind = "event" => b.rev # 0
  PROVE  Noted(b, view)'
<1>1. Revision \in Nat /\ Revision' \in Nat /\ Revision <= Revision'
  BY DEF EventsGrow, LoopTypes, Revision
<1>2. b.rev \in Nat BY DEF Works
<1>3. b.kind = "event" => history'[b.rev] = history[b.rev] BY <1>1, <1>2 DEF Noted, EventsGrow
<1> QED BY <1>1, <1>2, <1>3 DEF Noted

LEMMA FollowsMore ==
  ASSUME LoopTypes, NEW n \in Nat, NEW v \in [Rows -> Versions], NEW w \in [Rows -> Versions],
         Follows(n, v), \A r \in Orders : v[r] <= w[r]
  PROVE  Follows(n, w)
<1>1. \A r \in Orders : v[r] \in Nat /\ w[r] \in Nat BY RowsApart, LimitsAssumption DEF Versions
<1>2. ASSUME NEW i \in 1..n, history[i].row \in Orders PROVE history[i].ver <= w[history[i].row]
  <2>1. i \in 1..Revision
    <3>1. Revision \in Nat BY DEF LoopTypes, Revision
    <3> QED BY <3>1 DEF Follows
  <2>2. history[i].ver \in Nat
    <3>1. history[i] \in Entries BY <2>1 DEF LoopTypes, Revision
    <3> QED BY <3>1, LimitsAssumption DEF Entries, Versions
  <2> QED BY <1>1, <1>2, <2>2 DEF Follows
<1> QED BY <1>2 DEF Follows

LEMMA RevisionKept ==
  ASSUME DataTypes, LoopTypes, ConnTypes, PageTypes, CheckpointInv, PipeInv, BusyInv,
         RevisionInv, Next, PageTypes'
  PROVE  RevisionInv'
<1>1. CASE RestartServer
  <2>1. page'.old BY <1>1, CloseEffect
  <2> QED BY <2>1 DEF RevisionInv
<1>2. CASE ~RestartServer
  <2>1. EventsGrow BY <1>2, EventsGrown
  <2>2. page' \in Pages /\ busy' \in Works /\ page \in Pages /\ busy \in Works BY DEF PageTypes
  <2>3. At' \in Nat BY <2>2 DEF At, Pages, Works
  <2>4. PICK n \in Nat, p \in Pages, b \in Works : n = At' /\ p = page' /\ b = busy' BY <2>2, <2>3
  <2>5. n = IF b.kind = "snapshot" THEN b.rev ELSE p.revision BY <2>4 DEF At
  <2>6. SUFFICES ASSUME ~p.old
                 PROVE  Follows(n, p.view) /\ Noted(b, p.view) /\ (b.kind = "event" => b.rev # 0)
    <3>1. CASE p.old BY <3>1, <2>4 DEF RevisionInv
    <3>2. CASE ~p.old
      <4>1. Follows(n, p.view) /\ Noted(b, p.view) /\ (b.kind = "event" => b.rev # 0) BY <3>2, <2>6
      <4>2. Follows(n, p.view)' /\ Noted(b, p.view)' BY <4>1, <2>1, FollowsKept, NotedKept
      <4> QED BY <4>2, <2>4 DEF RevisionInv, Follows, Noted
    <3> QED BY <3>1, <3>2
  <2>7. ~page.old => Follows(At, page.view) /\ Noted(busy, page.view) BY DEF RevisionInv, Follows, Noted
  <2>8. busy.kind = "event" => busy.rev = page.revision + 1 BY DEF BusyInv
  <2>9. page.revision \in Nat /\ page.view \in [Rows -> Versions] /\ p.view \in [Rows -> Versions]
        /\ At \in Nat
    BY <2>2 DEF Pages, Works, At
  <2>a. \A r \in Rows : page.view[r] \in Nat /\ p.view[r] \in Nat BY <2>9, LimitsAssumption DEF Versions
  <2>10. ASSUME page'.revision = page.revision, busy' = busy, page'.old = page.old, page'.view = page.view
         PROVE  Follows(n, p.view) /\ Noted(b, p.view) /\ (b.kind = "event" => b.rev # 0)
    BY <2>4, <2>5, <2>6, <2>7, <2>8, <2>9, <2>10 DEF At
  <2>11. CASE ServerStep /\ UNCHANGED clientVars BY <2>10, <2>11 DEF clientVars
  <2>12. CASE IgnoreSnapshot \/ IgnoreEvent BY <2>10, <2>12, IgnoreEffect
  <2>13. CASE RejectSnapshot BY <2>10, <2>13, RejectEffect
  <2>14. CASE HeartbeatArrives \/ ResyncRequiredArrives \/ GapInEvents BY <2>10, <2>14, AskEffect
  <2>15. CASE ApplySnapshot
    <3>1. wire # <<>> /\ Head(wire).type = "snapshot" /\ busy = Free BY <2>15 DEF ApplySnapshot, Incoming
    <3>2. PICK m \in Snapshots : m = Head(wire) /\ Covers(m.omitted, m.locrev, m.rev, m.rows)
      BY <3>1, Heads
    <3>3. m.rows \in [Rows -> Versions] /\ m.rev \in Nat BY DEF Snapshots
    <3> DEFINE R == IF m.omitted THEN Orders ELSE Rows
    <3>4. p.view = Merge(page.view, m.rows, R) /\ n = m.rev /\ b.kind # "event"
      BY <2>4, <2>5, <2>15, <3>1, <3>2, ApplySnapshotEffect, Frees
    <3>5. \A r \in Orders : r \in R /\ r \in Rows BY RowsApart
    <3>6. \A r \in Orders : m.rows[r] <= p.view[r]
      <4> TAKE r \in Orders
      <4>1. r \in R /\ r \in Rows BY <3>5
      <4> HIDE DEF R
      <4>2. CASE m.rows[r] = 0 BY <4>2, <4>1, <2>a
      <4>3. CASE m.rows[r] # 0 BY <4>3, <4>1, <2>9, <3>3, <3>4, Merged
      <4> QED BY <4>2, <4>3
    <3>7. Follows(m.rev, m.rows) BY <3>2 DEF Covers, Follows
    <3>8. Follows(n, p.view) BY <3>3, <3>4, <3>6, <3>7, <2>9, FollowsMore
    <3> QED BY <3>4, <3>8 DEF Noted
  <2>16. CASE ApplyEvent
    <3>1. wire # <<>> /\ Head(wire).type = "event" /\ busy = Free BY <2>16 DEF ApplyEvent, Incoming
    <3>2. PICK m \in Events : m = Head(wire) /\ m.rev \in 1..Revision /\ m.row = history[m.rev].row
                              /\ m.ver = history[m.rev].ver
      BY <3>1, Heads
    <3>3. /\ p.old = page.old /\ m.rev = page.revision + 1
          /\ \A r \in Rows : IF r = m.row
                             THEN page.view[r] <= p.view[r] /\ m.ver <= p.view[r]
                             ELSE p.view[r] = page.view[r]
          /\ \/ m.row \notin Locations /\ p.revision = m.rev /\ b = busy
             \/ /\ m.row \in Locations /\ p.revision = page.revision
                /\ b.kind = "event" /\ b.rev = m.rev /\ b.row = m.row /\ b.ver = m.ver
      BY <2>4, <2>16, <3>2, ApplyEventEffect
    <3>4. Follows(page.revision, page.view) BY <2>6, <2>7, <3>1, <3>3, Frees DEF At
    <3>5. \A r \in Orders : page.view[r] <= p.view[r] BY <3>3, <2>a, RowsApart
    <3>6. Follows(page.revision, p.view) BY <3>4, <3>5, <2>9, FollowsMore
    <3>7. CASE m.row \notin Locations
      <4>1. n = m.rev /\ b.kind = "none" BY <3>1, <3>3, <3>7, <2>5, Frees
      <4>2. \A i \in 1..n : i \in 1..page.revision \/ i = m.rev BY <4>1, <3>3, <2>9
      <4>3. history[m.rev].row \in Orders => history[m.rev].ver <= p.view[history[m.rev].row]
        BY <3>2, <3>3, RowsApart
      <4>4. n <= Revision BY <4>1, <3>2 DEF LoopTypes, Revision
      <4>5. Follows(n, p.view) BY <3>6, <4>2, <4>3, <4>4 DEF Follows
      <4> QED BY <4>1, <4>5 DEF Noted
    <3>8. CASE m.row \in Locations
      <4>1. n = page.revision BY <3>3, <3>8, <2>5
      <4>2. Noted(b, p.view)
        <5>1. b.rev = m.rev /\ b.row = m.row /\ b.ver = m.ver BY <3>3, <3>8
        <5>2. m.ver <= p.view[m.row] BY <3>3, <3>8, RowsApart
        <5>3. m.rev <= Revision BY <3>2
        <5> QED BY <5>1, <5>2, <5>3, <3>2, <3>8 DEF Noted
      <4>3. b.rev # 0 BY <3>3, <3>8, <2>9
      <4> QED BY <4>1, <4>2, <4>3, <3>6
    <3> QED BY <3>7, <3>8
  <2>17. CASE SnapshotWritten
    <3>1. /\ busy.kind = "snapshot" /\ b = Free /\ p.old = page.old /\ p.view = page.view
          /\ p.revision = busy.rev
      BY <2>4, <2>17, SnapshotWrittenEffect
    <3>2. n = At BY <3>1, <2>5, Frees DEF At
    <3> QED BY <3>1, <3>2, <2>6, <2>7, Frees DEF Noted
  <2>18. CASE EventWritten
    <3>0. busy.row \in Locations BY <2>18 DEF EventWritten, CheckpointInv
    <3>1. /\ busy.kind = "event" /\ b = Free /\ p.old = page.old /\ p.view = page.view
          /\ p.revision = busy.rev
      BY <2>4, <2>18, <3>0, EventWrittenEffect
    <3>2. n = page.revision + 1 /\ n = busy.rev /\ At = page.revision BY <3>1, <2>5, <2>8, Frees DEF At
    <3>3. Follows(page.revision, page.view) /\ Noted(busy, page.view) BY <2>6, <2>7, <3>1, <3>2
    <3>4. \A i \in 1..n : i \in 1..page.revision \/ i = n BY <3>2, <2>9
    <3>5. history[n].row \notin Orders /\ n <= Revision BY <3>1, <3>2, <3>3, RowsApart DEF Noted
    <3>6. Follows(n, p.view) BY <3>1, <3>3, <3>4, <3>5 DEF Follows
    <3> QED BY <3>1, <3>6, Frees DEF Noted
  <2>19. CASE LoadLocations BY <2>10, <2>19, LoadEffect
  <2>20. CASE LocationsLoaded
    <3>1. /\ b = busy /\ p.old = page.old /\ p.revision = page.revision
          /\ p.view = page.view \/ p.view = Merge(page.view, http.rows, Locations)
      BY <2>4, <2>20, LoadedEffect
    <3>2. http.rows \in [Rows -> Versions] BY DEF PageTypes, Loads
    <3>3. \A r \in Rows : page.view[r] <= p.view[r]
      <4>1. CASE p.view = page.view BY <4>1, <2>a
      <4>2. CASE p.view = Merge(page.view, http.rows, Locations)
        BY <4>2, <3>2, <2>9, <2>a, Merged, RowsApart
      <4> QED BY <3>1, <4>1, <4>2
    <3>4. n = At BY <3>1, <2>5 DEF At
    <3>5. Follows(n, p.view) BY <3>1, <3>3, <3>4, <2>6, <2>7, <2>9, RowsApart, FollowsMore
    <3>6. Noted(b, p.view)
      <4> SUFFICES ASSUME b.kind = "event" PROVE b.ver <= p.view[b.row]
        BY <3>1, <2>6, <2>7 DEF Noted
      <4>1. b.row \in Rows /\ b.ver <= page.view[b.row] BY <3>1, <2>6, <2>7, RowsApart DEF Noted
      <4>2. b.ver \in Nat BY LimitsAssumption DEF Works, Versions
      <4> QED BY <4>1, <4>2, <3>3, <2>a
    <3> QED BY <3>1, <3>5, <3>6, <2>8, <2>9
  <2>21. CASE OpenSocket BY <2>10, <2>21, OpenEffect
  <2>22. CASE Disconnection
    <3>1. CASE ReloadPage
      <4>1. b = Free /\ p.revision = 0 BY <2>4, <3>1, ReloadEffect
      <4>2. n = 0 BY <4>1, <2>5, Frees
      <4> QED BY <4>1, <4>2, Frees DEF Follows, Noted, LoopTypes, Revision
    <3>2. CASE LoseConnection
      <4>1. b = busy /\ p.revision = page.revision /\ p.view = page.view /\ p.old = page.old
        BY <2>4, <3>2, CloseEffect
      <4> QED BY <4>1, <2>10, <2>4
    <3> QED BY <1>2, <2>22, <3>1, <3>2 DEF Disconnection
  <2> QED BY <2>11, <2>12, <2>13, <2>14, <2>15, <2>16, <2>17, <2>18, <2>19, <2>20, <2>21, <2>22,
             PageSteps
<1> QED BY <1>1, <1>2

-----------------------------------------------------------------------------
(* What is shown *)

\* Where the rows of a snapshot that is being built come from.
Answering(h) == h.at \in {"check", "reply"}
SameAnswer ==
    /\ handler'.rows = handler.rows /\ handler'.n = handler.n /\ handler'.k = handler.k
    /\ handler'.omit = handler.omit

LEMMA Answers ==
  ASSUME ConnTypes, DataTypes, Next, Answering(handler')
  PROVE  \/ handler' = handler
         \/ /\ SnapshotCheck /\ handler.at = "check" /\ handler'.at = "reply" /\ handler.k = locrev
            /\ SameAnswer
         \/ /\ SnapshotRows /\ handler'.at = "check" /\ handler'.n = handler.n /\ handler'.k = handler.k
            /\ handler'.omit = handler.omit /\ handler.at = "rows"
            /\ \A r \in Rows : handler'.rows[r] = IF handler.omit /\ r \in Locations THEN 0 ELSE db[r]
<1>0. handler \in Handlers BY DEF ConnTypes
<1> USE DEF Answering
<1>1. CASE SnapshotKey
  <2>1. handler' = [handler EXCEPT !.at = "revision", !.k = locrev, !.omit = (handler.ck = locrev)]
    BY <1>1 DEF SnapshotKey
  <2> QED BY <2>1, <1>0 DEF Handlers
<1>2. CASE SnapshotRevision
  <2>1. handler' = [handler EXCEPT !.at = "rows", !.n = Revision] BY <1>2 DEF SnapshotRevision
  <2> QED BY <2>1, <1>0 DEF Handlers
<1>3. CASE SnapshotRows
  <2> DEFINE rows == [r \in Rows |-> IF handler.omit /\ r \in Locations THEN 0 ELSE db[r]]
  <2>1. handler.at = "rows" /\ handler' = [handler EXCEPT !.at = "check", !.rows = rows]
    BY <1>3 DEF SnapshotRows
  <2>2. \A r \in Rows : rows[r] = IF handler.omit /\ r \in Locations THEN 0 ELSE db[r] OBVIOUS
  <2> HIDE DEF rows
  <2>3. /\ handler'.at = "check" /\ handler'.n = handler.n /\ handler'.k = handler.k
        /\ handler'.omit = handler.omit /\ handler'.rows = rows
    BY <2>1, <1>0 DEF Handlers
  <2> QED BY <1>3, <2>1, <2>2, <2>3
<1>4. CASE SnapshotCheck
  <2>1. /\ handler.at = "check"
        /\ \/ handler.k = locrev /\ handler' = [handler EXCEPT !.at = "reply", !.attempt = 1, !.ck = 0]
           \/ handler' = [Handler("key", handler.initial, 0) EXCEPT !.attempt = handler.attempt + 1]
           \/ handler' = [Handler("give_up", handler.initial, 0) EXCEPT !.n = Revision]
    BY <1>4 DEF SnapshotCheck
  <2>2. CASE handler.k = locrev /\ handler' = [handler EXCEPT !.at = "reply", !.attempt = 1, !.ck = 0]
    <3>1. handler'.at = "reply" /\ SameAnswer BY <2>2, <1>0 DEF Handlers, SameAnswer
    <3> QED BY <1>4, <2>1, <2>2, <3>1
  <2>3. CASE handler' = [Handler("key", handler.initial, 0) EXCEPT !.attempt = handler.attempt + 1]
    BY <2>3 DEF Handler
  <2>4. CASE handler' = [Handler("give_up", handler.initial, 0) EXCEPT !.n = Revision]
    BY <2>4 DEF Handler
  <2> QED BY <2>1, <2>2, <2>3, <2>4
<1>5. CASE Reply
  <2>1. \/ handler' = [Handler("connect", TRUE, 0) EXCEPT !.n = handler.n]
        \/ handler' = Handler("receive", FALSE, 0)
    BY <1>5 DEF Reply
  <2> QED BY <2>1 DEF Handler
<1>6. CASE Connect
  <2>1. handler' = [Handler("replay", FALSE, 0) EXCEPT !.rest = handler'.rest]
    BY <1>6 DEF Connect, Handler
  <2> QED BY <2>1 DEF Handler
<1>7. CASE Replay
  <2>1. /\ handler.at = "replay"
        /\ \/ handler' = Handler("receive", FALSE, 0)
           \/ handler' = [handler EXCEPT !.rest = Tail(handler.rest)]
    BY <1>7 DEF Replay
  <2>2. CASE handler' = Handler("receive", FALSE, 0) BY <2>2 DEF Handler
  <2>3. CASE handler' = [handler EXCEPT !.rest = Tail(handler.rest)] BY <2>1, <2>3, <1>0 DEF Handlers
  <2> QED BY <2>1, <2>2, <2>3
<1>8. CASE ReceiveResync
  <2>1. handler' = Handler("key", FALSE, Head(up)) BY <1>8 DEF ReceiveResync
  <2> QED BY <2>1 DEF Handler
<1>9. CASE OpenSocket
  <2>1. handler' = Handler("key", TRUE, page.locrev) BY <1>9 DEF OpenSocket
  <2> QED BY <2>1 DEF Handler
<1>10. CASE Disconnection
  <2>1. handler' = NoHandler
    BY <1>10 DEF Disconnection, LoseConnection, RestartServer, ReloadPage, Disconnected
  <2> QED BY <2>1 DEF NoHandler, Handler
<1> QED BY <1>1, <1>2, <1>3, <1>4, <1>5, <1>6, <1>7, <1>8, <1>9, <1>10, HandlerSteps

LEMMA AfterKept ==
  ASSUME LoopTypes, EventsGrow, PageTypes, PageTypes', page.revision <= page'.revision,
         NEW n \in Nat, NEW r, After(n, r)
  PROVE  After(n, r)'
<1>1. Revision \in Nat /\ Revision' \in Nat /\ Revision <= Revision'
  BY DEF EventsGrow, LoopTypes, Revision
<1>2. page.revision \in Nat /\ page'.revision \in Nat BY DEF PageTypes, Pages
<1>3. PICK i \in 1..Revision : n < i /\ i <= page.revision /\ history[i].row = r BY DEF After
<1>4. i \in 1..Revision' /\ history'[i].row = r /\ i <= page'.revision BY <1>1, <1>2, <1>3 DEF EventsGrow
<1> QED BY <1>3, <1>4 DEF After

LEMMA ShowsFrom ==
  ASSUME LoopTypes, EventsGrow, PageTypes, PageTypes', page.revision <= page'.revision,
         Outright' => Outright,
         \A r \in Orders : page'.view[r] > 0 => page.view[r] > 0,
         NEW rows, NEW n \in Nat, Shows(rows, n)
  PROVE  Shows(rows, n)'
<1> SUFFICES ASSUME NEW r \in Orders, page'.view[r] > 0
             PROVE  rows[r] > 0 \/ (~Outright' /\ After(n, r)')
  BY DEF Shows
<1>1. rows[r] > 0 \/ (~Outright /\ After(n, r)) BY DEF Shows
<1>2. CASE ~Outright /\ After(n, r) BY <1>2, AfterKept
<1> QED BY <1>1, <1>2

\* What a snapshot must show changes only with the page.
LEMMA ShowsKept ==
  ASSUME DataTypes, LoopTypes, ConnTypes, PageTypes, PageTypes', CheckpointInv, PipeInv,
         ConnInv, FirstInv, BusyInv, Next,
         ~Disconnection, ~OpenSocket, ~ApplySnapshot,
         NEW rows \in [Rows -> Versions], NEW n \in Nat, NEW omitted, NEW k,
         Covers(omitted, k, n, rows), Shows(rows, n)
  PROVE  Shows(rows, n)'
<1>1. EventsGrow BY EventsGrown DEF Disconnection
<1>2. /\ page \in Pages /\ page' \in Pages /\ page.revision \in Nat /\ page'.revision \in Nat
      /\ \A r \in Orders : page.view[r] \in Nat /\ page'.view[r] \in Nat /\ rows[r] \in Nat
  BY RowsApart, LimitsAssumption DEF PageTypes, Pages, Versions
<1>3. ASSUME page'.revision = page.revision, page'.view = page.view, Outright' => Outright
      PROVE  Shows(rows, n)'
  BY <1>1, <1>2, <1>3, ShowsFrom
<1>4. CASE ServerStep /\ UNCHANGED clientVars BY <1>3, <1>4 DEF clientVars, Outright
<1>5. CASE IgnoreSnapshot \/ IgnoreEvent BY <1>3, <1>5, IgnoreEffect DEF Outright
<1>6. CASE RejectSnapshot BY <1>3, <1>6, RejectEffect DEF Outright
<1>7. CASE HeartbeatArrives \/ ResyncRequiredArrives \/ GapInEvents
  BY <1>3, <1>7, AskEffect DEF Outright
<1>8. CASE ApplyEvent
  <2>1. wire # <<>> /\ Head(wire).type = "event" /\ page.open /\ busy = Free
    BY <1>8 DEF ApplyEvent, Incoming
  <2>2. PICK m \in Events : m = Head(wire) /\ m.rev \in 1..Revision /\ m.row = history[m.rev].row
                            /\ m.ver = history[m.rev].ver
    BY <2>1, Heads
  <2>3. /\ page'.first = page.first /\ page'.pending = page.pending /\ m.rev = page.revision + 1
        /\ \A r \in Rows : IF r = m.row THEN page'.view[r] \in {page.view[r], m.ver}
                           ELSE page'.view[r] = page.view[r]
        /\ \/ m.row \notin Locations /\ page'.revision = m.rev /\ busy' = busy
           \/ m.row \in Locations /\ page'.revision = page.revision /\ busy'.kind = "event"
    BY <1>8, <2>2, ApplyEventEffect
  <2>4. ~(handler.initial /\ handler.at # "connect") BY <2>1 DEF ConnInv
  <2>5. ~(page.first /\ ~page.pending) BY <2>1, <2>4 DEF FirstInv
  <2>6. ~Outright /\ ~Outright' BY <2>1, <2>3, <2>5, Frees DEF Outright
  <2>7. page.revision <= page'.revision BY <2>3, <1>2
  <2> SUFFICES ASSUME NEW r \in Orders, page'.view[r] > 0 PROVE rows[r] > 0 \/ After(n, r)'
    BY <2>6 DEF Shows
  <2>8. CASE page'.view[r] = page.view[r]
    <3>1. rows[r] > 0 \/ After(n, r) BY <2>8 DEF Shows
    <3> QED BY <3>1, <1>1, <2>7, AfterKept
  <2>9. CASE r = m.row /\ page'.view[r] = m.ver
    <3>1. page'.revision = m.rev BY <2>3, <2>9, RowsApart
    <3>2. CASE n < m.rev
      <4>1. m.rev \in 1..Revision' /\ history'[m.rev].row = r
        <5>1. Revision \in Nat /\ Revision' \in Nat /\ Revision <= Revision'
          BY <1>1 DEF EventsGrow, LoopTypes, Revision
        <5> QED BY <5>1, <1>1, <2>2, <2>9 DEF EventsGrow
      <4>2. m.rev <= page'.revision BY <3>1, <1>2
      <4> QED BY <3>2, <4>1, <4>2 DEF After
    <3>3. CASE ~(n < m.rev)
      <4>1. m.rev \in 1..n BY <3>3, <2>2
      <4>2. m.ver <= rows[r] BY <4>1, <2>2, <2>9 DEF Covers
      <4>3. m.ver > 0 /\ m.ver \in Nat BY <2>9, <1>2
      <4> QED BY <4>2, <4>3, <1>2
    <3> QED BY <3>2, <3>3
  <2> QED BY <2>3, <2>8, <2>9, RowsApart
<1>9. CASE SnapshotWritten
  <2>1. busy.kind = "snapshot" /\ page'.view = page.view BY <1>9, SnapshotWrittenEffect
  <2> QED BY <2>1 DEF Shows, Outright
<1>10. CASE EventWritten
  <2>1. busy.row \in Locations BY <1>10 DEF EventWritten, CheckpointInv
  <2>2. /\ busy.kind = "event" /\ busy' = Free /\ page'.open = page.open /\ page'.first = page.first
        /\ page'.view = page.view /\ page'.revision = busy.rev /\ (page.pending => page'.pending)
    BY <1>10, <2>1, EventWrittenEffect
  <2>3. page'.revision = page.revision + 1 BY <2>2 DEF BusyInv
  <2>4. Outright' => Outright BY <2>2, Frees DEF Outright
  <2> QED BY <1>1, <1>2, <2>2, <2>3, <2>4, ShowsFrom
<1>11. CASE LoadLocations BY <1>3, <1>11, LoadEffect DEF Outright
<1>12. CASE LocationsLoaded
  <2>1. /\ page'.open = page.open /\ page'.first = page.first /\ page'.pending = page.pending
        /\ page'.revision = page.revision /\ busy' = busy
        /\ page'.view = page.view \/ page'.view = Merge(page.view, http.rows, Locations)
    BY <1>12, LoadedEffect
  <2>2. page.view \in [Rows -> Versions] /\ http.rows \in [Rows -> Versions] BY DEF PageTypes, Pages, Loads
  <2>3. \A r \in Orders : page'.view[r] = page.view[r]
    <3>1. CASE page'.view = page.view BY <3>1
    <3>2. CASE page'.view = Merge(page.view, http.rows, Locations)
      BY <3>2, <2>2, Merged, RowsApart
    <3> QED BY <2>1, <3>1, <3>2
  <2>4. Outright' => Outright BY <2>1 DEF Outright
  <2> QED BY <1>1, <1>2, <2>1, <2>3, <2>4, ShowsFrom
<1> QED BY <1>4, <1>5, <1>6, <1>7, <1>8, <1>9, <1>10, <1>11, <1>12, PageSteps

\* After a snapshot the page shows orders of it, and those that come after it have them.
LEMMA ShowsApplied ==
  ASSUME DataTypes, LoopTypes, ConnTypes, PageTypes, PipeInv, ApplySnapshot,
         NEW m \in Snapshots, m = Head(wire),
         NEW rows \in [Rows -> Versions], NEW n \in Nat, \A r \in Orders : m.rows[r] <= rows[r]
  PROVE  Shows(rows, n)'
<1>1. page'.view = Merge(page.view, m.rows, IF m.omitted THEN Orders ELSE Rows)
  BY ApplySnapshotEffect
<1>2. page.view \in [Rows -> Versions] /\ m.rows \in [Rows -> Versions] BY DEF PageTypes, Pages, Snapshots
<1>3. \A r \in Orders : m.rows[r] \in Nat /\ rows[r] \in Nat
  BY <1>2, RowsApart, LimitsAssumption DEF Versions
<1>4. \A r \in Orders : m.rows[r] = 0 => page'.view[r] = 0 BY <1>1, <1>2, RowsApart, Merged
<1> SUFFICES ASSUME NEW r \in Orders, page'.view[r] > 0 PROVE rows[r] > 0 BY DEF Shows
<1>5. m.rows[r] # 0 BY <1>4
<1> QED BY <1>3, <1>5

\* Where the snapshots in the pipe come from.
SnapshotFlow(d) ==
    /\ Receipt <=> d = 1
    /\ Notice(d) => Notice(0)'
    /\ \A j \in 1..Len(Pipe') : Pipe'[j].type = "snapshot" =>
          \/ j + d \in 1..Len(Pipe) /\ Pipe'[j] = Pipe[j + d] /\ (Notice(j + d) => Notice(j)')
          \/ /\ j = Len(Pipe') /\ Reply /\ handler.at = "reply" /\ Pipe'[j] = Snapshot(handler)
             /\ UNCHANGED clientVars

LEMMA SnapshotsFlow ==
  ASSUME LoopTypes, LoopTypes', ConnTypes, PageTypes, LoopInv, HandlerInv, ConnInv, Next,
         DataTypes, DataTypes', DataInv, CountedInv, ~Disconnection
  PROVE  SnapshotFlow(0) \/ SnapshotFlow(1)
<1>0. Len(Pipe) \in Nat BY PipeType
<1>1. CASE Receipt /\ Flows(1, {}) BY <1>0, <1>1 DEF SnapshotFlow, Flows
<1>2. CASE ~Receipt /\ ServerFlow /\ UNCHANGED clientVars
  <2>1. CASE \E m \in Messages : Flows(0, {m, ResyncRequired}) /\ m.type # "snapshot" /\ Valid(m)'
    <3>1. PICK m \in Messages : Flows(0, {m, ResyncRequired}) /\ m.type # "snapshot" BY <2>1
    <3> QED BY <1>0, <1>2, <3>1, ResyncIsMessage DEF SnapshotFlow, Flows
  <2>2. CASE Reply /\ handler.at = "reply" /\ Flows(0, {Snapshot(handler)})
    BY <1>0, <1>2, <2>2 DEF SnapshotFlow, Flows
  <2> QED BY <1>2, <2>1, <2>2 DEF ServerFlow
<1>3. CASE ~Receipt /\ Pipe' = Pipe
  <2>1. Flows(0, {}) BY <1>3, StillFlows
  <2> QED BY <1>0, <1>3, <2>1 DEF SnapshotFlow, Flows
<1> QED BY <1>1, <1>2, <1>3, PipeFlows

LEMMA PipeSnapshots ==
  ASSUME ConnTypes, PipeInv, NEW i \in 1..Len(Pipe), Pipe[i].type = "snapshot"
  PROVE  /\ Pipe[i] \in Snapshots
         /\ Pipe[i].rows \in [Rows -> Versions] /\ Pipe[i].rev \in Nat
         /\ Covers(Pipe[i].omitted, Pipe[i].locrev, Pipe[i].rev, Pipe[i].rows)
<1>1. Pipe[i] \in Messages BY PipeType
<1>2. PICK m \in Messages : m = Pipe[i] BY <1>1
<1>3. m \in Snapshots BY <1>2 DEF Messages, Events, Beats, Notices
<1> QED BY <1>2, <1>3 DEF Snapshots, PipeInv, Valid

LEMMA ShownKept ==
  ASSUME DataTypes, LoopTypes, ConnTypes, PageTypes, DataInv, CountedInv, LoopInv, PipeInv, HandlerInv,
         ConnInv, FirstInv, BusyInv, CheckpointInv, ShownInv, Next,
         DataTypes', LoopTypes', PageTypes', CheckpointInv'
  PROVE  ShownInv'
<1>1. CASE Disconnection
  <2>1. Pipe' = <<>> /\ handler' = NoHandler BY <1>1, Disconnections DEF Disconnected
  <2>2. handler'.at = "none" BY <2>1 DEF NoHandler, Handler
  <2> QED BY <2>1, <2>2 DEF ShownInv
<1>2. CASE ~Disconnection /\ OpenSocket
  <2>1. ~page.open /\ UNCHANGED <<outq, wire>> /\ handler' = Handler("key", TRUE, page.locrev)
    BY <1>2 DEF OpenSocket
  <2>2. Pipe' = <<>> BY <2>1 DEF ConnInv, Pipe
  <2>3. handler'.at = "key" BY <2>1 DEF Handler
  <2> QED BY <2>2, <2>3 DEF ShownInv
<1>3. CASE ~Disconnection /\ ~OpenSocket
  <2>1. PICK d \in {0, 1} : SnapshotFlow(d) BY <1>3, SnapshotsFlow
  <2> DEFINE Head1 == Head(wire)
             Ordered(u, v) == \A r \in Orders : u[r] <= v[r]
             Apart(rows) == ApplySnapshot => Ordered(Head1.rows, rows)
             OfPipe(i) == i \in 1..Len(Pipe) /\ Pipe[i].type = "snapshot"
  <2>2. ASSUME NEW rows \in [Rows -> Versions], NEW n \in Nat, NEW omitted, NEW k,
               Covers(omitted, k, n, rows), Shows(rows, n), Apart(rows)
        PROVE  Shows(rows, n)'
    <3>1. CASE ~ApplySnapshot BY <1>3, <2>2, <3>1, ShowsKept
    <3>2. CASE ApplySnapshot
      <4>1. wire # <<>> /\ Head(wire).type = "snapshot" BY <3>2 DEF ApplySnapshot, Incoming
      <4>2. PICK m \in Snapshots : m = Head(wire) BY <4>1, Heads
      <4>3. \A r \in Orders : m.rows[r] <= rows[r] BY <2>2, <3>2, <4>2
      <4> QED BY <3>2, <4>2, <4>3, ShowsApplied
    <3> QED BY <3>1, <3>2
  <2>3. ASSUME NEW i, OfPipe(i) PROVE Shows(Pipe[i].rows, Pipe[i].rev)
    BY <2>3 DEF ShownInv
  <2>4. ASSUME NEW i, NEW j, OfPipe(i), OfPipe(j), i < j PROVE Ordered(Pipe[i].rows, Pipe[j].rows)
    <3>1. j \in i+1..Len(Pipe) BY <2>4, PipeType
    <3> QED BY <2>4, <3>1 DEF ShownInv
  <2>5. ASSUME NEW i, OfPipe(i), Answering(handler) PROVE Ordered(Pipe[i].rows, handler.rows)
    BY <2>5 DEF ShownInv, Answering
  <2>6. Answering(handler) => Shows(handler.rows, handler.n) BY DEF ShownInv, Answering
  <2>7. ApplySnapshot => OfPipe(1) /\ Pipe[1] = Head(wire) /\ d = 1
    <3> SUFFICES ASSUME ApplySnapshot PROVE OfPipe(1) /\ Pipe[1] = Head(wire) /\ d = 1 OBVIOUS
    <3>1. wire # <<>> /\ Head(wire).type = "snapshot" BY DEF ApplySnapshot, Incoming
    <3>2. d = 1 BY <2>1 DEF SnapshotFlow, Receipt
    <3> QED BY <3>1, <3>2, Heads
  <2>8. Answering(handler) =>
            /\ handler.rows \in [Rows -> Versions] /\ handler.n \in Nat
            /\ Covers(handler.omit, handler.k, handler.n, handler.rows)
    BY DEF Answering, HandlerInv, Sound, ConnTypes, Handlers
  <2>9. Answering(handler) =>
          \E rows \in [Rows -> Versions], n \in Nat :
             rows = handler.rows /\ n = handler.n /\ Shows(rows, n)'
    <3> SUFFICES ASSUME Answering(handler)
                 PROVE  \E rows \in [Rows -> Versions], n \in Nat :
                           rows = handler.rows /\ n = handler.n /\ Shows(rows, n)'
      OBVIOUS
    <3>1. PICK rows \in [Rows -> Versions], n \in Nat : rows = handler.rows /\ n = handler.n BY <2>8
    <3>2. Apart(rows) BY <2>5, <2>7, <3>1
    <3>3. Shows(rows, n)' BY <2>2, <2>6, <2>8, <3>1, <3>2
    <3> QED BY <3>1, <3>3
  <2>10. Answering(handler') => Shows(handler.rows, handler.n)'
    <3> SUFFICES ASSUME Answering(handler') PROVE Shows(handler.rows, handler.n)' OBVIOUS
    <3>1. CASE Answering(handler) /\ handler'.rows = handler.rows /\ handler'.n = handler.n
      <4>1. PICK rows \in [Rows -> Versions], n \in Nat :
               rows = handler.rows /\ n = handler.n /\ Shows(rows, n)'
        BY <2>9, <3>1
      <4> QED BY <3>1, <4>1 DEF Shows
    <3>2. CASE SnapshotRows /\ \A r \in Rows : handler'.rows[r] =
                                  IF handler.omit /\ r \in Locations THEN 0 ELSE db[r]
      <4>1. db' = db BY <3>2 DEF SnapshotRows, dataVars
      <4>2. \A r \in Orders : handler'.rows[r] = db'[r] BY <3>2, <4>1, RowsApart
      <4>3. \A r \in Orders : page'.view[r] <= db'[r] /\ page'.view[r] \in Nat /\ db'[r] \in Nat
        BY RowsApart, LimitsAssumption
        DEF CheckpointInv, Backed, PageTypes, Pages, DataTypes, Versions
      <4> QED BY <4>2, <4>3 DEF Shows
    <3> QED BY <3>1, <3>2, Answers DEF Answering, SameAnswer
  <2> DEFINE Old(j) == /\ OfPipe(j + d) /\ Pipe'[j] = Pipe[j + d]
             New(j) == /\ j = Len(Pipe') /\ Reply /\ handler.at = "reply" /\ Pipe'[j] = Snapshot(handler)
                       /\ UNCHANGED clientVars
  <2>11. ASSUME NEW j \in 1..Len(Pipe'), Pipe'[j].type = "snapshot" PROVE Old(j) \/ New(j)
    BY <2>1, <2>11 DEF SnapshotFlow
  <2>12. ASSUME NEW j \in 1..Len(Pipe'), Pipe'[j].type = "snapshot"
         PROVE  Shows(Pipe[j].rows, Pipe[j].rev)'
    <3>1. CASE Old(j)
      <4> DEFINE i == j + d
      <4>1. OfPipe(i) /\ Pipe'[j] = Pipe[i] BY <3>1
      <4>2. /\ Pipe[i].rows \in [Rows -> Versions] /\ Pipe[i].rev \in Nat
            /\ Covers(Pipe[i].omitted, Pipe[i].locrev, Pipe[i].rev, Pipe[i].rows)
        BY <4>1, PipeSnapshots
      <4>3. Apart(Pipe[i].rows)
        <5> SUFFICES ASSUME ApplySnapshot PROVE Ordered(Head1.rows, Pipe[i].rows) OBVIOUS
        <5>1. OfPipe(1) /\ Pipe[1] = Head(wire) /\ 1 < i BY <2>7, <2>12
        <5> HIDE DEF i
        <5>2. Ordered(Pipe[1].rows, Pipe[i].rows) BY <4>1, <5>1, <2>4
        <5> QED BY <5>1, <5>2
      <4>4. PICK rows \in [Rows -> Versions], n \in Nat : rows = Pipe[i].rows /\ n = Pipe[i].rev
        BY <4>2
      <4>5. Shows(rows, n) BY <2>3, <4>1, <4>4
      <4>6. Apart(rows) BY <4>3, <4>4
      <4>7. Covers(Pipe[i].omitted, Pipe[i].locrev, n, rows) BY <4>2, <4>4
      <4> HIDE DEF i, Apart
      <4>8. Shows(rows, n)' BY <2>2, <4>5, <4>6, <4>7
      <4> QED BY <4>1, <4>4, <4>8 DEF Shows
    <3>2. CASE New(j)
      <4>1. Answering(handler) BY <3>2 DEF Answering
      <4>2. PICK rows \in [Rows -> Versions], n \in Nat :
               rows = handler.rows /\ n = handler.n /\ Shows(rows, n)'
        BY <2>9, <4>1
      <4>3. Pipe'[j].rows = rows /\ Pipe'[j].rev = n BY <3>2, <4>2, SnapshotType
      <4> QED BY <4>2, <4>3 DEF Shows
    <3> QED BY <2>11, <2>12, <3>1, <3>2
  <2>13. ASSUME NEW i \in 1..Len(Pipe'), NEW j \in i+1..Len(Pipe'),
                Pipe'[i].type = "snapshot", Pipe'[j].type = "snapshot"
         PROVE  \A r \in Orders : Pipe'[i].rows[r] <= Pipe'[j].rows[r]
    <3>0. i \in Nat /\ j \in Nat /\ i < j /\ j \in 1..Len(Pipe') /\ j <= Len(Pipe') /\ i + d < j + d
      BY <2>13
    <3>1. Old(i)
      <4>1. Old(i) \/ New(i) BY <2>11, <2>13
      <4>2. i # Len(Pipe') BY <3>0
      <4> QED BY <4>1, <4>2
    <3>2. CASE Old(j) BY <3>0, <3>1, <3>2, <2>4
    <3>3. CASE New(j)
      <4>1. Answering(handler) BY <3>3 DEF Answering
      <4>2. Ordered(Pipe[i + d].rows, handler.rows) BY <3>1, <4>1, <2>5
      <4>3. Pipe'[j].rows = handler.rows BY <3>3, SnapshotType
      <4> QED BY <3>1, <4>2, <4>3
    <3> QED BY <2>11, <2>13, <3>0, <3>2, <3>3
  <2>14. ASSUME NEW j \in 1..Len(Pipe'), Pipe'[j].type = "snapshot", Answering(handler')
         PROVE  \A r \in Orders : Pipe'[j].rows[r] <= handler'.rows[r]
    <3>1. CASE Old(j)
      <4>1. CASE Answering(handler) /\ handler'.rows = handler.rows BY <3>1, <4>1, <2>5
      <4>2. CASE \A r \in Rows : handler'.rows[r] =
                                  IF handler.omit /\ r \in Locations THEN 0 ELSE db[r]
        <5>1. \A r \in Orders : handler'.rows[r] = db[r] BY <4>2, RowsApart
        <5>2. \A r \in Rows : Pipe[j + d].rows[r] <= db[r] BY <3>1, PipeSnapshots DEF Covers
        <5> QED BY <3>1, <5>1, <5>2, RowsApart
      <4> QED BY <2>14, <4>1, <4>2, Answers DEF Answering, SameAnswer
    <3>2. CASE New(j)
      <4>1. handler' # handler /\ ~SnapshotCheck /\ ~SnapshotRows
        <5>1. \/ handler' = [Handler("connect", TRUE, 0) EXCEPT !.n = handler.n]
              \/ handler' = Handler("receive", FALSE, 0)
          BY <3>2 DEF Reply
        <5>2. handler'.at \in {"connect", "receive"} BY <5>1 DEF Handler
        <5> QED BY <5>2, <3>2 DEF SnapshotCheck, SnapshotRows
      <4> QED BY <4>1, <2>14, Answers
    <3> QED BY <2>11, <2>14, <3>1, <3>2
  <2> HIDE DEF Ordered, Apart, OfPipe, Old, New
  <2> QED BY <2>10, <2>12, <2>13, <2>14 DEF ShownInv, Answering
<1> QED BY <1>1, <1>2, <1>3

-----------------------------------------------------------------------------
(* What is told *)

\* The loop tells the browser that changes were lost.
Warned == LoopTop /\ overflow /\ Heeded

LEMMA WarnedNotice ==
  ASSUME ConnTypes, Warned
  PROVE  Notice(0)' /\ Len(Pipe') \in Nat \ {0} /\ Pipe'[Len(Pipe')] = ResyncRequired
         /\ ~Answering(handler) /\ ~Reply
<1>1. Broadcast(ResyncRequired) /\ wire' = wire /\ registered BY DEF Warned, LoopTop, Heeded
<1>2. Len(Pipe') \in Nat \ {0} /\ Pipe'[Len(Pipe')] = ResyncRequired
  BY <1>1, Broadcasts, ResyncIsMessage
<1>3. Notice(0)'
  <2>1. Len(Pipe') \in 1..Len(Pipe') /\ 0 < Len(Pipe') BY <1>2
  <2> QED BY <1>2, <2>1, ResyncIsMessage DEF Notice
<1>4. ~Answering(handler) BY DEF Warned, Heeded, Answering
<1>5. ~Reply
  <2> SUFFICES ASSUME Reply PROVE FALSE OBVIOUS
  <2>1. handler' = handler BY DEF Warned, LoopTop
  <2>2. handler.at \in {"reply", "give_up"} BY DEF Reply
  <2>3. handler' = [Handler("connect", TRUE, 0) EXCEPT !.n = handler.n] \/ handler' = Handler("receive", FALSE, 0)
    BY DEF Reply
  <2>4. handler'.at \in {"connect", "receive"} BY <2>3 DEF Handler
  <2> QED BY <2>1, <2>2, <2>4
<1> QED BY <1>2, <1>3, <1>4, <1>5

\* A change is followed from its commit to the event that tells it.
LEMMA KnownKept ==
  ASSUME DataTypes, LoopTypes, ConnTypes, DataInv, CountedInv, LoopInv, Next,
         ~RestartServer, ~OpenSocket,
         NEW r \in Rows, NEW v, NEW n \in Nat, n <= Revision, Known(r, v, n)
  PROVE  Known(r, v, n)' \/ Warned
<1> DEFINE Hooked  == \E h \in hooks : r \in DOMAIN h /\ h[r] = db[r]
           Queued  == \E i \in 1..Len(changes) : changes[i].row = r
           Cut     == <<r, db[r]>> \in cut
           Reading == loop.at = "read" /\ loop.row = r
           Sending == loop.at = "publish" /\ loop.row = r /\ loop.ver = db[r]
           Told    == \E i \in 1..Revision : n < i /\ history[i].row = r /\ history[i].ver = db[r]
           Missed  == <<r, db[r]>> \in missed
<1>1. v = db[r] \/ Missed \/ Hooked \/ Queued \/ Cut \/ Reading \/ Sending \/ Told
  BY DEF Known, Pend
<1>2. ASSUME \/ (v = db[r])' \/ Missed' \/ Hooked' \/ Queued' \/ Cut' \/ Reading' \/ Sending' \/ Told'
      PROVE  Known(r, v, n)'
  BY <1>2 DEF Known, Pend
<1>3. EventsGrow BY EventsGrown
<1>4. Revision \in Nat /\ Revision' \in Nat /\ Revision <= Revision' BY <1>3 DEF EventsGrow, LoopTypes, Revision
<1>5. Told /\ db'[r] = db[r] => Told'
  <2> SUFFICES ASSUME Told, db'[r] = db[r] PROVE Told' OBVIOUS
  <2>1. PICK i \in 1..Revision : n < i /\ history[i].row = r /\ history[i].ver = db[r] OBVIOUS
  <2>2. i \in 1..Revision' /\ history'[i] = history[i] BY <1>3, <1>4 DEF EventsGrow
  <2> QED BY <2>1, <2>2
<1> HIDE DEF Told
<1>6. CASE \E R \in SUBSET Rows : Commit(R)
  <2>1. PICK R \in SUBSET Rows : Commit(R) BY <1>6
  <2>2. /\ db' = [q \in Rows |-> IF q \in R THEN db[q] + 1 ELSE db[q]]
        /\ hooks' = hooks \cup {[q \in R |-> db[q] + 1]}
        /\ UNCHANGED <<changes, history, loop, cut, missed>>
    BY <2>1 DEF Commit, loopVars, lossVars
  <2>3. CASE r \in R
    <3> DEFINE g == [q \in R |-> db[q] + 1]
    <3>1. g \in hooks' /\ r \in DOMAIN g /\ g[r] = db'[r] BY <2>2, <2>3
    <3> QED BY <3>1, <1>2
  <2>4. CASE r \notin R
    <3>1. db'[r] = db[r] BY <2>2, <2>4
    <3>2. Hooked => Hooked' BY <2>2, <3>1
    <3> QED BY <1>1, <1>2, <1>5, <2>2, <3>1, <3>2
  <2> QED BY <2>3, <2>4
<1>7. CASE \E h \in hooks : AfterCommit(h)
  <2>1. PICK h \in hooks : AfterCommit(h) BY <1>7
  <2> DEFINE R == DOMAIN h
             items == [i \in 1..Len(SetToSeq(R)) |-> [kind |-> "change", row |-> SetToSeq(R)[i], rev |-> 0]]
  <2>2. /\ hooks' = hooks \ {h} /\ Enqueue(items)
        /\ cut' = cut \cup {<<q, h[q]>> : q \in {q \in R : \A i \in DOMAIN changes' : changes'[i].row # q}}
        /\ UNCHANGED <<db, history, loop, missed>>
    BY <2>1 DEF AfterCommit
  <2>3. items \in Seq(Items)
    <3>1. R \in SUBSET Rows BY DEF DataInv
    <3>2. SetToSeq(R) \in Seq(R) BY <3>1, ItemsOfRows
    <3>3. Len(SetToSeq(R)) \in Nat /\ \A i \in 1..Len(SetToSeq(R)) : SetToSeq(R)[i] \in Subject
      BY <3>1, <3>2 DEF Subject
    <3> QED BY <3>3 DEF Items
  <2> HIDE DEF items
  <2>4. UNCHANGED setup BY DEF Next
  <2>5. /\ changes' \in Seq(Items) /\ Len(changes) <= Len(changes')
        /\ \A i \in 1..Len(changes) : changes'[i] = changes[i]
    BY <2>2, <2>3, <2>4, Enqueued
  <2>6. Len(changes) \in Nat /\ Len(changes') \in Nat /\ DOMAIN changes' = 1..Len(changes')
    BY <2>5 DEF LoopTypes
  <2>7. Queued => Queued' BY <2>5, <2>6
  <2>8. CASE r \in R /\ h[r] = db[r]
    <3>1. CASE \E i \in DOMAIN changes' : changes'[i].row = r BY <3>1, <2>6, <1>2
    <3>2. CASE \A i \in DOMAIN changes' : changes'[i].row # r
      <4>1. <<r, h[r]>> \in cut' BY <2>2, <2>8, <3>2
      <4> QED BY <4>1, <2>2, <2>8, <1>2
    <3> QED BY <3>1, <3>2
  <2>9. CASE ~(r \in R /\ h[r] = db[r])
    <3>1. Hooked => Hooked' BY <2>2, <2>9
    <3> QED BY <1>1, <1>2, <1>5, <2>2, <2>7, <3>1
  <2> QED BY <2>8, <2>9
<1>8. CASE LoopTop
  <2>1. /\ loop.at = "top" /\ cut' = {} /\ missed' = IF Heeded THEN missed ELSE missed \cup cut
        /\ UNCHANGED <<db, hooks, changes, history>>
    BY <1>8 DEF LoopTop, dataVars
  <2>2. CASE Cut
    <3>1. overflow BY <2>2 DEF LoopInv
    <3>2. CASE Heeded BY <1>8, <3>1, <3>2 DEF Warned
    <3>3. CASE ~Heeded BY <1>2, <2>1, <2>2, <3>3
    <3> QED BY <3>2, <3>3
  <2>3. CASE ~Cut BY <1>1, <1>2, <1>5, <2>1, <2>3
  <2> QED BY <2>2, <2>3
<1>9. CASE LoopGet
  <2> DEFINE item == Head(changes)
  <2>1. /\ loop.at = "get" /\ changes # <<>> /\ changes' = Tail(changes)
        /\ UNCHANGED <<db, hooks, history, cut>>
        /\ \/ item.kind = "message" /\ UNCHANGED missed
           \/ missed' = missed \cup {<<item.row, db[item.row]>>}
           \/ UNCHANGED missed /\ loop' = [IdleLoop("read") EXCEPT !.row = item.row]
    BY <1>9 DEF LoopGet, dataVars
  <2>2. changes \in Seq(Items) /\ Len(changes) \in Nat /\ Len(changes) > 0 /\ item = changes[1]
        /\ 1 \in 1..Len(changes)
    BY <2>1 DEF LoopTypes
  <2>3. Len(changes') = Len(changes) - 1 /\ \A i \in 1..Len(changes') : changes'[i] = changes[i + 1]
    BY <2>1, <2>2
  <2>4. CASE item.row = r
    <3>1. item.kind # "message" BY <2>2, <2>4, RowsApart DEF LoopInv
    <3>2. CASE missed' = missed \cup {<<item.row, db[item.row]>>} BY <3>2, <2>1, <2>4, <1>2
    <3>3. CASE loop' = [IdleLoop("read") EXCEPT !.row = item.row]
      <4>1. loop'.at = "read" /\ loop'.row = r BY <3>3, <2>4 DEF IdleLoop
      <4> QED BY <4>1, <1>2
    <3> QED BY <2>1, <3>1, <3>2, <3>3
  <2>5. CASE item.row # r
    <3>1. Queued => Queued'
      <4> SUFFICES ASSUME NEW i \in 1..Len(changes), changes[i].row = r PROVE Queued' OBVIOUS
      <4>1. i # 1 BY <2>2, <2>5
      <4>2. i - 1 \in 1..Len(changes') /\ changes'[i - 1] = changes[i] BY <2>2, <2>3, <4>1
      <4> QED BY <4>2
    <3>2. Missed => Missed' BY <2>1
    <3> QED BY <1>1, <1>2, <1>5, <2>1, <3>1, <3>2
  <2> QED BY <2>4, <2>5
<1>10. CASE LoopHeartbeat
  <2>1. loop.at = "get" /\ UNCHANGED <<db, hooks, changes, history, cut, missed>>
    BY <1>10 DEF LoopHeartbeat, dataVars, lossVars
  <2> QED BY <1>1, <1>2, <1>5, <2>1
<1>11. CASE LoopRead
  <2>1. /\ loop.at = "read" /\ UNCHANGED <<db, hooks, changes, history, cut, missed>>
        /\ loop' = [loop EXCEPT !.at = "publish", !.ver = db[loop.row],
                                !.locrev = IF loop.row \in Locations THEN locrev ELSE 0]
    BY <1>11 DEF LoopRead, dataVars, lossVars
  <2>2. loop'.at = "publish" /\ loop'.row = loop.row /\ loop'.ver = db[loop.row]
    BY <2>1 DEF LoopTypes
  <2> QED BY <1>1, <1>2, <1>5, <2>1, <2>2
<1>12. CASE LoopFails
  <2>1. /\ loop.at = "read" /\ UNCHANGED <<db, hooks, changes, history, cut>>
        /\ missed' = missed \cup {<<loop.row, db[loop.row]>>}
    BY <1>12 DEF LoopFails, dataVars
  <2> QED BY <1>1, <1>2, <1>5, <2>1
<1>13. CASE LoopPublish
  <2> DEFINE e == [row |-> loop.row, ver |-> loop.ver, locrev |-> loop.locrev]
  <2>1. /\ loop.at = "publish" /\ UNCHANGED <<db, hooks, changes, cut, missed>>
        /\ history' = Append(history, e)
    BY <1>13 DEF LoopPublish, dataVars, lossVars
  <2>2. e.row = loop.row /\ e.ver = loop.ver OBVIOUS
  <2> HIDE DEF e
  <2>3. Revision' = Revision + 1 /\ history'[Revision'] = e BY <2>1 DEF Revision, LoopTypes
  <2>4. CASE Sending
    <3>1. Revision' \in 1..Revision' /\ n < Revision' BY <2>3, <1>4
    <3>2. history'[Revision'].row = r /\ history'[Revision'].ver = db'[r] BY <2>1, <2>2, <2>3, <2>4
    <3>3. Told' BY <3>1, <3>2 DEF Told
    <3> QED BY <3>3, <1>2
  <2>5. CASE ~Sending BY <1>1, <1>2, <1>5, <2>1, <2>5
  <2> QED BY <2>4, <2>5
<1>14. CASE PublishRobots
  <2> DEFINE it == [kind |-> "message", row |-> NoRow, rev |-> Revision + 1]
  <2>1. Enqueue(<<it>>) /\ UNCHANGED <<db, hooks, loop, cut, missed>>
    BY <1>14 DEF PublishRobots, dataVars, lossVars
  <2>2. <<it>> \in Seq(Items) BY <1>4 DEF Items, Subject
  <2> HIDE DEF it
  <2>3. UNCHANGED setup BY DEF Next
  <2>4. /\ changes' \in Seq(Items) /\ Len(changes) <= Len(changes')
        /\ \A i \in 1..Len(changes) : changes'[i] = changes[i]
    BY <2>1, <2>2, <2>3, Enqueued
  <2>5. Queued => Queued' BY <2>4 DEF LoopTypes
  <2> QED BY <1>1, <1>2, <1>5, <2>1, <2>5
<1>15. CASE UNCHANGED LoopPart /\ UNCHANGED missed /\ UNCHANGED dataVars
  <2>1. UNCHANGED <<db, hooks, changes, history, loop, cut, missed>>
    BY <1>15 DEF LoopPart, dataVars, loopVars, lossVars
  <2> QED BY <1>1, <1>2, <1>5, <2>1
<1> QED BY <1>6, <1>7, <1>8, <1>9, <1>10, <1>11, <1>12, <1>13, <1>14, <1>15, LoopSteps, DataSteps

LEMMA KnownMore ==
  ASSUME NEW r \in Rows, NEW v \in Nat, NEW w \in Nat, NEW n \in Nat, db[r] \in Nat,
         Known(r, v, n), v <= w, w <= db[r]
  PROVE  Known(r, w, n)
<1>1. CASE v = db[r]
  <2>1. w = db[r] BY <1>1
  <2> QED BY <2>1 DEF Known
<1>2. CASE v # db[r] BY <1>2 DEF Known
<1> QED BY <1>1, <1>2

\* The page counts one more event.
LEMMA KnownNext ==
  ASSUME LoopTypes, NEW r \in Rows, NEW v \in Nat, NEW w \in Nat, NEW n \in Nat, db[r] \in Nat,
         Known(r, v, n), v <= w, w <= db[r],
         history[n + 1].row = r => history[n + 1].ver <= w
  PROVE  Known(r, w, n + 1)
<1>1. CASE \E i \in 1..Revision : n < i /\ history[i].row = r /\ history[i].ver = db[r]
  <2>1. PICK i \in 1..Revision : n < i /\ history[i].row = r /\ history[i].ver = db[r] BY <1>1
  <2>2. CASE i = n + 1
    <3>1. w = db[r] BY <2>1, <2>2
    <3> QED BY <3>1 DEF Known
  <2>3. CASE i # n + 1
    <3>1. n + 1 < i BY <2>1, <2>3 DEF LoopTypes, Revision
    <3> QED BY <2>1, <3>1 DEF Known
  <2> QED BY <2>2, <2>3
<1>2. CASE v = db[r]
  <2>1. w = db[r] BY <1>2
  <2> QED BY <2>1 DEF Known
<1>3. CASE <<r, db[r]>> \in missed \/ Pend(r) BY <1>3 DEF Known
<1> QED BY <1>1, <1>2, <1>3 DEF Known

LEMMA NoticeNext ==
  ASSUME ConnTypes, Notice(0), Pipe[1].type # "resync_required"
  PROVE  Notice(1)
<1>1. PICK j \in 1..Len(Pipe) : Pipe[j].type = "resync_required" BY DEF Notice
<1>2. j # 1 BY <1>1
<1>3. 1 < j BY <1>2, PipeType
<1> QED BY <1>1, <1>3 DEF Notice

LEMMA SaysKept ==
  ASSUME DataTypes, DataGrows, NEW omitted, NEW k \in 1..locrev, NEW rows, NEW r
  PROVE  Says(omitted, k, rows, r)' = Says(omitted, k, rows, r)
<1>1. counted'[k] = counted[k] BY DEF DataGrows
<1> QED BY <1>1 DEF Says

\* What a snapshot says of a row is in the database.
LEMMA SaysNumber ==
  ASSUME DataTypes, DataInv, NEW omitted, NEW k, NEW n, NEW rows \in [Rows -> Versions],
         Covers(omitted, k, n, rows), NEW r \in Rows
  PROVE  /\ Says(omitted, k, rows, r) \in Nat /\ Says(omitted, k, rows, r) <= db[r]
         /\ db[r] \in Nat
<1>1. db[r] \in Nat /\ rows[r] \in Nat /\ rows[r] <= db[r]
  BY LimitsAssumption DEF DataTypes, Versions, Covers
<1>2. k \in 1..locrev BY DEF Covers
<1>3. CASE omitted /\ r \in Locations
  <2>1. counted[k][r] \in Nat BY <1>2, <1>3, CountsAreNumbers
  <2>2. counted[k][r] <= db[r] BY <1>2, <1>3 DEF DataInv
  <2> QED BY <1>1, <1>3, <2>1, <2>2 DEF Says
<1>4. CASE ~(omitted /\ r \in Locations) BY <1>1, <1>4 DEF Says
<1> QED BY <1>3, <1>4

\* The answer that is built: what it says, or will say once it is checked.
LEMMA AnswerTold ==
  ASSUME DataTypes, LoopTypes, ConnTypes, PageTypes, DataInv, CountedInv, LoopInv, HandlerInv, ToldInv,
         Next, NEW r \in Rows, Answering(handler'),
         ~(handler'.at = "check" /\ handler'.omit /\ r \in Locations)
  PROVE  Known(r, Says(handler.omit, handler.k, handler.rows, r), handler.n)'
<1>1. ~OpenSocket /\ ~RestartServer
  <2>1. ~OpenSocket
    <3> SUFFICES ASSUME OpenSocket PROVE FALSE OBVIOUS
    <3>1. handler' = Handler("key", TRUE, page.locrev) BY DEF OpenSocket
    <3> QED BY <3>1 DEF Handler, Answering
  <2>2. ~RestartServer
    <3> SUFFICES ASSUME RestartServer PROVE FALSE OBVIOUS
    <3>1. handler' = NoHandler BY DEF RestartServer, Disconnected
    <3> QED BY <3>1 DEF NoHandler, Handler, Answering
  <2> QED BY <2>1, <2>2
<1>2. DataGrows BY DataGrown
<1>3. ASSUME Answering(handler), SameAnswer,
             Known(r, Says(handler.omit, handler.k, handler.rows, r), handler.n)
      PROVE  Known(r, Says(handler.omit, handler.k, handler.rows, r), handler.n)'
  <2>1. /\ handler.k \in 1..locrev /\ handler.n \in Nat /\ handler.n <= Revision
    BY <1>3 DEF Answering, HandlerInv, Sound, ConnTypes, Handlers
  <2>2. PICK n \in Nat, k \in 1..locrev : n = handler.n /\ k = handler.k BY <2>1
  <2> DEFINE v == Says(handler.omit, k, handler.rows, r)
  <2>3. PICK u : u = v OBVIOUS
  <2>4. Known(r, u, n)' \/ Warned BY <1>1, <1>3, <2>1, <2>2, <2>3, KnownKept
  <2>5. ~Warned BY <1>3, WarnedNotice
  <2>6. Says(handler.omit, handler.k, handler.rows, r)' = u
    <3>1. counted'[k] = counted[k] BY <1>2 DEF DataGrows
    <3> QED BY <1>3, <2>2, <2>3, <3>1 DEF Says, SameAnswer
  <2>7. handler'.n = n BY <1>3, <2>2 DEF SameAnswer
  <2> QED BY <2>4, <2>5, <2>6, <2>7 DEF Known, Pend
<1>4. CASE handler' = handler
  <2>1. Known(r, Says(handler.omit, handler.k, handler.rows, r), handler.n)
    BY <1>4 DEF ToldInv, Answering
  <2> QED BY <1>3, <1>4, <2>1 DEF SameAnswer
<1>5. CASE /\ handler.at = "check" /\ handler'.at = "reply" /\ handler.k = locrev /\ SameAnswer
  <2>1. Known(r, Says(handler.omit, handler.k, handler.rows, r), handler.n)
    <3>1. CASE handler.omit /\ r \in Locations
      <4>1. Says(handler.omit, handler.k, handler.rows, r) = counted[locrev][r] BY <1>5, <3>1 DEF Says
      <4>2. counted[locrev][r] = db[r] \/ \E h \in hooks : r \in DOMAIN h /\ h[r] = db[r]
        BY <3>1 DEF CountedInv
      <4> QED BY <4>1, <4>2 DEF Known, Pend
    <3>2. CASE ~(handler.omit /\ r \in Locations) BY <1>5, <3>2 DEF ToldInv
    <3> QED BY <3>1, <3>2
  <2> QED BY <1>3, <1>5, <2>1 DEF Answering
<1>6. CASE /\ SnapshotRows /\ handler'.at = "check" /\ handler'.omit = handler.omit
           /\ \A q \in Rows : handler'.rows[q] = IF handler.omit /\ q \in Locations THEN 0 ELSE db[q]
  <2>1. db' = db BY <1>6 DEF SnapshotRows, dataVars
  <2>2. ~(handler'.omit /\ r \in Locations) BY <1>6
  <2>3. handler'.rows[r] = db'[r] BY <1>6, <2>1, <2>2
  <2>4. Says(handler.omit, handler.k, handler.rows, r)' = db'[r] BY <2>2, <2>3 DEF Says
  <2> QED BY <2>4 DEF Known
<1> QED BY <1>4, <1>5, <1>6, Answers

\* The snapshots in the pipe, and what they leave untold, are followed by a notice.
LEMMA PipeTold ==
  ASSUME DataTypes, LoopTypes, ConnTypes, PageTypes, DataInv, CountedInv, LoopInv, PipeInv, HandlerInv,
         ConnInv, ToldInv, Next, DataTypes', LoopTypes',
         NEW j \in 1..Len(Pipe'), Pipe'[j].type = "snapshot"
  PROVE  \/ Notice(j)'
         \/ \A r \in Rows : Known(r, Says(Pipe[j].omitted, Pipe[j].locrev, Pipe[j].rows, r),
                                  Pipe[j].rev)'
<1>0. DataGrows BY DataGrown
<1>1. CASE Disconnection
  <2>1. Pipe' = <<>> BY <1>1, Disconnections
  <2> QED BY <2>1
<1>2. CASE ~Disconnection /\ OpenSocket
  <2>1. ~page.open /\ UNCHANGED <<outq, wire>> BY <1>2 DEF OpenSocket
  <2>2. Pipe' = <<>> BY <2>1 DEF ConnInv, Pipe
  <2> QED BY <2>2
<1>3. CASE ~Disconnection /\ ~OpenSocket
  <2>0. ~RestartServer BY <1>3 DEF Disconnection
  <2> DEFINE AllKnown(m) == \A r \in Rows : Known(r, Says(m.omitted, m.locrev, m.rows, r), m.rev)
  \* What is known of a message stays so, or the browser is warned behind it.
  <2>1. ASSUME NEW m \in Snapshots, m = Pipe'[j], AllKnown(m),
               Covers(m.omitted, m.locrev, m.rev, m.rows), ~Warned
        PROVE  \A r \in Rows : Known(r, Says(Pipe[j].omitted, Pipe[j].locrev, Pipe[j].rows, r),
                                     Pipe[j].rev)'
    <3> SUFFICES ASSUME NEW r \in Rows
                 PROVE  Known(r, Says(m.omitted, m.locrev, m.rows, r), m.rev)'
      BY <2>1 DEF Known, Says, Pend
    <3>1. PICK u : u = Says(m.omitted, m.locrev, m.rows, r) OBVIOUS
    <3>2. Known(r, u, m.rev) BY <2>1, <3>1
    <3>3. m.rev \in Nat /\ m.rev <= Revision /\ m.locrev \in 1..locrev BY <2>1 DEF Snapshots, Covers
    <3>4. Known(r, u, m.rev)' BY <1>3, <2>0, <2>1, <3>2, <3>3, KnownKept
    <3>5. Says(m.omitted, m.locrev, m.rows, r)' = u BY <1>0, <3>1, <3>3, SaysKept
    <3> QED BY <3>4, <3>5 DEF Known, Pend
  <2>2. Warned => Notice(j)'
    <3> SUFFICES ASSUME Warned PROVE Notice(j)' OBVIOUS
    <3>1. Len(Pipe') \in Nat \ {0} /\ Pipe'[Len(Pipe')] = ResyncRequired BY WarnedNotice
    <3>2. Pipe'[Len(Pipe')].type = "resync_required" BY <3>1, ResyncIsMessage
    <3>3. j # Len(Pipe') BY <3>2
    <3>4. j < Len(Pipe') /\ Len(Pipe') \in 1..Len(Pipe') BY <3>1, <3>3
    <3> QED BY <3>2, <3>4 DEF Notice
  <2>3. PICK d \in {0, 1} : SnapshotFlow(d) BY <1>3, SnapshotsFlow
  <2>4. CASE j + d \in 1..Len(Pipe) /\ Pipe'[j] = Pipe[j + d] /\ (Notice(j + d) => Notice(j)')
    <3>1. PICK m \in Snapshots : m = Pipe'[j] /\ Covers(m.omitted, m.locrev, m.rev, m.rows)
      BY <2>4, PipeSnapshots
    <3>2. Notice(j + d) \/ AllKnown(m) BY <2>4, <3>1 DEF ToldInv
    <3> QED BY <2>1, <2>2, <2>4, <3>1, <3>2
  <2>5. CASE Reply /\ handler.at = "reply" /\ Pipe'[j] = Snapshot(handler)
    <3>1. PICK m \in Snapshots : m = Snapshot(handler) BY SnapshotType
    <3>2. /\ m.rev = handler.n /\ m.locrev = handler.k /\ m.omitted = handler.omit /\ m.rows = handler.rows
      BY <3>1, SnapshotType
    <3>3. Covers(m.omitted, m.locrev, m.rev, m.rows) BY <2>5, <3>2 DEF HandlerInv, Sound
    <3>4. AllKnown(m) BY <2>5, <3>2 DEF ToldInv
    <3>5. ~Warned BY <2>5, WarnedNotice
    <3> QED BY <2>1, <2>5, <3>1, <3>3, <3>4, <3>5
  <2> QED BY <2>3, <2>4, <2>5 DEF SnapshotFlow
<1> QED BY <1>1, <1>2, <1>3

Awaits(p, b) == p.open /\ ~p.first /\ (b.kind = "snapshot" \/ ~p.pending)

\* A page that does not wait has been told, or will be.
LEMMA PageTold ==
  ASSUME DataTypes, LoopTypes, ConnTypes, PageTypes, DataInv, CountedInv, LoopInv, PipeInv, HandlerInv,
         ConnInv, FirstInv, BusyInv, CheckpointInv, RevisionInv, ToldInv, Next,
         DataTypes', LoopTypes', PageTypes', CheckpointInv', Awaits(page, busy)'
  PROVE  Notice(0)' \/ \A r \in Rows : Known(r, page.view[r], At)'
<1>1. CASE Disconnection
  <2>1. ~page'.open BY <1>1, Disconnections
  <2> QED BY <2>1 DEF Awaits
<1>2. CASE OpenSocket
  <2>1. page'.first BY <1>2, OpenEffect
  <2> QED BY <2>1 DEF Awaits
<1>3. CASE ~Disconnection /\ ~OpenSocket
  <2>0. ~RestartServer BY <1>3 DEF Disconnection
  <2>1. page' \in Pages /\ busy' \in Works /\ page \in Pages /\ busy \in Works BY DEF PageTypes
  <2>2. At' \in Nat BY <2>1 DEF At, Pages, Works
  <2>3. PICK n \in Nat, p \in Pages, b \in Works : n = At' /\ p = page' /\ b = busy' BY <2>1, <2>2
  <2>4. n = IF b.kind = "snapshot" THEN b.rev ELSE p.revision BY <2>3 DEF At
  <2>5. page.revision \in Nat /\ p.revision \in Nat BY <2>1 DEF Pages
  <2>6. \A r \in Rows : /\ page.view[r] \in Nat /\ p.view[r] \in Nat /\ db[r] \in Nat /\ db'[r] \in Nat
                        /\ p.view[r] <= db'[r]
    <3>1. \A r \in Rows : page.view[r] \in Nat /\ p.view[r] \in Nat /\ db[r] \in Nat /\ db'[r] \in Nat
      BY <2>1, LimitsAssumption DEF DataTypes, Pages, Versions
    <3>2. \A r \in Rows : p.view[r] <= db'[r] BY <2>3 DEF CheckpointInv, Backed
    <3> QED BY <3>1, <3>2
  <2>7. p.open /\ ~p.first /\ (b.kind = "snapshot" \/ ~p.pending) BY <2>3 DEF Awaits
  <2> DEFINE AllKnown == n <= Revision /\ \A r \in Rows : Known(r, p.view[r], n)
             Goal == Notice(0)' \/ \A r \in Rows : Known(r, page.view[r], At)'
  <2>8. AllKnown => Goal
    <3> SUFFICES ASSUME AllKnown PROVE Goal OBVIOUS
    <3>1. CASE Warned BY <3>1, WarnedNotice
    <3>2. CASE ~Warned
      <4> SUFFICES ASSUME NEW r \in Rows PROVE Known(r, page.view[r], At)' OBVIOUS
      <4>1. PICK u : u = p.view[r] OBVIOUS
      <4>2. Known(r, u, n) BY <4>1
      <4>3. Known(r, u, n)' BY <1>3, <2>0, <3>2, <4>2, KnownKept
      <4> QED BY <2>3, <4>1, <4>3 DEF Known, Pend
    <3> QED BY <3>1, <3>2
  <2>9. Awaits(page, busy) =>
          /\ Notice(0) \/ \A r \in Rows : Known(r, page.view[r], At)
          /\ ~page.old /\ At <= Revision
    <3> SUFFICES ASSUME Awaits(page, busy)
                 PROVE  /\ Notice(0) \/ \A r \in Rows : Known(r, page.view[r], At)
                        /\ ~page.old /\ At <= Revision
      OBVIOUS
    <3>1. Notice(0) \/ \A r \in Rows : Known(r, page.view[r], At) BY DEF Awaits, ToldInv
    <3>2. ~page.old BY DEF Awaits, BusyInv
    <3> QED BY <3>1, <3>2 DEF RevisionInv
  <2>10. PICK d \in {0, 1} : SnapshotFlow(d) BY <1>3, SnapshotsFlow
  <2>11. (d = 1 <=> Receipt) /\ (Notice(d) => Notice(0)') BY <2>10 DEF SnapshotFlow
  <2> HIDE DEF AllKnown, Goal
  <2>b. SUFFICES Goal BY DEF Goal
  <2>a. ~ResyncRequiredArrives
    <3> SUFFICES ASSUME ResyncRequiredArrives PROVE FALSE OBVIOUS
    <3>1. ~HeartbeatArrives BY DEF ResyncRequiredArrives, HeartbeatArrives, Incoming
    <3>2. p.pending BY <2>3, <3>1, AskEffect
    <3>3. b.kind = "none" BY <2>3, AskEffect, Frees DEF ResyncRequiredArrives, Incoming
    <3> QED BY <2>7, <3>2, <3>3
  <2>12. ASSUME Awaits(page, busy), Notice(0) PROVE Goal
    <3>1. CASE Receipt
      <4>1. wire # <<>> /\ Head(wire).type # "resync_required"
        <5>1. wire # <<>> /\ busy = Free /\ page.open BY <3>1, Receipts
        <5>2. CASE Head(wire).type = "resync_required"
          BY <2>a, <3>1, <5>1, <5>2
          DEF Receipt, Incoming, IgnoreSnapshot, RejectSnapshot, ApplySnapshot, HeartbeatArrives,
              IgnoreEvent, GapInEvents, ApplyEvent
        <5> QED BY <5>1, <5>2
      <4>2. Pipe[1] = Head(wire) BY <4>1, Heads
      <4>3. Notice(1) BY <2>12, <4>1, <4>2, NoticeNext
      <4> QED BY <2>11, <3>1, <4>3 DEF Goal
    <3>2. CASE ~Receipt BY <2>11, <2>12, <3>2 DEF Goal
    <3> QED BY <3>1, <3>2
  <2>13. ASSUME page'.revision = page.revision, page'.view = page.view, busy' = busy,
                Awaits(page, busy)
         PROVE  Goal
    <3>1. n = At /\ p.view = page.view BY <2>3, <2>4, <2>13 DEF At
    <3>2. CASE Notice(0) BY <2>12, <2>13, <3>2
    <3>3. CASE \A r \in Rows : Known(r, page.view[r], At)
      BY <2>8, <2>9, <2>13, <3>1, <3>3 DEF AllKnown
    <3> QED BY <2>9, <2>13, <3>2, <3>3
  <2>14. CASE ServerStep /\ UNCHANGED clientVars
    <3>1. page' = page /\ busy' = busy BY <2>14 DEF clientVars
    <3>2. Awaits(page, busy) BY <2>3, <2>7, <3>1 DEF Awaits
    <3> QED BY <2>13, <3>1, <3>2
  <2>15. CASE IgnoreSnapshot \/ IgnoreEvent
    <3>1. page' = page /\ busy' = busy BY <2>15, IgnoreEffect
    <3>2. Awaits(page, busy) BY <2>3, <2>7, <3>1 DEF Awaits
    <3> QED BY <2>13, <3>1, <3>2
  <2>16. CASE RejectSnapshot \/ GapInEvents
    <3>1. p.pending
      <4>1. CASE RejectSnapshot BY <2>3, <4>1, RejectEffect
      <4>2. CASE GapInEvents
        <5>1. ~HeartbeatArrives BY <4>2 DEF GapInEvents, HeartbeatArrives, Incoming
        <5> QED BY <2>3, <4>2, <5>1, AskEffect
      <4> QED BY <2>16, <4>1, <4>2
    <3>2. busy = Free BY <2>16 DEF RejectSnapshot, GapInEvents, Incoming
    <3>3. b.kind = "none" BY <2>3, <2>16, <3>2, RejectEffect, AskEffect, Frees
    <3> QED BY <2>7, <3>1, <3>3
  <2>17. CASE HeartbeatArrives
    <3>1. /\ page'.revision = page.revision /\ page'.view = page.view /\ busy' = busy
          /\ page'.open = page.open /\ page'.first = page.first /\ (page.pending => page'.pending)
      BY <2>17, AskEffect
    <3>2. Awaits(page, busy) BY <2>3, <2>7, <3>1 DEF Awaits
    <3> QED BY <2>13, <3>1, <3>2
  <2>18. CASE ApplySnapshot
    <3>1. wire # <<>> /\ Head(wire).type = "snapshot" /\ busy = Free /\ UNCHANGED dataVars
      BY <2>18 DEF ApplySnapshot, Incoming, Delivered
    <3>2. PICK m \in Snapshots : m = Head(wire) /\ Covers(m.omitted, m.locrev, m.rev, m.rows)
      BY <3>1, Heads
    <3>3. 1 \in 1..Len(Pipe) /\ Pipe[1] = m /\ m.type = "snapshot" BY <3>1, <3>2, Heads
    <3>4. Notice(1) \/ \A r \in Rows : Known(r, Says(m.omitted, m.locrev, m.rows, r), m.rev)
      BY <3>3 DEF ToldInv
    <3>5. CASE Notice(1)
      <4>1. d = 1 BY <2>11, <2>18 DEF Receipt
      <4> QED BY <2>11, <3>5, <4>1 DEF Goal
    <3>6. CASE \A r \in Rows : Known(r, Says(m.omitted, m.locrev, m.rows, r), m.rev)
      <4> DEFINE R == IF m.omitted THEN Orders ELSE Rows
      <4>1. /\ n = m.rev /\ p.view = Merge(page.view, m.rows, R)
            /\ m.omitted => page.locrev = m.locrev
        BY <2>3, <2>4, <2>18, <3>1, <3>2, ApplySnapshotEffect, Frees
      <4>2. m.rows \in [Rows -> Versions] /\ page.view \in [Rows -> Versions] /\ m.rev \in Nat
        BY <2>1 DEF Snapshots, Pages
      <4>3. n <= Revision /\ m.locrev \in 1..locrev BY <3>2, <4>1 DEF Covers
      <4>4. ASSUME NEW r \in Rows PROVE Says(m.omitted, m.locrev, m.rows, r) <= p.view[r]
        <5>1. m.rows[r] \in Nat BY <4>2, LimitsAssumption DEF Versions
        <5>2. CASE m.omitted /\ r \in Locations
          <6>1. page.locrev = m.locrev /\ m.locrev # 0 BY <4>1, <4>3, <5>2 DEF DataTypes
          <6>2. counted[m.locrev][r] <= page.view[r] BY <5>2, <6>1 DEF CheckpointInv, Backed
          <6>3. r \notin R BY <5>2, RowsApart
          <6> HIDE DEF R
          <6>4. p.view[r] = page.view[r] BY <4>1, <4>2, <6>3, Merged
          <6> QED BY <5>2, <6>2, <6>4 DEF Says
        <5>3. CASE ~(m.omitted /\ r \in Locations)
          <6>1. r \in R BY <5>3, RowsApart
          <6> HIDE DEF R
          <6>2. CASE m.rows[r] = 0 BY <5>3, <6>2, <2>6 DEF Says
          <6>3. CASE m.rows[r] # 0
            <7>1. m.rows[r] <= p.view[r] BY <4>1, <4>2, <6>1, <6>3, Merged
            <7> QED BY <5>3, <7>1 DEF Says
          <6> QED BY <6>2, <6>3
        <5> QED BY <5>2, <5>3
      <4>5. ASSUME NEW r \in Rows PROVE Known(r, p.view[r], n)
        <5>1. Says(m.omitted, m.locrev, m.rows, r) \in Nat BY <3>2, <4>2, SaysNumber
        <5>2. p.view[r] <= db[r] BY <2>6, <3>1 DEF dataVars
        <5>3. n \in Nat /\ Known(r, Says(m.omitted, m.locrev, m.rows, r), n) BY <3>6, <4>1, <4>2
        <5> QED BY <4>4, <5>1, <5>2, <5>3, <2>6, KnownMore
      <4> QED BY <2>8, <4>3, <4>5 DEF AllKnown
    <3> QED BY <3>4, <3>5, <3>6
  <2>19. CASE ApplyEvent
    <3>1. wire # <<>> /\ Head(wire).type = "event" /\ busy = Free /\ UNCHANGED dataVars
      BY <2>19 DEF ApplyEvent, Incoming, Delivered
    <3>2. PICK m \in Events : m = Head(wire) /\ m.rev \in 1..Revision /\ m.row = history[m.rev].row
                              /\ m.ver = history[m.rev].ver
      BY <3>1, Heads
    <3>3. /\ p.open = page.open /\ p.first = page.first /\ p.pending = page.pending
          /\ m.rev = page.revision + 1
          /\ \A r \in Rows : IF r = m.row
                             THEN page.view[r] <= p.view[r] /\ m.ver <= p.view[r]
                             ELSE p.view[r] = page.view[r]
          /\ \/ m.row \notin Locations /\ p.revision = m.rev /\ b = busy
             \/ m.row \in Locations /\ p.revision = page.revision /\ b.kind = "event"
      BY <2>3, <2>19, <3>2, ApplyEventEffect
    <3>4. Awaits(page, busy)
      <4>1. b.kind # "snapshot" BY <3>1, <3>3, Frees
      <4> QED BY <2>7, <3>3, <4>1 DEF Awaits
    <3>5. At = page.revision BY <3>1, Frees DEF At
    <3>6. CASE Notice(0) BY <2>12, <3>4, <3>6
    <3>7. CASE \A r \in Rows : Known(r, page.view[r], page.revision)
      <4>1. n <= Revision
        <5>1. n \in {m.rev, page.revision} BY <2>4, <3>1, <3>3, Frees
        <5> QED BY <5>1, <3>2, <3>3, <2>5 DEF LoopTypes, Revision
      <4>2. ASSUME NEW r \in Rows PROVE Known(r, p.view[r], n)
        <5>1. page.view[r] <= p.view[r] /\ p.view[r] <= db[r] BY <2>6, <3>1, <3>3 DEF dataVars
        <5>2. CASE m.row \notin Locations
          <6>1. n = page.revision + 1 BY <2>4, <3>1, <3>3, <5>2, Frees
          <6>2. history[page.revision + 1].row = r => history[page.revision + 1].ver <= p.view[r]
            BY <3>2, <3>3
          <6>3. Known(r, p.view[r], page.revision + 1)
            BY <2>5, <2>6, <3>7, <5>1, <6>2, KnownNext
          <6> QED BY <6>1, <6>3
        <5>3. CASE m.row \in Locations
          <6>1. n = page.revision BY <2>4, <3>3, <5>3
          <6> QED BY <2>5, <2>6, <3>7, <5>1, <6>1, KnownMore
        <5> QED BY <5>2, <5>3
      <4> QED BY <2>8, <4>1, <4>2 DEF AllKnown
    <3> QED BY <2>9, <3>4, <3>5, <3>6, <3>7
  <2>20. CASE SnapshotWritten
    <3>1. /\ busy.kind = "snapshot" /\ b = Free /\ p.open = page.open /\ p.first = page.first
          /\ p.view = page.view /\ p.revision = busy.rev
      BY <2>3, <2>20, SnapshotWrittenEffect
    <3>2. Awaits(page, busy) BY <2>7, <3>1 DEF Awaits
    <3>3. n = At BY <2>4, <3>1, Frees DEF At
    <3>4. CASE Notice(0) BY <2>12, <3>2, <3>4
    <3>5. CASE \A r \in Rows : Known(r, page.view[r], At) BY <2>8, <2>9, <3>1, <3>2, <3>3, <3>5 DEF AllKnown
    <3> QED BY <2>9, <3>2, <3>4, <3>5
  <2>21. CASE EventWritten
    <3>0. busy.row \in Locations BY <2>21 DEF EventWritten, CheckpointInv
    <3>1. /\ busy.kind = "event" /\ b = Free /\ p.open = page.open /\ p.first = page.first
          /\ p.view = page.view /\ p.revision = busy.rev /\ (page.pending => p.pending)
      BY <2>3, <2>21, <3>0, EventWrittenEffect
    <3>2. Awaits(page, busy) BY <2>7, <3>1, Frees DEF Awaits
    <3>3. n = busy.rev /\ busy.rev = page.revision + 1 /\ At = page.revision
      BY <2>4, <3>1, Frees DEF At, BusyInv
    <3>4. /\ busy.rev <= Revision /\ history[busy.rev].row = busy.row /\ history[busy.rev].ver = busy.ver
          /\ busy.ver <= page.view[busy.row]
      BY <2>9, <3>1, <3>2 DEF RevisionInv
    <3>5. CASE Notice(0) BY <2>12, <3>2, <3>5
    <3>6. CASE \A r \in Rows : Known(r, page.view[r], page.revision)
      <4>1. ASSUME NEW r \in Rows PROVE Known(r, p.view[r], n)
        <5>1. page.view[r] <= db[r] BY DEF CheckpointInv, Backed
        <5>2. history[page.revision + 1].row = r => history[page.revision + 1].ver <= page.view[r]
          BY <3>3, <3>4
        <5>3. Known(r, page.view[r], page.revision + 1)
          BY <2>5, <2>6, <3>6, <5>1, <5>2, KnownNext
        <5> QED BY <3>1, <3>3, <5>3
      <4> QED BY <2>8, <3>3, <3>4, <4>1 DEF AllKnown
    <3> QED BY <2>9, <3>2, <3>3, <3>5, <3>6
  <2>22. CASE LoadLocations
    <3>1. page' = page /\ busy' = busy BY <2>22, LoadEffect
    <3>2. Awaits(page, busy) BY <2>3, <2>7, <3>1 DEF Awaits
    <3> QED BY <2>13, <3>1, <3>2
  <2>23. CASE LocationsLoaded
    <3>1. /\ b = busy /\ p.revision = page.revision /\ p.open = page.open /\ p.first = page.first
          /\ p.pending = page.pending
          /\ p.view = page.view \/ p.view = Merge(page.view, http.rows, Locations)
      BY <2>3, <2>23, LoadedEffect
    <3>2. Awaits(page, busy) BY <2>7, <3>1 DEF Awaits
    <3>3. n = At BY <2>4, <3>1 DEF At
    <3>4. http.rows \in [Rows -> Versions] /\ page.view \in [Rows -> Versions]
      BY <2>1 DEF PageTypes, Loads, Pages
    <3>5. \A r \in Rows : page.view[r] <= p.view[r]
      <4>1. CASE p.view = page.view BY <4>1, <2>6
      <4>2. CASE p.view = Merge(page.view, http.rows, Locations)
        BY <4>2, <3>4, <2>6, Merged, RowsApart
      <4> QED BY <3>1, <4>1, <4>2
    <3>6. db' = db BY <2>23 DEF LocationsLoaded, serverVars, dataVars
    <3>7. CASE Notice(0) BY <2>12, <3>2, <3>7
    <3>8. CASE \A r \in Rows : Known(r, page.view[r], At)
      <4>1. ASSUME NEW r \in Rows PROVE Known(r, p.view[r], n)
        <5>1. n \in Nat /\ p.view[r] <= db[r] /\ page.view[r] <= p.view[r] /\ Known(r, page.view[r], n)
          BY <2>6, <3>3, <3>5, <3>6, <3>8
        <5> QED BY <2>6, <5>1, KnownMore
      <4> QED BY <2>8, <2>9, <3>2, <3>3, <4>1 DEF AllKnown
    <3> QED BY <2>9, <3>2, <3>7, <3>8
  <2> QED
    BY <1>3, <2>a, <2>14, <2>15, <2>16, <2>17, <2>18, <2>19, <2>20, <2>21, <2>22, <2>23, PageSteps
<1> QED BY <1>1, <1>2, <1>3

LEMMA ToldKept ==
  ASSUME DataTypes, LoopTypes, ConnTypes, PageTypes, DataInv, CountedInv, LoopInv, PipeInv, HandlerInv,
         ConnInv, FirstInv, BusyInv, CheckpointInv, RevisionInv, ToldInv, Next,
         DataTypes', LoopTypes', PageTypes', CheckpointInv'
  PROVE  ToldInv'
<1>1. ASSUME NEW r \in Rows
      PROVE  (\/ handler.at \notin {"check", "reply"}
              \/ handler.at = "check" /\ handler.omit /\ r \in Locations
              \/ Known(r, Says(handler.omit, handler.k, handler.rows, r), handler.n))'
  BY AnswerTold DEF Answering
<1>2. ASSUME Awaits(page, busy)'
      PROVE  (Notice(0) \/ \A r \in Rows : Known(r, page.view[r], At))'
  BY <1>2, PageTold
<1>3. ASSUME NEW j \in 1..Len(Pipe'), Pipe'[j].type = "snapshot"
      PROVE  (\/ Notice(j)
              \/ \A r \in Rows : Known(r, Says(Pipe[j].omitted, Pipe[j].locrev, Pipe[j].rows, r),
                                       Pipe[j].rev))'
  BY <1>3, PipeTold
<1> QED BY <1>1, <1>2, <1>3 DEF ToldInv, Awaits

-----------------------------------------------------------------------------
(* The theorems *)

LEMMA InitData ==
  ASSUME Init
  PROVE  DataTypes /\ LoopTypes /\ DataInv /\ CountedInv /\ LoopInv
<1>1. /\ 0 \in Versions /\ 0 \in 0..MaxCommits /\ NoRow \in Subject BY LimitsAssumption DEF Versions, Subject
<1>2. NoRows \in [Rows -> Versions] /\ \A r \in Rows : NoRows[r] = 0 BY Frees
<1>3. /\ db = NoRows /\ hooks = {} /\ locrev = 1 /\ counted = <<[l \in Locations |-> 0]>>
      /\ used = [commits |-> 0, robots |-> 0, failures |-> 0, loads |-> 0,
                 losses |-> 0, restarts |-> 0, reloads |-> 0]
  BY DEF Init
<1>4. /\ setup \in Setups /\ changes = <<>> /\ overflow = FALSE /\ history = <<>> /\ loop = IdleLoop("top")
      /\ cut = {}
  BY DEF Init
<1>5. /\ counted \in Seq([Locations -> Versions]) /\ Len(counted) = 1
      /\ \A l \in Locations : counted[1][l] = 0
  BY <1>1, <1>3
<1>6. used \in Uses /\ used.commits = 0 BY <1>1, <1>3 DEF Uses
<1>7. DataTypes BY <1>2, <1>3, <1>5, <1>6 DEF DataTypes
<1>8. DataInv /\ CountedInv
  <2>1. \A k \in 1..locrev, l \in Locations : counted[k][l] <= db[l] BY <1>2, <1>3, <1>5, RowsApart
  <2>2. \A l \in Locations : counted[locrev][l] = db[l] BY <1>2, <1>3, <1>5, RowsApart
  <2> QED BY <1>2, <1>3, <1>6, <2>1, <2>2 DEF DataInv, CountedInv
<1>9. LoopTypes
  <2>1. ChangesMax \in Nat BY <1>4, LimitsAssumption DEF ChangesMax
  <2>2. changes \in Seq(Items) /\ Len(changes) <= ChangesMax
    <3>1. changes \in Seq(Items) /\ Len(changes) = 0 BY <1>4
    <3> QED BY <2>1, <3>1
  <2>4. history \in Seq(Entries) BY <1>4
  <2>5. overflow \in BOOLEAN BY <1>4
  <2>3. loop \in [at : {"top", "get", "read", "publish"}, row : Subject, ver : Versions, locrev : Nat]
    BY <1>1, <1>4 DEF IdleLoop
  <2>6. setup \in Setups BY <1>4
  <2> QED BY <2>2, <2>3, <2>4, <2>5, <2>6 DEF LoopTypes
<1>10. LoopInv
  <2>1. Len(changes) = 0 /\ Revision = 0 /\ loop.at = "top" /\ loop.locrev = 0
    BY <1>4 DEF Revision, IdleLoop
  <2> QED BY <1>3, <1>4, <2>1 DEF LoopInv
<1> QED BY <1>7, <1>8, <1>9, <1>10

LEMMA InitKept ==
  ASSUME Init
  PROVE  IInv
<1>1. ServerInv
  <2>1. ConnTypes
    <3>1. handler = NoHandler /\ registered = FALSE /\ outq = <<>> /\ wire = <<>> /\ up = <<>> BY DEF Init
    <3>2. NoHandler \in Handlers
      <4>1. "none" \in Stages /\ FALSE \in BOOLEAN /\ 0 \in Nat BY DEF Stages
      <4> QED BY <4>1, NewHandler DEF NoHandler
    <3>3. outq \in Seq(Messages) /\ Len(outq) <= QueueMax BY <3>1, LimitsAssumption
    <3>4. wire \in Seq(Messages) /\ Len(wire) <= WireMax BY <3>1, LimitsAssumption
    <3>5. up \in Seq(Nat) BY <3>1
    <3>6. handler \in Handlers BY <3>1, <3>2
    <3>7. registered \in BOOLEAN BY <3>1
    <3> QED BY <3>3, <3>4, <3>5, <3>6, <3>7 DEF ConnTypes
  <2> QED BY <2>1, InitData DEF ServerInv
<1>2. /\ ~page.open /\ page.first /\ ~page.pending /\ ~page.old /\ page.revision = 0
      /\ page.locrev = 1 /\ page.view = db /\ page \in Pages
  <2>1. page = NewPage(1, db) BY DEF Init
  <2>2. db \in [Rows -> Versions] BY <1>1 DEF ServerInv, DataTypes
  <2>3. NewPage(1, db) \in Pages BY <2>2 DEF NewPage, Pages
  <2> QED BY <2>1, <2>3 DEF NewPage
<1>3. busy = Free /\ http = NoLoad /\ locrev = 1 /\ history = <<>> BY DEF Init
<1>4. Pipe = <<>> BY DEF Init, Pipe
<1>5. handler.at = "none" /\ ~handler.initial /\ handler.rest = <<>>
  BY DEF Init, NoHandler, Handler
<1>6. ClientInv
  <2>1. cache \in Caches /\ cache.locrev = 1 /\ cache.observed = 1 /\ cache.complete
        /\ cache.rows = [l \in Locations |-> 0]
    <3>1. counted[1] = [l \in Locations |-> 0] BY DEF Init
    <3>2. cache = [locrev |-> 1, observed |-> 1, complete |-> TRUE, rows |-> counted[1]] BY DEF Init
    <3>3. counted[1] \in [Locations -> Versions] BY <3>1, LimitsAssumption DEF Versions
    <3> QED BY <3>1, <3>2, <3>3 DEF Caches
  <2>2. DataTypes /\ DataInv BY InitData
  <2>3. \A r \in Rows : db[r] = 0 BY Frees DEF Init
  <2>4. counted[1] = [l \in Locations |-> 0] BY DEF Init
  <2>5. Backed(1, db, Rows) BY <1>3, <2>2, NowBacked
  <2>6. Backed(1, cache.rows, Locations) BY <1>3, <2>1, <2>3, <2>4, RowsApart DEF Backed
  <2>7. Backed(0, NoRows, Rows) BY <1>3, <2>3, Frees DEF Backed
  <2>8. CheckpointInv BY <1>2, <1>3, <2>1, <2>5, <2>6, <2>7, Frees DEF CheckpointInv
  <2> QED BY <1>2, <1>3, <2>1, <2>8, Frees DEF ClientInv, PageTypes
<1>7. LinkInv
  <2>1. PipeInv /\ HandlerInv BY <1>4, <1>5 DEF PipeInv, HandlerInv, Sound
  <2>2. ConnInv BY <1>2, <1>5 DEF Init, ConnInv
  <2>3. FirstInv /\ BusyInv BY <1>2, <1>3, Frees DEF FirstInv, BusyInv
  <2> QED BY <2>1, <2>2, <2>3 DEF LinkInv
<1>8. RevisionInv
  <2>1. At = 0 /\ Revision = 0 /\ busy.kind = "none" BY <1>2, <1>3, Frees DEF At, Revision
  <2> QED BY <2>1 DEF RevisionInv
<1>9. ShownInv /\ ToldInv BY <1>2, <1>4, <1>5 DEF ShownInv, ToldInv
<1> QED BY <1>1, <1>6, <1>7, <1>8, <1>9 DEF IInv

LEMMA StepKept ==
  ASSUME IInv, Next
  PROVE  IInv'
<1> USE DEF IInv, ServerInv, ClientInv, LinkInv
<1>1. DataTypes' /\ DataInv' /\ CountedInv' BY DataKept
<1>2. LoopTypes' /\ LoopInv' BY LoopKept
<1>3. PageTypes' /\ CheckpointInv' BY CheckpointKept
<1>4. handler' \in Handlers /\ registered' \in BOOLEAN /\ HandlerInv' BY HandlerKept
<1>5. ConnTypes'
  <2>1. up' \in Seq(Nat) BY UpKept
  <2>2. PipeTyped BY <1>1, <1>2, PipeFlows
  <2> QED BY <1>4, <2>1, <2>2 DEF ConnTypes, PipeTyped
<1>6. PipeInv' BY <1>1, <1>2, PipeKept
<1>7. ConnInv' BY ConnKept
<1>8. FirstInv' /\ BusyInv' BY FirstAndBusyKept
<1>9. RevisionInv' BY <1>3, RevisionKept
<1>10. ShownInv' BY <1>1, <1>2, <1>3, ShownKept
<1>11. ToldInv' BY <1>1, <1>2, <1>3, ToldKept
<1> QED BY <1>1, <1>2, <1>3, <1>4, <1>5, <1>6, <1>7, <1>8, <1>9, <1>10, <1>11

LEMMA StutterKept ==
  ASSUME IInv, UNCHANGED vars
  PROVE  IInv'
<1>1. UNCHANGED <<setup, db, hooks, locrev, counted, changes, overflow, history, loop, cut, missed,
                  handler, registered, outq, wire, up, used, page, busy, cache, http>>
  BY DEF vars, serverVars, dataVars, loopVars, lossVars, connVars, clientVars
<1>2. DataTypes' /\ DataInv' /\ CountedInv'
  BY <1>1 DEF IInv, ServerInv, DataTypes, DataInv, CountedInv
<1>3. LoopTypes' /\ LoopInv'
  BY <1>1 DEF IInv, ServerInv, LoopTypes, LoopInv, ChangesMax, Revision
<1>4. ConnTypes' BY <1>1 DEF IInv, ServerInv, ConnTypes
<1>5. PageTypes' /\ CheckpointInv'
  BY <1>1 DEF IInv, ClientInv, PageTypes, CheckpointInv, Backed
<1>6. PipeInv' /\ HandlerInv'
  <2>1. PipeInv /\ HandlerInv /\ Pipe' = Pipe /\ Revision' = Revision
    BY <1>1 DEF IInv, LinkInv, Pipe, Revision
  <2>2. ASSUME NEW m, Valid(m) PROVE Valid(m)'
    BY <1>1, <2>1, <2>2 DEF Valid, Covers, Event
  <2>3. PipeInv'
    <3>1. PICK p : p = Pipe OBVIOUS
    <3>2. Pipe' = p BY <2>1, <3>1
    <3>3. \A i \in 1..Len(p) : Valid(p[i])' BY <2>1, <2>2, <3>1 DEF PipeInv
    <3> QED BY <3>2, <3>3 DEF PipeInv
  <2>4. HandlerInv'
    <3>1. PICK h : h = handler OBVIOUS
    <3>2. Sound(h) /\ handler' = h BY <1>1, <2>1, <3>1 DEF HandlerInv
    <3>3. \A i \in 1..Len(h.rest) : Valid(h.rest[i])' BY <2>2, <3>2 DEF Sound
    <3>4. Sound(h)' BY <1>1, <2>1, <3>2, <3>3 DEF Sound, Covers
    <3> QED BY <3>2, <3>4 DEF HandlerInv
  <2> QED BY <2>3, <2>4
<1>7. ConnInv' /\ FirstInv' /\ BusyInv' BY <1>1 DEF IInv, LinkInv, ConnInv, FirstInv, BusyInv
<1>8. RevisionInv' BY <1>1 DEF IInv, RevisionInv, At, Revision
<1>9. ShownInv' BY <1>1 DEF IInv, ShownInv, Shows, Pipe, After, Outright, Revision
<1>10. ToldInv' BY <1>1 DEF IInv, ToldInv, Known, Pend, Says, Notice, Pipe, At, Revision
<1> QED BY <1>2, <1>3, <1>4, <1>5, <1>6, <1>7, <1>8, <1>9, <1>10
        DEF IInv, ServerInv, ClientInv, LinkInv

\* The inductive invariant of the channel.
THEOREM RuntimeKept == Spec => []IInv
<1>1. Init => IInv BY InitKept
<1>2. IInv /\ [Next]_vars => IInv' BY StepKept, StutterKept
<1> QED BY <1>1, <1>2, PTL DEF Spec

\* The state keeps its shape: the queues and the network keep to their bounds, and no page
\* and no cache holds a checkpoint that the server has not given (RuntimeChannel!TypeOK).
THEOREM Types == Spec => []TypeOK
<1>1. IInv => TypeOK
  <2> SUFFICES ASSUME IInv PROVE TypeOK OBVIOUS
  <2> USE DEF IInv, ServerInv, ClientInv
  <2>1. page \in Pages /\ page.locrev <= locrev /\ locrev \in Nat BY DEF PageTypes, CheckpointInv, Backed, DataTypes
  <2>2. page.locrev \in 0..locrev BY <2>1 DEF Pages
  <2>3. page \in [open : BOOLEAN, first : BOOLEAN, revision : Nat, old : BOOLEAN,
                  locrev : 0..locrev, pending : BOOLEAN, view : [Rows -> Versions]]
    BY <2>1, <2>2 DEF Pages
  <2>4. handler.at \in Stages BY DEF ConnTypes, Handlers
  <2>5. loop.at \in {"top", "get", "read", "publish"} BY DEF LoopTypes
  <2>6. busy.kind \in {"none", "snapshot", "event"} BY DEF PageTypes, Works
  <2> QED BY <2>3, <2>4, <2>5, <2>6 DEF TypeOK, DataTypes, LoopTypes, ConnTypes, CheckpointInv, Stages
<1> QED BY <1>1, RuntimeKept, PTL

\* No page and no complete cache holds a checkpoint that counts a location's version it
\* does not have (RuntimeChannel!CheckpointHonest).
THEOREM Checkpoints == Spec => []CheckpointHonest
<1>1. IInv => CheckpointHonest
  <2> SUFFICES ASSUME IInv PROVE CheckpointHonest OBVIOUS
  <2> USE DEF IInv, ServerInv, ClientInv
  <2>1. ASSUME page.locrev # 0, NEW l \in Locations PROVE page.view[l] >= counted[page.locrev][l]
    <3>1. page.locrev \in 1..locrev BY <2>1 DEF CheckpointInv, Backed, PageTypes, Pages, DataTypes
    <3>2. counted[page.locrev][l] \in Nat BY <3>1, CountsAreNumbers
    <3>3. page.view[l] \in Nat BY RowsApart, LimitsAssumption DEF PageTypes, Pages, Versions
    <3>4. counted[page.locrev][l] <= page.view[l] BY <2>1 DEF CheckpointInv, Backed
    <3> QED BY <3>2, <3>3, <3>4
  <2>2. ASSUME cache.complete, NEW l \in Locations PROVE cache.rows[l] >= counted[cache.locrev][l]
    <3>1. cache.locrev \in 1..locrev BY DEF CheckpointInv, PageTypes, Caches, DataTypes
    <3>2. counted[cache.locrev][l] \in Nat BY <3>1, CountsAreNumbers
    <3>3. cache.rows[l] \in Nat BY LimitsAssumption DEF PageTypes, Caches, Versions
    <3>4. counted[cache.locrev][l] <= cache.rows[l] BY <2>2 DEF CheckpointInv, Backed
    <3> QED BY <3>2, <3>3, <3>4
  <2> QED BY <2>1, <2>2 DEF CheckpointHonest
<1> QED BY <1>1, RuntimeKept, PTL

\* A page shows every published change of an order up to the revision it counts
\* (RuntimeChannel!RevisionHonest).
THEOREM Revisions == Spec => []RevisionHonest
<1>1. IInv => RevisionHonest
  <2> SUFFICES ASSUME IInv, ~page.old, busy.kind # "snapshot",
                      NEW i \in 1..Revision, i <= page.revision, history[i].row \in Orders
               PROVE  page.view[history[i].row] >= history[i].ver
    BY DEF RevisionHonest
  <2> USE DEF IInv, ServerInv, ClientInv
  <2>1. i \in 1..At BY DEF At, PageTypes, Pages
  <2>2. history[i].ver <= page.view[history[i].row] BY <2>1 DEF RevisionInv
  <2>3. history[i] \in Entries BY DEF LoopTypes, Revision
  <2>4. history[i].ver \in Nat /\ page.view[history[i].row] \in Nat
    BY <2>3, RowsApart, LimitsAssumption DEF Entries, PageTypes, Pages, Versions
  <2> QED BY <2>2, <2>4
<1> QED BY <1>1, RuntimeKept, PTL

\* When nothing is on its way the page shows the last version of every row, but those whose
\* change the loop dropped for good (RuntimeChannel!QuietMeansCurrent).
THEOREM Current == Spec => []QuietMeansCurrent
<1>1. IInv => QuietMeansCurrent
  <2> SUFFICES ASSUME IInv, Quiet, NEW r \in Rows
               PROVE  page.view[r] = db[r] \/ <<r, db[r]>> \in missed
    BY DEF QuietMeansCurrent
  <2> USE DEF IInv, ServerInv, ClientInv, LinkInv
  <2>1. /\ hooks = {} /\ changes = <<>> /\ ~overflow /\ loop.at \in {"top", "get"}
        /\ handler.at = "receive" /\ outq = <<>> /\ wire = <<>>
        /\ page.open /\ ~page.pending /\ busy = Free /\ page.revision = Revision
    BY DEF Quiet
  <2>2. ~page.first BY <2>1 DEF FirstInv, ConnInv
  <2>3. ~Notice(0)
    <3>1. Len(Pipe) = 0 BY <2>1 DEF Pipe
    <3> QED BY <3>1 DEF Notice
  <2>4. At = Revision /\ Revision \in Nat BY <2>1, Frees DEF At, LoopTypes, Revision
  <2>5. Known(r, page.view[r], Revision) BY <2>1, <2>2, <2>3, <2>4 DEF ToldInv
  <2>6. ~Pend(r)
    <3>1. cut = {} /\ Len(changes) = 0 BY <2>1 DEF LoopInv
    <3> QED BY <2>1, <3>1 DEF Pend
  <2>7. ~\E i \in 1..Revision : Revision < i BY <2>4
  <2> QED BY <2>5, <2>6, <2>7 DEF Known
<1> QED BY <1>1, RuntimeKept, PTL

LEMMA NeverBackStep ==
  ASSUME IInv, Next
  PROVE  ReloadPage \/ LateFirst \/ \A r \in Rows : page'.view[r] >= page.view[r]
<1> USE DEF IInv, ServerInv, ClientInv, LinkInv
<1>1. /\ page.view \in [Rows -> Versions] /\ \A r \in Rows : page.view[r] \in Nat /\ page.view[r] >= page.view[r]
  BY LimitsAssumption DEF PageTypes, Pages, Versions
<1>2. CASE ServerStep /\ UNCHANGED clientVars BY <1>1, <1>2 DEF clientVars
<1>3. CASE IgnoreSnapshot \/ IgnoreEvent BY <1>1, <1>3, IgnoreEffect
<1>4. CASE RejectSnapshot BY <1>1, <1>4, RejectEffect
<1>5. CASE HeartbeatArrives \/ ResyncRequiredArrives \/ GapInEvents BY <1>1, <1>5, AskEffect
<1>6. CASE ApplySnapshot
  <2>1. wire # <<>> /\ Head(wire).type = "snapshot" /\ page.open /\ busy = Free
    BY <1>6 DEF ApplySnapshot, Incoming
  <2>2. PICK m \in Snapshots : m = Head(wire) BY <2>1, Heads
  <2> DEFINE R == IF m.omitted THEN Orders ELSE Rows
  <2>3. page'.view = Merge(page.view, m.rows, R) /\ (page.first \/ m.rev >= page.revision)
    BY <1>6, <2>2, ApplySnapshotEffect
  <2>4. m.rows \in [Rows -> Versions] /\ m.rev \in Nat /\ page.revision \in Nat
        /\ \A r \in Rows : m.rows[r] \in Nat
    BY LimitsAssumption DEF Snapshots, PageTypes, Pages, Versions
  <2> HIDE DEF R
  <2>5. Shows(m.rows, m.rev)
    <3>1. 1 \in 1..Len(Pipe) /\ Pipe[1] = m /\ m.type = "snapshot" BY <2>1, <2>2, Heads
    <3> QED BY <3>1 DEF ShownInv
  <2>6. CASE \E r \in Orders : page.view[r] > 0 /\ m.rows[r] = 0
    <3>1. PICK r \in Orders : page.view[r] > 0 /\ m.rows[r] = 0 BY <2>6
    <3>2. ~Outright /\ After(m.rev, r) BY <2>5, <3>1 DEF Shows
    <3>3. m.rev < page.revision
      <4>1. PICK i \in 1..Revision : m.rev < i /\ i <= page.revision BY <3>2 DEF After
      <4> QED BY <4>1, <2>4
    <3>4. page.first BY <2>3, <2>4, <3>3
    <3>5. page.pending BY <2>1, <3>2, <3>4 DEF Outright
    <3> QED BY <2>1, <2>2, <3>3, <3>4, <3>5 DEF LateFirst
  <2>7. CASE ~\E r \in Orders : page.view[r] > 0 /\ m.rows[r] = 0
    <3>1. ASSUME NEW r \in Rows PROVE page'.view[r] >= page.view[r]
      <4>1. CASE r \notin R BY <4>1, <1>1, <2>3, <2>4, Merged
      <4>2. CASE r \in R /\ r \in Orders /\ m.rows[r] = 0
        <5>1. page.view[r] = 0 BY <4>2, <2>7, <1>1, RowsApart
        <5>2. page'.view[r] = 0 BY <4>2, <1>1, <2>3, <2>4, Merged
        <5> QED BY <5>1, <5>2
      <4>3. CASE r \in R /\ (r \notin Orders \/ m.rows[r] # 0)
        <5>1. page.view[r] <= page'.view[r] /\ page'.view[r] \in {page.view[r], m.rows[r]}
          BY <4>3, <1>1, <2>3, <2>4, Merged
        <5> QED BY <5>1, <1>1, <2>4
      <4> QED BY <4>1, <4>2, <4>3
    <3> QED BY <3>1
  <2> QED BY <2>6, <2>7
<1>7. CASE ApplyEvent
  <2>1. wire # <<>> /\ Head(wire).type = "event" BY <1>7 DEF ApplyEvent, Incoming
  <2>2. PICK m \in Events : m = Head(wire) BY <2>1, Heads
  <2>3. \A r \in Rows : IF r = m.row
                        THEN page'.view[r] \in {page.view[r], m.ver} /\ page.view[r] <= page'.view[r]
                        ELSE page'.view[r] = page.view[r]
    BY <1>7, <2>2, ApplyEventEffect
  <2>4. m.ver \in Nat BY LimitsAssumption DEF Events, Versions
  <2> QED BY <1>1, <2>3, <2>4
<1>8. CASE SnapshotWritten BY <1>1, <1>8, SnapshotWrittenEffect
<1>9. CASE EventWritten
  <2>1. busy.row \in Locations BY <1>9 DEF EventWritten, CheckpointInv
  <2> QED BY <1>1, <1>9, <2>1, EventWrittenEffect
<1>10. CASE LoadLocations BY <1>1, <1>10, LoadEffect
<1>11. CASE LocationsLoaded
  <2>1. page' = page \/ page'.view = Merge(page.view, http.rows, Locations) BY <1>11, LoadedEffect
  <2>2. http.rows \in [Rows -> Versions] /\ \A r \in Rows : http.rows[r] \in Nat
    BY LimitsAssumption DEF PageTypes, Loads, Versions
  <2>3. CASE page'.view = Merge(page.view, http.rows, Locations)
    <3>1. ASSUME NEW r \in Rows PROVE page'.view[r] >= page.view[r]
      <4>1. CASE r \notin Locations BY <4>1, <1>1, <2>2, <2>3, Merged
      <4>2. CASE r \in Locations
        <5>1. r \notin Orders BY <4>2, RowsApart
        <5>2. page.view[r] <= page'.view[r] /\ page'.view[r] \in {page.view[r], http.rows[r]}
          BY <4>2, <5>1, <1>1, <2>2, <2>3, Merged
        <5> QED BY <5>2, <1>1, <2>2
      <4> QED BY <4>1, <4>2
    <3> QED BY <3>1
  <2> QED BY <1>1, <2>1, <2>3
<1>12. CASE OpenSocket BY <1>1, <1>12, OpenEffect
<1>13. CASE Disconnection
  <2>1. CASE LoseConnection \/ RestartServer BY <1>1, <2>1, CloseEffect
  <2> QED BY <1>13, <2>1 DEF Disconnection
<1> QED BY <1>2, <1>3, <1>4, <1>5, <1>6, <1>7, <1>8, <1>9, <1>10, <1>11, <1>12, <1>13, PageSteps

\* What a page shows never goes back to an older version, but when it is reloaded or takes a
\* first snapshot that is late (RuntimeChannel!NoRegression).
THEOREM NeverBack == Spec => NoRegression
<1>1. IInv /\ [Next]_vars =>
          [ReloadPage \/ LateFirst \/ \A r \in Rows : page'.view[r] >= page.view[r]]_page
  <2> SUFFICES ASSUME IInv, [Next]_vars
               PROVE  [ReloadPage \/ LateFirst \/ \A r \in Rows : page'.view[r] >= page.view[r]]_page
    OBVIOUS
  <2>1. CASE Next BY <2>1, NeverBackStep
  <2>2. CASE UNCHANGED vars BY <2>2 DEF vars, clientVars
  <2> QED BY <2>1, <2>2
<1> QED BY <1>1, RuntimeKept, PTL DEF Spec, NoRegression
=============================================================================
