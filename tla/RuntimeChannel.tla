--------------------------- MODULE RuntimeChannel ---------------------------
(***************************************************************************)
(* The runtime channel: the server, the browser, the connections that are  *)
(* lost between them, restarts of the server and reloads of the page.      *)
(***************************************************************************)
EXTENDS RuntimeClient

vars == <<setup, serverVars, clientVars>>

NewPage(k, view) == [open |-> FALSE, first |-> TRUE, revision |-> 0, old |-> FALSE,
                     locrev |-> k, pending |-> FALSE, view |-> view]

\* The locations exist, no event yet, and a page that has just loaded its data.
Init ==
    /\ setup \in Setups
    /\ db = NoRows
    /\ hooks = {} /\ locrev = 1
    /\ counted = <<[l \in Locations |-> 0]>>
    /\ changes = <<>> /\ overflow = FALSE /\ history = <<>> /\ loop = IdleLoop("top")
    /\ handler = NoHandler /\ registered = FALSE
    /\ outq = <<>> /\ wire = <<>> /\ up = <<>>
    /\ cut = {} /\ missed = {}
    /\ used = [commits |-> 0, robots |-> 0, failures |-> 0, loads |-> 0,
               losses |-> 0, restarts |-> 0, reloads |-> 0]
    /\ cache = [locrev |-> 1, observed |-> 1, complete |-> TRUE, rows |-> counted[1]]
    /\ page = NewPage(1, db)
    /\ busy = Free /\ http = NoLoad

Disconnected ==
    /\ handler' = NoHandler /\ registered' = FALSE
    /\ outq' = <<>> /\ wire' = <<>> /\ up' = <<>>

\* connectRuntimeSocket: the page says which checkpoint it holds.
OpenSocket ==
    /\ ~page.open
    /\ page' = [page EXCEPT !.open = TRUE, !.first = TRUE, !.pending = FALSE]
    /\ handler' = Handler("key", TRUE, page.locrev)
    /\ missed' = {}
    /\ UNCHANGED <<dataVars, changes, overflow, history, loop, cut, registered, outq, wire, up, used, busy, cache, http>>

\* The socket closes, on both sides; what the page had begun to handle goes on.
LoseConnection ==
    /\ page.open /\ used.losses < MaxLosses
    /\ used' = [used EXCEPT !.losses = @ + 1]
    /\ page' = [page EXCEPT !.open = FALSE]
    /\ Disconnected
    /\ UNCHANGED <<dataVars, loopVars, busy, cache, http>>

\* A new process numbers its events from 1 and its checkpoints from the clock,
\* which is past every earlier checkpoint.
RestartServer ==
    /\ used.restarts < MaxRestarts
    /\ used' = [used EXCEPT !.restarts = @ + 1]
    /\ hooks' = {} /\ locrev' = locrev + 1
    /\ counted' = Append(counted, [l \in Locations |-> db[l]])
    /\ changes' = <<>> /\ overflow' = FALSE /\ history' = <<>> /\ loop' = IdleLoop("top")
    /\ cut' = {}
    /\ Disconnected
    /\ page' = [page EXCEPT !.open = FALSE, !.old = TRUE]
    /\ http' = NoLoad
    /\ UNCHANGED <<db, missed, busy, cache>>

\* A new page: loadLocationsCached takes the cache when it is complete and its
\* checkpoint is the server's, and asks for the locations otherwise.
ReloadPage ==
    /\ used.reloads < MaxReloads
    /\ used' = [used EXCEPT !.reloads = @ + 1]
    /\ IF cache.complete /\ cache.locrev = locrev
       THEN /\ page' = NewPage(locrev, [r \in Rows |->
                            IF r \in Locations THEN cache.rows[r] ELSE db[r]])
            /\ UNCHANGED cache
       ELSE /\ page' = NewPage(locrev, db)
            /\ cache' = Written(db, locrev)
    /\ Disconnected
    /\ busy' = Free /\ http' = NoLoad
    /\ UNCHANGED <<dataVars, loopVars>>

Next ==
    /\ \/ ServerStep /\ UNCHANGED clientVars
       \/ ClientStep
       \/ OpenSocket \/ LoseConnection \/ RestartServer \/ ReloadPage
    /\ UNCHANGED setup

Spec == Init /\ [][Next]_vars

---------------------------------------------------------------------------
(* Properties *)

Versions == 0..MaxCommits
TypeOK ==
    /\ db \in [Rows -> Versions]
    /\ locrev \in Nat /\ Len(counted) = locrev
    /\ Len(changes) <= ChangesMax /\ Len(outq) <= QueueMax /\ Len(wire) <= WireMax
    /\ overflow \in BOOLEAN /\ registered \in BOOLEAN
    /\ loop.at \in {"top", "get", "read", "publish"}
    /\ handler.at \in {"none", "key", "revision", "rows", "check", "reply", "give_up",
                       "connect", "replay", "receive"}
    /\ page \in [open : BOOLEAN, first : BOOLEAN, revision : Nat, old : BOOLEAN,
                 locrev : 0..locrev, pending : BOOLEAN, view : [Rows -> Versions]]
    /\ busy.kind \in {"none", "snapshot", "event"}
    /\ cache.locrev <= locrev /\ cache.observed <= locrev

\* A page, or a complete cache, that holds a checkpoint has every location at
\* least as new as the checkpoint counts: a checkpoint may come late, and it is
\* never certified incomplete.
CheckpointHonest ==
    /\ page.locrev # 0 =>
           \A l \in Locations : page.view[l] >= counted[page.locrev][l]
    /\ cache.complete => \A l \in Locations : cache.rows[l] >= counted[cache.locrev][l]

\* A page at revision r shows every change of an order published up to r: what it
\* ignores as a duplicate brings nothing, unless r was counted by an earlier process.
\* (A location may be published before its commit is counted, and is then published
\* again: see QuietMeansCurrent.)
RevisionHonest ==
    ~page.old /\ busy.kind # "snapshot" =>
        \A i \in 1..Revision : i <= page.revision /\ history[i].row \in Orders =>
            page.view[history[i].row] >= history[i].ver

\* Nothing is on its way to the page, and the next heartbeat will say nothing.
Quiet ==
    /\ hooks = {} /\ changes = <<>> /\ ~overflow /\ loop.at \in {"top", "get"}
    /\ handler.at = "receive" /\ outq = <<>> /\ wire = <<>> /\ up = <<>>
    /\ page.open /\ ~page.pending /\ busy = Free /\ page.revision = Revision

\* When the channel is quiet the page shows the last version of every row, but those
\* whose change the loop dropped for good: while nobody was there to publish to, because
\* its conversion failed, or in an overflow whose notice found the browser unregistered
\* or waiting for a snapshot read before.  (A page that waits for a snapshot is not
\* quiet; one may wait for ever, see the README.)
QuietMeansCurrent ==
    Quiet => \A r \in Rows : page.view[r] = db[r] \/ <<r, db[r]>> \in missed

\* The server gave up the first snapshot of the connection, and the one that the page
\* asked for instead is older than the events that came before it: it is taken all the
\* same (app.js:1917).
LateFirst ==
    page.first /\ page.pending /\ wire # <<>> /\ Head(wire).type = "snapshot"
               /\ Head(wire).rev < page.revision

\* What a page shows never goes back to an older version, until it is reloaded or takes
\* such a late snapshot.
NoRegression ==
    [][ReloadPage \/ LateFirst \/ \A r \in Rows : page'.view[r] >= page.view[r]]_page
=============================================================================
