---------------------------- MODULE RuntimeServer ----------------------------
(***************************************************************************)
(* The server's side of the runtime channel (main.py): rows of the         *)
(* database are committed by any thread, a hook of the session turns each  *)
(* commit into changes, one loop turns the changes into numbered events    *)
(* and broadcasts them, and one handler per browser answers with           *)
(* snapshots.  There is one browser in the model: browsers meet only in    *)
(* the number of connections, see OthersConnected.                         *)
(***************************************************************************)
EXTENDS Integers, Sequences, SequencesExt

CONSTANTS
    Locations, Orders,  \* rows: locations always exist, orders are created
    NoRow,              \* the row of an event about robots
    QueueMax,           \* messages waiting for one browser (100 in the code)
    HistoryMax,         \* events kept for a reconnection (1000)
    WireMax,            \* bound: messages in the network
    MaxCommits,         \* bound: commits
    Setups              \* what a behaviour may meet, see setup

Rows == Locations \cup Orders

ASSUME RowsAssumption ==
    Locations \cap Orders = {} /\ NoRow \notin Rows /\ IsFiniteSet(Rows)
ASSUME LimitsAssumption ==
    /\ {QueueMax, HistoryMax, WireMax} \subseteq Nat \ {0} /\ MaxCommits \in Nat
    /\ Setups \subseteq [others : BOOLEAN, changes : Nat \ {0}, attempts : Nat \ {0},
                         robots : Nat, failures : Nat, loads : Nat,
                         losses : Nat, restarts : Nat, reloads : Nat]

VARIABLES
    setup,      \* one of Setups, for the whole behaviour
    db,         \* version of each row as committed; an order at 0 is yet to come
    hooks,      \* commits whose after_commit hook has not run
    locrev,     \* _locations_revision
    counted,    \* what each value of locrev counts: counted[k] has versions
    changes,    \* _runtime_event_queue
    overflow,   \* _runtime_queue_overflow
    history,    \* every event since the start; revision i is history[i]
    loop,       \* where _runtime_broadcast_loop is
    handler,    \* where the browser's websocket handler is
    registered, \* whether the browser is in _connections
    outq,       \* the browser's queue in _connections
    wire, up,   \* the network, to the browser and from it
    cut,        \* history: the versions whose change did not fit in the queue, unannounced yet
    missed,     \* history: the versions no event and no notice tells, since the socket opened
    used        \* how often the bounded events happened

dataVars == <<db, hooks, locrev, counted>>
lossVars == <<cut, missed>>
loopVars == <<changes, overflow, history, loop, lossVars>>
connVars == <<handler, registered, outq, wire, up>>
serverVars == <<dataVars, loopVars, connVars, used>>

\* The setup: whether some other browser is connected all the time, the items
\* that may wait for the loop (2048), the reads of a snapshot before it gives
\* up (3), and how often each event of the environment may happen.
OthersConnected  == setup.others
ChangesMax       == setup.changes
SnapshotAttempts == setup.attempts
MaxRobots        == setup.robots
MaxFailures      == setup.failures
MaxLoads         == setup.loads
MaxLosses        == setup.losses
MaxRestarts      == setup.restarts
MaxReloads       == setup.reloads

Revision == Len(history)
Newer(v, w) == IF v < w THEN w ELSE v

Event(i)         == [type |-> "event", rev |-> i, row |-> history[i].row,
                     ver |-> history[i].ver, locrev |-> history[i].locrev]
ResyncRequired   == [type |-> "resync_required"]
Heartbeat(r)     == [type |-> "heartbeat", rev |-> r]

\* A snapshot bears the revisions that were read before its rows.  Mutants: the
\* revisions of the moment it is sent.
LocationsNow(h)     == locrev
RevisionNow(h)      == Revision
LocationsBefore(h)  == h.k
RevisionBefore(h)   == h.n
Snapshot(h) == [type |-> "snapshot", rev |-> RevisionBefore(h),
                locrev |-> LocationsBefore(h), omitted |-> h.omit, rows |-> h.rows]

NoRows    == [r \in Rows |-> 0]
IdleLoop(at) == [at |-> at, row |-> NoRow, ver |-> 0, locrev |-> 0]
Handler(at, initial, ck) ==
    [at |-> at, initial |-> initial, ck |-> ck, attempt |-> 1, k |-> 0, n |-> 0,
     omit |-> FALSE, rows |-> NoRows, rest |-> <<>>]
NoHandler == Handler("none", FALSE, 0)

---------------------------------------------------------------------------
(* Commits and the session's hooks *)

\* A transaction that writes the rows R commits; its hook runs later.
Commit(R) ==
    /\ R # {} /\ used.commits < MaxCommits
    /\ used' = [used EXCEPT !.commits = @ + 1]
    /\ db' = [r \in Rows |-> IF r \in R THEN db[r] + 1 ELSE db[r]]
    /\ hooks' = hooks \cup {[r \in R |-> db[r] + 1]}
    /\ UNCHANGED <<locrev, counted, loopVars, connVars>>

\* Items beyond the queue's size are lost, and the loop will say so.
Enqueue(items) ==
    LET all == changes \o items
    IN  IF Len(all) <= ChangesMax THEN changes' = all /\ UNCHANGED overflow
        ELSE changes' = SubSeq(all, 1, ChangesMax) /\ overflow' = TRUE

\* Whether a commit counts in the locations' revision.  Mutant: not with an order.
CountsAlone(R) == R # {} /\ R \subseteq Locations
Counts(R)      == R \cap Locations # {}

\* _publish_runtime_session_changes: a commit with a location counts in the
\* locations' revision, and every row of it becomes a change.
AfterCommit(h) ==
    LET R    == DOMAIN h
        last == counted[locrev]
    IN  /\ h \in hooks
        /\ hooks' = hooks \ {h}
        /\ IF ~Counts(R) THEN UNCHANGED <<locrev, counted>>
           ELSE /\ locrev' = locrev + 1
                /\ counted' = Append(counted, [l \in Locations |->
                        IF l \in R THEN Newer(last[l], h[l]) ELSE last[l]])
        /\ Enqueue([i \in 1..Len(SetToSeq(R)) |->
                        [kind |-> "change", row |-> SetToSeq(R)[i], rev |-> 0]])
        /\ cut' = cut \cup {<<r, h[r]>> : r \in {q \in R :
                                \A i \in DOMAIN changes' : changes'[i].row # q}}
        /\ UNCHANGED <<db, history, loop, missed, connVars, used>>

---------------------------------------------------------------------------
(* _runtime_broadcast_loop *)

\* Room in the browser's queue.  Mutant: a queue without a limit.
AlwaysRoom == TRUE
Room       == Len(outq) < QueueMax

\* RuntimeWebSocketManager.broadcast_json: a full queue is emptied and the
\* browser is told to ask for a snapshot.
Broadcast(m) ==
    outq' = IF ~registered THEN outq
            ELSE IF Room THEN Append(outq, m)
            ELSE <<ResyncRequired>>

\* A page that waits for a snapshot whose rows are read takes no notice.
Heeded == registered /\ handler.at \notin {"check", "reply"}

LoopTop ==
    /\ loop.at = "top"
    /\ loop' = IdleLoop("get")
    /\ overflow' = FALSE
    /\ IF overflow THEN Broadcast(ResyncRequired) ELSE UNCHANGED outq
    /\ cut' = {}
    /\ missed' = IF Heeded THEN missed ELSE missed \cup cut
    /\ UNCHANGED <<dataVars, changes, history, handler, registered, wire, up, used>>

\* A change is dropped while nobody is connected.
LoopGet ==
    /\ loop.at = "get" /\ changes # <<>>
    /\ LET item == Head(changes) IN
       \/ /\ item.kind = "message"
          /\ Broadcast(Event(item.rev))
          /\ loop' = IdleLoop("top")
          /\ UNCHANGED missed
       \/ /\ item.kind = "change" /\ ~registered /\ ~OthersConnected
          /\ loop' = IdleLoop("top")
          /\ missed' = missed \cup {<<item.row, db[item.row]>>}
          /\ UNCHANGED outq
       \/ /\ item.kind = "change" /\ (registered \/ OthersConnected)
          /\ loop' = [IdleLoop("read") EXCEPT !.row = item.row]
          /\ UNCHANGED <<missed, outq>>
    /\ changes' = Tail(changes)
    /\ UNCHANGED <<dataVars, overflow, history, cut, handler, registered, wire, up, used>>

LoopHeartbeat ==
    /\ loop.at = "get" /\ changes = <<>>
    /\ loop' = IdleLoop("top")
    /\ Broadcast(Heartbeat(Revision))
    /\ UNCHANGED <<dataVars, changes, overflow, history, lossVars, handler, registered, wire, up, used>>

\* _runtime_change_to_event, in a worker thread: the row as it is now.
LoopRead ==
    /\ loop.at = "read"
    /\ loop' = [loop EXCEPT !.at = "publish", !.ver = db[loop.row],
                            !.locrev = IF loop.row \in Locations THEN locrev ELSE 0]
    /\ UNCHANGED <<dataVars, changes, overflow, history, lossVars, connVars, used>>

\* The conversion raises; the loop logs it and goes on without the change.
LoopFails ==
    /\ loop.at = "read" /\ used.failures < MaxFailures
    /\ loop' = IdleLoop("top")
    /\ used' = [used EXCEPT !.failures = @ + 1]
    /\ missed' = missed \cup {<<loop.row, db[loop.row]>>}
    /\ UNCHANGED <<dataVars, changes, overflow, history, cut, connVars>>

LoopPublish ==
    /\ loop.at = "publish"
    /\ history' = Append(history,
                         [row |-> loop.row, ver |-> loop.ver, locrev |-> loop.locrev])
    /\ Broadcast(Event(Revision)')
    /\ loop' = IdleLoop("top")
    /\ UNCHANGED <<dataVars, changes, overflow, lossVars, handler, registered, wire, up, used>>

\* The robot monitor publishes from threads of its own: the event has its
\* revision now and reaches the loop later.
PublishRobots ==
    /\ used.robots < MaxRobots
    /\ used' = [used EXCEPT !.robots = @ + 1]
    /\ history' = Append(history, [row |-> NoRow, ver |-> 0, locrev |-> 0])
    /\ Enqueue(<<[kind |-> "message", row |-> NoRow, rev |-> Revision + 1]>>)
    /\ UNCHANGED <<dataVars, loop, lossVars, connVars>>

---------------------------------------------------------------------------
(* runtime_websocket and _build_runtime_snapshot_message *)

SnapshotKey ==
    /\ handler.at = "key"
    /\ handler' = [handler EXCEPT !.at = "revision", !.k = locrev,
                                  !.omit = (handler.ck = locrev)]
    /\ UNCHANGED <<dataVars, loopVars, registered, outq, wire, up, used>>

SnapshotRevision ==
    /\ handler.at = "revision"
    /\ handler' = [handler EXCEPT !.at = "rows", !.n = Revision]
    /\ UNCHANGED <<dataVars, loopVars, registered, outq, wire, up, used>>

SnapshotRows ==
    /\ handler.at = "rows"
    /\ handler' = [handler EXCEPT !.at = "check", !.rows =
            [r \in Rows |-> IF handler.omit /\ r \in Locations THEN 0 ELSE db[r]]]
    /\ UNCHANGED <<dataVars, loopVars, registered, outq, wire, up, used>>

\* A snapshot during which locations changed is read again, with its locations.
SnapshotCheck ==
    /\ handler.at = "check"
    /\ handler' =
         IF handler.k = locrev THEN [handler EXCEPT !.at = "reply", !.attempt = 1, !.ck = 0]
         ELSE IF handler.attempt < SnapshotAttempts
           THEN [Handler("key", handler.initial, 0) EXCEPT !.attempt = handler.attempt + 1]
           ELSE [Handler("give_up", handler.initial, 0) EXCEPT !.n = Revision]
    /\ UNCHANGED <<dataVars, loopVars, registered, outq, wire, up, used>>

\* The first answer goes straight to the socket, the others through the queue.
Reply ==
    LET m == IF handler.at = "reply" THEN Snapshot(handler) ELSE ResyncRequired
    IN  /\ handler.at \in {"reply", "give_up"}
        /\ IF handler.initial
           THEN /\ Len(wire) < WireMax
                /\ wire' = Append(wire, m)
                /\ handler' = [Handler("connect", TRUE, 0) EXCEPT !.n = handler.n]
                /\ UNCHANGED outq
           ELSE /\ Room
                /\ outq' = Append(outq, m)
                /\ handler' = Handler("receive", FALSE, 0)
                /\ UNCHANGED wire
        /\ UNCHANGED <<dataVars, loopVars, registered, up, used>>

\* connect, and _runtime_events_since the snapshot's revision.
Connect ==
    /\ handler.at = "connect"
    /\ registered' = TRUE
    /\ LET first == Newer(handler.n, Revision - HistoryMax) + 1
       IN  handler' = [Handler("replay", FALSE, 0) EXCEPT
                !.rest = [i \in 1..(Revision - first + 1) |-> Event(first + i - 1)]]
    /\ UNCHANGED <<dataVars, loopVars, outq, wire, up, used>>

Replay ==
    /\ handler.at = "replay"
    /\ IF handler.rest = <<>>
       THEN handler' = Handler("receive", FALSE, 0) /\ UNCHANGED outq
       ELSE /\ Room
            /\ outq' = Append(outq, Head(handler.rest))
            /\ handler' = [handler EXCEPT !.rest = Tail(handler.rest)]
    /\ UNCHANGED <<dataVars, loopVars, registered, wire, up, used>>

ReceiveResync ==
    /\ handler.at = "receive" /\ up # <<>>
    /\ handler' = Handler("key", FALSE, Head(up))
    /\ up' = Tail(up)
    /\ UNCHANGED <<dataVars, loopVars, registered, outq, wire, used>>

\* RuntimeWebSocketManager._sender
Sender ==
    /\ outq # <<>> /\ Len(wire) < WireMax
    /\ wire' = Append(wire, Head(outq))
    /\ outq' = Tail(outq)
    /\ UNCHANGED <<dataVars, loopVars, handler, registered, up, used>>

ServerStep ==
    \/ \E R \in SUBSET Rows : Commit(R)
    \/ \E h \in hooks : AfterCommit(h)
    \/ LoopTop \/ LoopGet \/ LoopHeartbeat \/ LoopRead \/ LoopFails \/ LoopPublish
    \/ PublishRobots
    \/ SnapshotKey \/ SnapshotRevision \/ SnapshotRows \/ SnapshotCheck
    \/ Reply \/ Connect \/ Replay \/ ReceiveResync \/ Sender
=============================================================================
