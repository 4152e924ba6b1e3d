---------------------------- MODULE RuntimeClient ----------------------------
(***************************************************************************)
(* The browser's side of the runtime channel (static/app.js): one page, its*)
(* socket, the cache of locations in IndexedDB, and the loads over HTTP    *)
(* that run beside the socket.  Rows carry updated_at, which every writer  *)
(* of a location or an order renews: a version stands for it.              *)
(***************************************************************************)
EXTENDS RuntimeServer

VARIABLES
    page,   \* what the page shows, the state of its socket, and, as history, whether its
            \* revision counts the events of an earlier process (old)
    busy,   \* the message whose handler awaits IndexedDB
    cache,  \* the locations in IndexedDB and their metadata
    http    \* a load of the locations whose answer is on its way

clientVars == <<page, busy, cache, http>>

Free   == [kind |-> "none", rev |-> 0, locrev |-> 0, row |-> NoRow, ver |-> 0, rows |-> NoRows]
NoLoad == [at |-> "none", started |-> 0, locrev |-> 0, rows |-> NoRows]

\* entityUpdateIsOlder decides which version is shown.  Mutant: the incoming one.
Arrived(shown, incoming) == incoming
Fresher(shown, incoming)   == Newer(shown, incoming)

\* mergeEntityUpdate on the rows R: what is shown gives way to an update that is
\* not older; an order that is not among the rows is shown no more.
Merge(shown, rows, R) ==
    [r \in Rows |-> IF r \notin R THEN shown[r]
                    ELSE IF r \in Orders /\ rows[r] = 0 THEN 0 ELSE Fresher(shown[r], rows[r])]

\* requestRuntimeResync, on the page p: one request at a time.
Request(p) ==
    IF p.pending \/ ~p.open THEN page' = p /\ UNCHANGED up
    ELSE page' = [p EXCEPT !.pending = TRUE] /\ up' = Append(up, p.locrev)

\* The next message, unless the one before it is still being handled.
Incoming(type) == page.open /\ busy = Free /\ wire # <<>> /\ Head(wire).type = type

Delivered ==
    /\ wire' = Tail(wire)
    /\ UNCHANGED <<dataVars, loopVars, handler, registered, outq, used, http>>

---------------------------------------------------------------------------
(* The message listener of connectRuntimeSocket *)

\* A snapshot that is older than the page is ignored.
IgnoreSnapshot ==
    /\ Incoming("snapshot")
    /\ ~page.first /\ Head(wire).rev < page.revision
    /\ Delivered
    /\ UNCHANGED <<up, page, busy, cache>>

\* It leaves out the locations of a checkpoint the page does not hold.
RejectSnapshot ==
    LET m == Head(wire) IN
    /\ Incoming("snapshot")
    /\ page.first \/ m.rev >= page.revision
    /\ m.omitted /\ page.locrev # m.locrev
    /\ Request([page EXCEPT !.first = FALSE, !.pending = FALSE])
    /\ Delivered
    /\ UNCHANGED <<busy, cache>>

ApplySnapshot ==
    LET m == Head(wire)
        p == [page EXCEPT !.first = FALSE, !.old = FALSE, !.locrev = m.locrev,
                !.view = Merge(page.view, m.rows,
                               IF m.omitted THEN Orders ELSE Rows)]
    IN  /\ Incoming("snapshot")
        /\ page.first \/ m.rev >= page.revision
        /\ ~m.omitted \/ page.locrev = m.locrev
        /\ IF m.omitted
           THEN /\ page' = [p EXCEPT !.revision = m.rev, !.pending = FALSE]
                /\ UNCHANGED busy
           ELSE /\ page' = p
                /\ busy' = [Free EXCEPT !.kind = "snapshot", !.rev = m.rev,
                                        !.locrev = m.locrev, !.rows = m.rows]
        /\ Delivered
        /\ UNCHANGED <<up, cache>>

HeartbeatArrives ==
    /\ Incoming("heartbeat")
    /\ IF Head(wire).rev > page.revision THEN Request(page) ELSE UNCHANGED <<page, up>>
    /\ Delivered
    /\ UNCHANGED <<busy, cache>>

ResyncRequiredArrives ==
    /\ Incoming("resync_required")
    /\ Request(page)
    /\ Delivered
    /\ UNCHANGED <<busy, cache>>

\* applyRuntimeIncrementalMessage: an old event is ignored, a gap asks for a
\* snapshot.
IgnoreEvent ==
    /\ Incoming("event")
    /\ Head(wire).rev <= page.revision
    /\ Delivered
    /\ UNCHANGED <<up, page, busy, cache>>

GapInEvents ==
    /\ Incoming("event")
    /\ Head(wire).rev > page.revision + 1
    /\ Request(page)
    /\ Delivered
    /\ UNCHANGED <<busy, cache>>

\* The next event; one about a location gives up the checkpoint and goes on
\* when IndexedDB has it.
ApplyEvent ==
    LET m == Head(wire) IN
    /\ Incoming("event")
    /\ m.rev = page.revision + 1
    /\ \/ /\ m.row \notin Locations
          /\ page' = [page EXCEPT !.revision = m.rev, !.view =
                [r \in Rows |-> IF r = m.row THEN Fresher(@[r], m.ver) ELSE @[r]]]
          /\ UNCHANGED busy
       \/ /\ m.row \in Locations
          /\ page' = [page EXCEPT !.locrev = 0, !.view[m.row] = Fresher(@, m.ver)]
          /\ busy' = [Free EXCEPT !.kind = "event", !.rev = m.rev,
                            !.locrev = m.locrev, !.row = m.row, !.ver = m.ver]
    /\ Delivered
    /\ UNCHANGED <<up, cache>>

---------------------------------------------------------------------------
(* IndexedDB *)

\* writeLocationsCache: a write older than anything seen is aborted.
Written(rows, k) ==
    IF Newer(cache.locrev, cache.observed) > k THEN cache
    ELSE [locrev |-> k, observed |-> k, complete |-> TRUE,
          rows |-> [l \in Locations |-> rows[l]]]

SnapshotWritten ==
    /\ busy.kind = "snapshot"
    /\ cache' = Written(busy.rows, busy.locrev)
    /\ page' = [page EXCEPT !.revision = busy.rev, !.pending = FALSE]
    /\ busy' = Free
    /\ UNCHANGED <<serverVars, http>>

\* updateLocationsCacheRecord, and the rest of the event's handler.
EventWritten ==
    LET p == [page EXCEPT !.revision = busy.rev] IN
    /\ busy.kind = "event"
    /\ cache' = IF cache.locrev = 0 \/ cache.locrev > busy.locrev THEN cache
                ELSE [cache EXCEPT !.complete = FALSE, !.rows[busy.row] = busy.ver,
                                   !.observed = Newer(@, busy.locrev)]
    /\ IF page.locrev = 0 THEN Request(p) ELSE page' = p /\ UNCHANGED up
    /\ busy' = Free
    /\ UNCHANGED <<dataVars, loopVars, handler, registered, outq, wire, used, http>>

---------------------------------------------------------------------------
(* loadLocations: GET /api/locations beside the socket *)

\* The answer, with its checkpoint, or none when the revision kept changing.
LoadLocations ==
    /\ http = NoLoad /\ used.loads < MaxLoads
    /\ used' = [used EXCEPT !.loads = @ + 1]
    /\ \E k \in {locrev, 0} :
           http' = [at |-> "answered", started |-> page.revision, locrev |-> k, rows |-> db]
    /\ UNCHANGED <<dataVars, loopVars, connVars, page, busy, cache>>

LocationsLoaded ==
    /\ http # NoLoad
    /\ http' = NoLoad
    /\ IF \/ page.revision # http.started
          \/ http.locrev # 0 /\ page.locrev # 0 /\ http.locrev < page.locrev
       THEN UNCHANGED <<page, cache>>
       ELSE /\ page' = [page EXCEPT !.view = Merge(@, http.rows, Locations),
                                    !.locrev = http.locrev]
            /\ cache' = IF http.locrev = 0 THEN cache ELSE Written(http.rows, http.locrev)
    /\ UNCHANGED <<serverVars, busy>>

ClientStep ==
    \/ IgnoreSnapshot \/ RejectSnapshot \/ ApplySnapshot
    \/ HeartbeatArrives \/ ResyncRequiredArrives
    \/ IgnoreEvent \/ GapInEvents \/ ApplyEvent
    \/ SnapshotWritten \/ EventWritten
    \/ LoadLocations \/ LocationsLoaded
=============================================================================
