# Verification of the AMR dispatch system

This directory holds TLA+ specifications of the dispatch system in this
repository: a FastAPI server (`main.py` and its services) that creates movement
orders for racks, has an external fleet manager (the RCS) execute them, follows
them, and keeps the local inventory of racks and cells.  The specifications are
checked with TLC on small instances; nearly all their safety properties are proved
with TLAPS for every size (section 4).  Seven parts are
modelled: the life cycle of single orders; groups of orders (FIFO chains and
automatic-priority batches); the channel that keeps the browsers' pages current;
the scanner and what a scan creates; the selection and the preview of chains; the
transitions a completion applies and the configuration behind them; and the
inventory with its editors, the retries of the RCS client and the rack
synchronisation.

## 1. Inventory

| Component | State | Operations | Interacts through |
|---|---|---|---|
| Order creation and dispatch (`fifo_service.py`, `main._dispatch_movement_order`) | `movement_orders`, `racks.status`, `locations.rack_id` | claim rack and cell, insert order, claim and send `createTask`, store the outcome, compensate | HTTP to the RCS, shared tables |
| Task monitor (`monitor_service.py`) | thread, `rcs_*` columns | query active tasks, record and apply answers, move the rack, finish a cancel with return | HTTP to the RCS, shared tables, hooks of chains and transitions |
| Cancellation (`main._execute_cancel_for_order`, `_rack_position_poll_worker`) | cancel claim, poll thread | claim, `cancelTask`, reply, follow the rack | HTTP to the RCS, shared tables |
| Administrator recovery (`main.py`) | `forced_local_close` | forced close, cleanup, manual release and reservation, position query, simulated completion | shared tables |
| FIFO chain (`fifo_chain_service.py`) | chain columns of the order | next step, stop, retry, recovery at startup | completion hook, dispatch |
| Automatic priority (`automatic_priority_service.py`) | group columns of the order | send a batch, stop it, recover it | dispatch, compensation |
| Runtime channel (`main.py`, `static/app.js`) | revisions, history, queues | publish, broadcast, snapshot, resync | SQLAlchemy session events, websocket |
| QR transitions (`qr_transition_service.py`, endpoints in `main.py`) | rules, labels, stations, terminals, the log of transitions | edit, delete and restore a row, rank the rules, apply the one that fits, retry by hand | completion hook, shared tables |
| Scanner and PDA (`scanner_service.py`) | `scan_events`, locks per scanner and label | preview, execute a scan by one of five routes | creation and dispatch of orders, groups |
| RCS client (`rcs_client.py`) | an attempt counter per call | post with retries and redirects, classify what happened | HTTP to the RCS |
| Context cell editor, catalogs, operator windows (`main.py`) | `locations`, `racks`, `operator_windows` | open and save the form, the older endpoints, delete a window | shared tables |
| Rack synchronisation (`main.py`) | a run, the date of the last one | count, list, query, bind, mark the day | HTTP to the RCS, shared tables, scheduler thread |
| Robot monitor cache, runtime lease, update and backup, migration, observability, web pages | see section 5 | | |

What is hard here: every request runs in a thread of its own over one SQLite
file, no lock is held across a call to the RCS, and the RCS may accept a request
long after its client gave up.  The code answers with *claims* (a conditional
UPDATE committed before the network call), with *dummy updates* (an UPDATE that
only takes the writer lock before a read), and with the rule that an outcome
that is not settled releases nothing.  Whether these suffice when claims, late
answers, cancellations, closings by hand and restarts interleave is what the
properties ask.  `undo_movement_order` of `fifo_service.py` is imported and never
called, so it is no operation of the system.

What makes each component correct:

- dispatch: racks and destinations are exclusive, `createTask` leaves once, and a
  task that may exist is never orphaned;
- monitor: a closed order stays closed, a completion moves the rack once, and an
  ended task is closed in the end;
- cancellation: it releases nothing the RCS has not ended;
- recovery: an administrator's edit never disturbs an order in force, and a close
  by hand is final;
- chain: a step is created at most once and after its predecessor, a stop is
  obeyed, and the chain goes on after a crash;
- automatic priority: the legs leave in order, none twice, and no reservation of an
  unsent leg outlives its sender;
- runtime channel: what a page certifies (its checkpoint, its revision) it holds, and
  a page with nothing left to receive shows the database;
- scanner: a label scanned twice makes one order, orders of different labels share no
  rack and no cell, and whatever a scan made before it failed is reported;
- chain plan: what a preview showed is what the chain does when nobody interferes,
  and what it creates fits the floor when somebody does;
- transitions: one is applied per order, the rules that are active always rank, and
  no accepted sequence of edits breaks the references between active rows;
- inventory: the route of an order stands while its request may still move the rack,
  and no save overwrites a change its form did not show;
- RCS client: a request that may have left is never taken for one that did not;
- rack synchronisation: what a finished run reports is so.

`hazards` in `PROJECT.json` lists, line by line, what could break these.

## 2. Modules

| Module | What it models |
|---|---|
| `OrderState` | the shared tables, the RCS's side of each order, the program counters of the handlers, `TypeOK`, the helpers every handler calls |
| `OrderDispatch` | creation, dispatch, compensation, and the RCS (external) |
| `OrderMonitor` | status queries and `apply_remote_status_to_order` |
| `OrderCancel` | cancellation and the position poll |
| `OrderRecovery` | what an administrator may do |
| `MovementOrders` | the composition, restarts, the properties, fairness, the refinement mapping |
| `TransportLedger` | the abstract specification: a ledger of transports |
| `MCMovementOrders` | model values and symmetry for TLC |
| `MovementOrdersProofs`, `LedgerProofs` | the theorems |
| `GroupState` | the orders of one group, how one is sent, and what ends it |
| `FifoChain` | the hook of a completion, `_finish_chain_dispatch`, `recover_fifo_chains` |
| `PriorityBatch` | `execute_group`, `recover_interrupted_groups` |
| `OrderGroups` | their composition, restarts, the properties, fairness |
| `GroupsProofs` | the theorems about it |
| `RuntimeServer` | commits and their hooks, the change queue, the broadcast loop, snapshots, the websocket handler |
| `RuntimeClient` | the page: its message chain, resyncs, the IndexedDB cache, loads over HTTP |
| `RuntimeChannel` | their composition, lost connections, restarts, reloads, the properties |
| `RuntimeProofs` | the theorems about it |
| `Scans` | `execute_scan` from its lock to its event, for every route, its commits and failures |
| `ScansProofs` | the theorems about it |
| `TransitionRules` | which transition rule fits an order, which one wins, which may be saved beside the others |
| `ChainPlan` | the preview of a chain on a copy of the floor, and the selections the legs then make |
| `ChainPlanProofs` | the theorems about it |
| `QrConfig` | edits, deletion and restoration of stations, terminals, labels and rules |
| `QrTransitions` | the completion hook and the retry by hand, over the configuration |
| `QrProofs` | the theorems about both |
| `RcsClient` | one `createTask`: attempts, redirects, copies still on their way, the verdict |
| `Inventory` | orders as the inventory sees them, the cell editor, the older endpoints, the deletion of a window |
| `RackSync` | the runs of the synchronisation beside the inventory, restarts, the properties |
| `InventoryProofs` | the theorems about it |
| `MCRuntimeChannel`, `MCScans`, `MCChainPlan`, `MCQrTransitions`, `MCRackSync` | instances for TLC |

`MovementOrders` composes the four modules of single orders; `OrderGroups` the two
kinds of groups; `QrTransitions` extends `QrConfig`, which extends the pure
`TransitionRules`, shared with `ChainPlan`; `RackSync` extends `Inventory`, which
extends `RcsClient`.

### Orders

**Correspondence.**  `status`, `dispatch`, `rcs`, `task`, `forced`, `rackOf`,
`src`, `dst` are the columns `status`, `dispatch_status`, `rcs_status`,
`remote_task_code`, `forced_local_close`, `rack_id`, `source_cell_id`,
`destination_cell_id` of `movement_orders`; `recon` says that `rcs_message` starts
with the reconciliation prefix, which is how the code remembers a completion whose
move is still due.  `rackStatus` and `cellRack` are `racks.status` and
`locations.rack_id`.  `sender`, `canceller`, `poller` and `observer` are the
places where a handler is between two commits or inside a network call.  `remote`
is the order's task in the RCS; `createPosts` and `cancelPosts` count requests
that left.

**Atomicity.**  One action is one transaction, one network event or one step of
the RCS.  The claims, `apply_remote_status_to_order`, `simulate_order_completed`
and the administrator's guards begin with an UPDATE, which takes SQLite's writer
lock before anything is read, so one action each is exact.  A handler that commits
in the middle is several actions: a completion is `ApplyCompleted` (the evidence,
`monitor_service.py:365`), `CompleteMove` or `MoveRejected`, and `CloseCompleted`.
Three transactions read before they lock: the one that stores a `createTask`
outcome, the compensation, and the cleanup of ended orders.  They are taken as
atomic, *an assumption of the model*; `hazards` lists each.

**Abstractions.**  The FIFO choice of a rack and a cell is any choice the claim
accepts.  Ages and the freshness of an observation are nondeterministic.  The
answers "not found" and "canceling" only change text and are left out, as are the
statuses `cancel_error` and `undone`, which no code assigns any more, the `enabled`
flags, the pickup and dropoff racks, and the rack's material columns.  A cancel
handler waits for its reply before another claims the same order.  Every reply of
the RCS carries a message of its own.  The automatic release of a stuck cancel
with return needs evidence that the code excludes for that status, so it has no
action.

### Groups

One group is modelled, either a chain or a batch (`policy`).  `step`, `status`,
`dispatch`, `task`, `mark` are the columns `fifo_chain_step`, `status`,
`dispatch_status`, `remote_task_code`, `fifo_chain_status`.  `worker` holds the
hook of a completion in each thread, between its transactions; `batch` the request
inside `execute_group`; `sender` the handler inside `_dispatch_movement_order`;
`boot` and `todo` the place of `on_startup`, which recovers batches, then chains,
before the server serves.  `StopGroup` is part of the cancellation and of the forced
close, as `stop_fifo_chain` is part of their transactions.

A chain's lock is the parent's dummy UPDATE.  It is taken twice, since the choice of
a rack may commit in between (`fifo_chain_service.py:498`), so `Trigger` and
`Insert` are two actions and `Recheck` is what the second lock may find.  `Visit` is
a second process on the database, which `tests/test_phase1e_fifo_chain.py:287`
starts and the runtime lease otherwise keeps away; without it one hook runs per
completion and nothing could come between the two locks.  An exception that leaves
the hook is logged by its caller; the order then is in `missed`, because no one but
a startup visits it again.  A batch stores nothing of its progress but the marks:
its check of the mark and the dispatch that follows are two actions.

Racks and cells are the subject of the order modules: here an active order stands
for what it reserves, the choice of resources either succeeds or fails
(`SelectionFails`), and the legs of a batch are taken to move one rack, the case in
which `InTurn` binds.  The read and the write of the transactions listed above are
atomic here too.

### The runtime channel

`db` is the version of each row and stands for `updated_at`, which every writer
renews.  `hooks` holds the commits whose after-commit hook has not run, `changes`
and `overflow` the queue of `_queue_runtime_change`, `loop` the broadcast loop,
`history` the events kept for replay, `locrev` and `counted` the location
checkpoint and what it covers.  `handler`, `registered`, `outq` and `wire` are the
websocket on the server's side and what is under way, `up` what the page has sent.
`page`, `busy`, `cache` and `http` are the page's variables, the message whose
handler awaits IndexedDB, the stored cache and a load over HTTP.  Three variables are
history: `cut` holds the versions whose change did not fit in the queue, `missed` those
that no event and no notice will tell this page, and `page.old` says that its revision
counts the events of a server that is gone.

One page is modelled: browsers meet only in `count()`, and `OthersConnected` says
whether another page is always there.  A location may be published before its hook
has counted it, so `RevisionHonest` speaks of orders.  A lost connection is lost on
both sides at once.  The write of the cache is atomic with the application of the
load that brings it.  Locations exist from the start; deletions, the catalog and the
lists of debug events are left out, as are the conditional UPDATEs of the core,
which bypass the session events on purpose.

### Scans

`session` is a request inside `execute_scan`, `pc` the commit it stands at: the
lock, the check for duplicates, the order, its route, the dispatch, the event, the
event's link.  `order` are the rows the scans make, `claimed` whether the claim was
taken (`fifo_service.py:446-474`), `events` the rows of `scan_events` that name an
order or count as recent.  The lock is a file lock per scanner and label, held from
the check for duplicates to the answer.  A route is what the label is configured to
do; a chain creates its first order only, a group creates and sends all its steps.
Which rack and which cell a search finds is any that no order in force holds; `ChainPlan`
has the search.

Behaviours the model has and a reader should know: a dispatch that failed or was not
settled is stored as an `error` event and does not make a repetition a duplicate,
while a partial or uncertain batch does; the open routes and the last destination of
a double one are booked without the claim of `fifo_service.py:446`, which
`ClaimsExclusive` says; a group whose execution failed leaves an event without an
order.  An order that an operator dispatches by hand (`main.py:11087`) between the commit of a
chain's first order and the commit of its chain columns
(`scanner_service.py:3541-3554`) loses its chain; the model has the manual
dispatch (`SendByHand`), and no property about those columns.
The guide (`docs/GUIA_QR_ESCANERES_PDA_FIFO_CHAIN.md:55` and `:81`) speaks of chains
of 2, 3 or 4 steps; the code allows 5, and so does `ChainPlanAssumption`.

### The plan of a chain

`promised` is what `build_chain_preview` answers, computed at once on a copy of the
floor (`Projection`); `made` the orders, each chosen (`pick`) and claimed in two
steps as `fifo_chain_service.py` does, with other operators' actions in between
(`outside`).  The preview and the execution are translated from the two searches the
code has, in `scanner_service.py` and in `fifo_chain_service.py`; `PlanKept` says
they agree.  They do not always: a label that allows the same cell and has a list of
areas or any area as its destination previews another cell than the one executed
(`fifo_chain_service.py:137-139` against `:181-196`), and a rack whose state is neither ready nor
reserved ("blocked", "error", "moving") is shown (`scanner_service.py:1463`) and then refused
(`fifo_service.py:15-16`), although the guide (line 139) says that the preview shows what
will be executed.  The instance leaves both out: `MCKeptPlans` and `Statuses`.
Also: the first leg between two configured ends takes its ends as areas; the
projection passes over orders whose cancellation was requested and takes the first
rule on an ambiguous tie; the claim does not look at the material again, so that a rack
which an order of others took away and brought back between the selection and the claim
may carry another one: `away` is the history of such racks, and `CreatedFits` asks for
the material of all the others.

### Transitions and their configuration

`rules`, `labels`, `stations`, `terminals` are the tables, a row inactive rather than
deleted; `byEdit` and `restored` remember how a row came to be what it is.  The hook
of a completion is one transaction.  A request by hand reads the order, the log and the rack
before it writes (`session`), and two of them may overlap (`raced`), which the code
does not prevent.  `RankingDecides` is about rules that were saved under the
diagnosis: one restored after its deletion (`main.py:10822`) is not diagnosed, and
the diagnosis compares the current materials of rules that ignore them.  Two
administrators who save rules at the same moment are not modelled; the quantity and
the comment a rule writes are one field that is only compared.

### Inventory, RCS client and rack synchronisation

`cell` and `rack` are rows, `ver` a number for all their other fields; `draft` is
the editor's form with the fingerprints it was opened on; `call` is the position of
`create_task` in its retries, `copies` what left and has not arrived, `remote` the
task.  `order` is the order of `MovementOrders` with the states the inventory tells
apart, `refused` being an order whose compensation is due.  A run (`job`) is
`counted`, `listed`, `compared`, `bound`: `found` is the report of each cell.  `lists`
is history: every list a run has read, with the tasks that had ended by then.  A
query run holds the writer's lock from its first console row to its commit, HTTP calls included, so it is
one action; the manual run does not take the scheduler's lock, so both kinds meet.

Behaviours the model has: orders in force are deleted with their window
(`main.py:14183`), and `RouteKept` leaves them out; `cancel_error` is not among the
statuses the synchronisation counts (`main.py:5552`), although `docs/FASE_1A.md:163`
protects such orders; the day is marked when the run was blocked, too; a bind run
reports success although it skipped racks it could not query.  Outside the model:
a single row the RCS answers for another rack is accepted (`main.py:5753`);
`delete_rack` checks and deletes without a lock; that a repeated `createTask` makes
no second task is left to the RCS (`docs/FASE_1A.md:213`), and so it is here: were a
repetition refused, the client would take it for a rejection and compensate.
Closings of an order by the reservation endpoint are `OrderRecovery`'s.

## 3. What the runs check

`Init` of the orders is any inventory: racks stand in at most one cell each, or in
none.  A group begins when the scanner has created the first step of a chain, or
`prepare_group` has reserved all legs of a batch.  A page begins with loaded data
and no socket.  Scans begin without orders; the plan of a chain on any of the
instance's floors, with or without another operator's order; the configuration with
one active label or none, and no rules.  The synchronisation begins with any
positions in the RCS.

| Run | Instance | Result |
|---|---|---|
| `transports` | 2 orders, 2 racks, 3 cells, both kinds of cancellation, or simulated completions and position queries | `TypeOK`, `OneActivePerRack`, `DestinationExclusive`, `RouteReady` hold |
| `recovery` | 2 orders of 1 rack, cancellation without return, forced close, cleanup, release, reservation, 1 restart | `RackHeldWhileActive`, `NoOrphanTask`, `CreatePostedOnce` hold, `TransportLedger` is implemented |
| `liveness` | 1 order, monitor and a manual query, both cancellations, forced close, 1 restart | `EndedTaskCloses`, `ClosedIsFinal` hold |
| `inventory` | 1 order of a window, 2 racks, 3 cells; by setup: 3 edits, or 1 edit with 3 faults and a restart, or runs of the synchronisation with an edit, with a restart, or two at once | `RouteKept`, `SyncAligns`, `NoLostEdit` hold |
| `channel` | 1 location, 1 order; by setup: others connected, an event out of order, 1 lost connection; or alone, queues of 1, a failed conversion, a load over HTTP, 1 restart, 1 reload | `TypeOK`, `CheckpointHonest`, `RevisionHonest`, `QuietMeansCurrent`, `NoRegression` hold |
| `groups` | a chain or a batch of 2 orders, 2 threads, 1 failure, 1 visit, 1 restart | `TypeOK`, `OneOrderPerStep`, `SentInOrder`, `NoOrphanInGroup`, `NoUnsentLegUnlessStopped`, `StopObeyed`, `EndRemembered`, `ChainContinues` hold |
| `transitions` | 2 orders of 1 rack, alone, as a chain or as a batch, 6 rules to save in 2 rows, 2 requests by hand; or edits of all four tables | `TypeOK`, `AppliedOnce`, `ReservationShown`, `RankingDecides`, `ReferencesKept`, `OneLabelPerCode` hold |
| `scans` | 2 requests at a time, of 2 labels and 2 scanners, one of which may not execute, every route, 2 racks, 2 cells, 1 closing by hand, dispatch by hand or restart | `TypeOK`, `ClaimsExclusive`, `NothingUnreported`, `DuplicateNamesOrder`, `OneOrderPerScan` hold |
| `chain_plan` | chains of 2 and 3 legs over 4 cells in 3 areas, 3 racks, 3 tables of rules, 1 action of others | `TypeOK`, `PlanKept`, `CreatedFits` hold |
| `reopened` | 1 order, forced close | `LocalCloseIsFinal` **fails** |
| `stale_bind` | 1 order, 1 manual run | `BindsWhenIdle` **fails** |
| `status_lost` | the instance of `transitions` | `StatusStays` **fails** |

**Bounds of the orders.**  Two orders are enough for every conflict over a rack or a
cell, which is between two orders; three cells give two racks a free destination to
contend for, two cells are enough for one rack.  Two observers show every
interleaving of two answers.  `MaxCancelPosts`, `MaxOverrides` and `MaxCrashes` bound
how often a request, an override or a restart happens; one of each lets it fall
between any two steps of the others.  In `transports` the constraint `OneTrouble`
keeps cancellations and administrators' actions to different behaviours; `recovery`
mixes them.  The runs are separate because the product of
all of them is too large; the proofs have none of these bounds.

**Bounds of the groups.**  Two steps have every relation between a step and its
successor; `MaxOrders = 3` leaves a row for the duplicate or the step too many that
must not come.  Two hooks meet on one parent.  One failure, one visit and one
restart may fall anywhere.

**Bounds of the channel.**  `QueueMax`, `ChangesMax` and `HistoryMax` replace 100,
2048 and 1000 of the code by what one commit can fill, so that
queues overflow; `SnapshotAttempts` is 1 or 2 instead of 3, so that a snapshot can
fail to settle; `WireMax` is what the network holds, the rest waits in `outq`.  What
a behaviour may meet is chosen at its start (`Setups`), since the product of all
troubles is too large: with others connected the channel must converge, alone it must
lie about nothing.

**Bounds of the scans and of the plan.**  Two requests at a time, which come again
when they are done, give every race for a lock, a rack and a cell; two labels are
needed since one is under one lock; every route meets one that competes with it.
Chains of two and three legs have a first, a middle and a last leg; the four cells
make one area of two cells and two of one, so that order within an area and between
areas both decide; one action of others may fall between any two steps.

**Bounds of the transitions.**  Two rules at a time are a tie, a rank or a gap; the
payloads have one rule per tier, rivals of equal rank, one for any source and one
that ignores its material.  How many edits a behaviour has depends on what else is in it
(`Budget`).

**Bounds of the inventory.**  One order is enough for a route, two racks and three
cells for another rack in the way and for a free destination; exclusiveness among orders is
`transports`'.  Two attempts stand for three: one that fails before the last and
the last.  A setup has three edits (open, another's write, save), or one edit among
three faults and a restart, or runs of the synchronisation.  The proofs have none of
these bounds.

A run stops when its bounds are used up, so deadlock is not checked: nothing in the
code waits for another handler.

**Fairness of the orders** (`FairSpec`).  The monitor thread goes on with what it
began (`WF_vars(MonitorStep)`: it is one loop without a wait on anybody), queries
every eligible order every three seconds (strong fairness of `Observe`, since a
restart or a query under way may interrupt it), and a busy database or a failed
position query does not recur for ever (strong fairness of `CompleteMove` and
`CloseReturned`).  Users, administrators and the RCS have none.  `EndedTaskCloses`
excuses an order whose completion the inventory does not allow, which the code
leaves to an administrator.

**Fairness of the groups.**  Each thread goes on with what it began, the startup
ends, and a call to the RCS returns (it has a timeout).  The RCS's own steps and
users have none.  `ChainContinues` excuses a stopped chain, one that is marked
`retry_needed`, and a completion whose hook raised; the last two wait for a
restart.  The channel has no liveness property: quiet states stand in for it.

**Findings.**  The three failing runs are disagreements between the code and what its
comments, tests and guides say; `findings` quotes each.

- `reopened`: `monitor_service.py:365` commits before the move and so gives up the
  lock under which the order was found open, and the handler of a failed move writes
  `in_progress` over any status but `completed`.  A close by hand is then reverted.
- `stale_bind`: the synchronisation blocks its binds on a count of orders that it
  read before its queries.  An order claimed since is passed over, and the RCS may
  end with a rack in the cell it has left; `SyncAligns` therefore asks that every
  list a run read is the inventory as it is, and that no task has ended since one
  was read.
- `status_lost`: closing an order makes its rack available whatever status the
  transition of the same completion has given it (`monitor_service.py:94`).

The models reach more, described here without a run of their own:

- By the cause of `reopened`, a claimed cancellation with return is forgotten, so
  that its position poll (`main.py:6213`) offers the rack of an active order.
  `RackHeldWhileActive` therefore excuses an order for which such a cancellation was
  sent (`ReturnSent`), and `InForce` excludes orders an administrator has closed.
- An order closed by hand, reopened by one late answer and completed by a second
  observer moves its rack late, into a cell that has been promised to another order since.
  `RouteReady` is about inventories without such a completion (`CompletedLate`) and
  without a cancellation sent, whose return puts a rack wherever the RCS says.
- The startup looks for groups marked `batch_sending`
  (`automatic_priority_service.py:152`); a stop has already replaced that mark, and
  the unsent legs of a batch stopped just before a restart keep their reservation.
  `NoUnsentLegUnlessStopped` is what remains.
- Three kinds of change never reach a page although it stays connected: those that
  the broadcast loop drops while `count()` is 0 (`main.py:9000`), which includes the
  time in which the first page's snapshot has been read and its registration has not
  happened; those whose conversion raises (`main.py:9010`); and those that overflow the
  queue when the notice finds this page unregistered, or waiting for a snapshot whose
  rows were read before.  `QuietMeansCurrent` says that these (`missed`) are all.
- A snapshot that is older than the page is ignored together with the request it
  answers (`static/app.js:1917`), so the page waits for ever and never asks again.
  The same befalls a page that refuses its first snapshot after a restart of the server:
  it keeps the old revision, and every snapshot of the new process looks older.
  `QuietMeansCurrent` is about pages that wait for nothing.
- When the server gives up the first snapshot of a connection, the page asks for
  another, and takes it as its first even if it is older than the events that came
  meanwhile: an order it showed disappears until the next gap or heartbeat.
  `NoRegression` excuses this step (`LateFirst`).
- A completion that answers a cancellation without return closes the order as
  completed and leaves its rack where the inventory had it.
- The differences between a preview and its execution named in section 2.

## 4. What is proved

**Orders.**  `MovementOrdersProofs` proves, for every number of orders, racks, cells,
manual queries, cancellations, overrides and restarts:

- `Types`, `Exclusive`, `Destinations`, `NoOrphan`, `PostedOnce`, `RackHeld`,
  `RoutesReady`: all invariants of the runs `transports` and `recovery`;
- `Final`: `ClosedIsFinal`;
- `LedgerProofs!Refinement`: the specification implements `TransportLedger`.

They follow from one inductive invariant (`Inductive`),

    IInv == TypeOK /\ ObserverInv /\ DispatchInv /\ Safe

`Safe` is the conjunction of the four invariants; it is not inductive alone.  Why a
late answer is harmless is `ObserverInv`: what a waiting observer holds was true when
it was read and stays true of the RCS's task, and an observer in the middle of a
completion is one whose task has ended.  Why a compensation orphans nothing is
`DispatchInv`: a handler about to roll back knows that its request was refused or
never left, and nobody else can send another.  `OrderStep` summarises what any step
may do to one order; the exclusiveness of racks and cells and the refinement need
only that summary.

`RackHeld` and `RoutesReady` rest on a second invariant over the first, `FloorInv`
(theorem `FloorKept`).  A rack is released for an order by many hands, and each looks at
other columns than the one that made the order active; `HeldInv` therefore speaks of
every active order, one closed by hand and reopened included, and needs `ReopenInv` (an
order that goes on after a close by hand has a task, so nobody compensates it) and
`PollInv` (a position poll follows a cancellation with return that was sent).
`ReadyInv` is the route itself: whoever writes a cell either ends the order whose route
it is or was refused by the guard that looks at all routes in force.  The assumptions are those named in `OrderState`: the null values
are no racks and no cells, the monitor is no manual query, the bounds are naturals.

**Scans.**  `ScansProofs` proves `Types`, `Claims`, `Duplicates`, `Reports` and `OneOrder`, all
properties of the run `scans`, for any number of requests, scanners, labels, routes,
racks, cells and troubles, from

    IInv == TypeOK /\ SessionsInv /\ LockInv /\ EventsInv /\ LinkInv
            /\ ClaimsExclusive /\ DuplicateNamesOrder /\ NothingUnreported

`LockInv` is why one label makes one order: of the requests of a label at most one is
under way past the lock, so what it read of the recent events still holds when it
books.  `SessionsInv` says what a request has at each of its commits, `EventsInv` that a
recent event is linked to its order unless its request is about to link it or the
server died, and `LinkInv` that such a request finds the event it stored.

**Inventory.**  `InventoryProofs` proves `Types` (no rack ever stands in two cells),
`Routed`, `NoLost` and `Aligned`, the properties `RouteKept`, `NoLostEdit` and
`SyncAligns` of the run `inventory`, for any number of orders, racks, cells, attempts, faults, edits and
restarts, from

    IInv == TypeOK /\ RouteInv /\ ExclusiveInv /\ CallsInv

`RouteInv` is the route of the active orders and needs `ExclusiveInv`, since the
completion of one order writes the cells and the rack of its own route, which must be
nobody else's.  `CallsInv` closes the gap between active orders and requests that may
still move a rack: a call that has only failed to connect has sent nothing
(`Unsent`), an order that is refused or closed is one whose request moves nothing any
more (`Settled`), and nothing unsettles it.  Each step of the tables is one lemma,
each step of a request another.  The assumptions are `InventoryAssumption` and
`AttemptsAssumption`: the null values are no rows, at least one attempt is made.
`Aligned` follows from `RunsInv` alone, of any runs at once: what a run found right is
right still, or some list differs from the run's own, or a task has ended since a list
was read (`Superseded`).  A bind of another run sets a rack to where that run's list has
it, which is where this one's has it unless the lists differ.

**Groups.**  `GroupsProofs` proves every safety property of the run `groups`, and its
two action properties, for groups of any length and any threads, failures, visits and
restarts: `TypesHold`, `OneOrder`, `InOrder`, `NoOrphan`, `NoneUnsent`, `StopLasts` and
`EndLasts`, from

    IInv == Types /\ RowsInv /\ StepsInv /\ SeqInv
            /\ WorkersInv /\ BatchInv /\ MarkInv /\ UnsentInv

`RowsInv` ties an order's request to its sender and its task; a compensation can only
meet an order whose request never left or was refused.  `StepsInv` says that the steps
that exist begin at 1 without a gap and have one order each, and `SeqInv` that those
before another are behind it: the insertion of the next step needs both, since it only
looks for a child of its own parent.  `WorkersInv` is what a hook still knows between
its two locks, `BatchInv` that the legs before the one in hand succeeded, `MarkInv` what
a mark says of the rows, and `UnsentInv` that a leg never tried has a request, or the
next startup, to answer for it.  `Kept` summarises what a step that inserts nothing may
do to the orders; all parts but one follow from it, and the insertion has a lemma of its
own.

**Transitions and configuration.**  `QrProofs` proves every property of the run
`transitions`, for any rules, cells, labels, stations, terminals, requests and edits:
`Types`, `Once`, `Shown`, `Decides`, `References` and `LabelsApart`, from

    QrInv == OrdersInv /\ ConfigInv /\ TablesInv

`ConfigInv` says that every row of the table of rules is a payload as the endpoint
normalises it, and that two active rules nobody restored are no rivals (`RankInv`):
`Decides` then is a fact about the ranking, that two rules which tie for an order are
rivals (`RankDecides`).  It is why the diagnosis suffices, although it never sees an order.
`TablesInv` needs its parts together: whether a rule may be restored depends on stations
and labels, and whether these may be deleted on the rules.  `OrdersInv` knows of a
request by hand what it read (`HandInv`), and that without a race there is one such
request per order (`OnceInv`).  Beside the null values, assumed of the constants are the
types of what an administrator may send (`models.py` and the validation in
`main.py:1622-1645`), that the first rule's id is 1, and that the labels at the start are
such as the endpoints leave them.

**Runtime channel.**  `RuntimeProofs` proves every property of the run `channel`, for any
rows, queues, network, snapshot attempts and troubles: `Types`, `Checkpoints`,
`Revisions`, `Current` and `NeverBack`, from

    IInv == ServerInv /\ ClientInv /\ LinkInv /\ RevisionInv /\ ShownInv /\ ToldInv

`ServerInv` ties the checkpoints to the rows: the last one counts each commit whose hook
has run (`CountedInv`), and none counts a version ahead of the database.  `LinkInv` is
about what is on its way: an event is the entry of the history it is numbered by, a
snapshot covers its checkpoint and its revision (`Covers`) from the moment its rows are
read, and the handler's place, the socket and the page agree on whose turn it is
(`ConnInv`, `FirstInv`, `BusyInv`).  `ClientInv` and `RevisionInv` say that a page has
what its checkpoint and its revision count, with the message it is handling: between the
application and the write of a snapshot the page is ahead of its revision, and `At` is
the revision it will have.  `ShownInv` is why a snapshot removes no order that is newer than it:
snapshots under way are ordered among themselves, and what the page shows is in each of
them or came by an event the page has counted since.  `ToldInv` is the argument of
`Current`: whoever knows an older version of a row, a handler about to answer, a
snapshot in the queue or the page, will be told of the last one by an event after its
revision, by a change still in the queue or the loop (`Pend`), or by a notice behind it
in the same queue, or else that version is in `missed`.  The assumptions are
`RowsAssumption` (locations and orders differ and are finitely many) and
`LimitsAssumption` (the queues have room for one).

**Plan of a chain.**  `ChainPlanProofs` proves `Types` and `Created` (`CreatedFits`) for
any floor, label, table of rules and number of acts by others, from

    IInv == FloorInv /\ ChainInv /\ PickInv

`FloorInv` says that every open order, of the chain or of another operator, holds its rack
where it takes it from and finds its destination free, and that no two share either: it
is why an arrival puts a rack into a cell that is empty, and why nobody else's order is
disturbed by it (`Arrived`, `HoldsApart`).  `ChainInv` counts the orders against the legs,
phase by phase, and `PickInv` keeps, from the selection to the claim, the part of the
selection that the claim does not repeat: the ends of the leg and the material.  The
rest of `CreatedFits` is what the claim looks at.  The selections are lemmas: a least
number exists (`LeastIn`), the oldest rack is one of those found (`OldestIn`), sources and
targets are within their ends (`SourcesFit`, `TargetsFit`), and so is the move made of them
(`ChoicesFit`, `FirstFit`).  The preview is a recursive function of at most five legs, which
`Projections` unrolls, so that no induction is needed; `Promised` is that a chain which
fits is shown a move for each leg.  Assumed of the constants are the shapes of floors,
labels, rules and orders (`FloorsAssumption`, `PlansAssumption`, `TablesAssumption`,
`OthersAssumption`).

`PlanFollowed` proves `PlanKept` from one hypothesis more, `Regular`.  It has a conjunct for
each way in which the two searches of the code differ (see the plan of a chain above): no
enabled cell is hidden; a rack is available or reserved, and a rule leaves it so; no leg
asks for the material "none"; a label that allows the same cell has one area or one cell as
its destination; no order of others is waiting for a cancellation; no two rules in force
are rivals in the sense of the diagnosis, nor ignore the material, which the diagnosis
does not compare.  `MCChainPlan` asserts `Regular` of its instance, so that TLC has seen
floors, labels and rules of this kind on which chains run to their end.  The argument:

- the rules decide (`Decided`, `Undisputed`): where no two rules are rivals, those tied for
  an order have one result, so that the completion, which refuses an ambiguous tie, and
  the preview, which takes the first, apply the same one (`SameRule`);
- on a copy that is the floor (`Like`), the two searches find the same racks
  (`SameSources`) and settle on the same destination (`SameTargets`), although one goes
  area by area and the other sorts all the cells; so a leg that fits the copy has exactly one
  choice on the floor, the move shown (`SameChoices`), and so has the first leg, whose ends
  are resolved before (`SameFirst`);
- a chain that fits is a sequence of copies `g` with a move from each to the next
  (`Foresight`);
- the invariant `Quiet` says that, while `outside = 0`, the floor is the copy reached by the
  orders made so far (`Reached`), that a rack is reserved exactly when an order holds it
  (`Stats`), and that the orders made are the moves shown.  `PlanKept` alone is not
  inductive: what the next leg selects depends on the floor.  An arrival takes the floor
  to the next copy (`CompleteQuiet`), a selection finds the move shown (`ChooseQuiet`), and a
  claim does not fail, for nothing has changed since (`ClaimQuiet`).

Model-checked only: `EndedTaskCloses` and `ChainContinues`, since liveness under fairness is
beyond the prover.

## 5. Not modelled

- *Robot monitor cache*: a cache of one answer of the RCS for the page and one thread that renews it;
  no decision about orders or inventory reads it.  Its event is part of `RuntimeServer`.
- *Runtime lease*: one file lock taken at startup; a second process does not start.
  `Visit` of `FifoChain` is the second process the tests start all the same.
- *Software update, backup and restore*: files and processes around the program.
- *Schema migration*: executed once, before anything else runs.
- *Observability, diagnostics, tools*: read or log only.
- *Web pages*: rendering and forms; their side of the runtime channel is modelled.
- *Areas, materials, creation of racks, the free layout*: edits of one transaction that
  no order's decision depends on.
- *Scanner*: the preview's page, the checks of a terminal's key and address, the
  cancellation by a terminal (a cancellation like any other) and the log of rejected
  scans.
- *Answers of the RCS that only change text*, and `undo_movement_order`, which nothing calls.

## 6. Plan

Done: single orders and their ledger; groups; the runtime channel; scans; the plan of
a chain; transitions and their configuration; the inventory, its editors and the rack
synchronisation; the proofs of section 4.

Left, in this order:

1. Split the three transactions that read before they lock into a read and a write: until then the model
   does not show an order that claims a rack between `_release_rack_if_no_active_orders`'s query and its
   commit.
2. Reserve the resources of a group in the model (`prepare_group` against the
   inventory), and compose scans with the groups they create.
