# Verification of the echo-agent SDK Host

This directory holds TLA+ models of the echo-agent SDK: the Host process that
serves an agent runtime over ACP (`src/echo-sdk-host`), the wire contract it
shares with its SDKs (`src/echo-sdk-protocol`) and the client that consumes it
(`src/sdks/python`).  TLC checks the models on small instances; TLAPS proves the
most important results for every value of the constants.

`PROJECT.json` maps every definition to the lines it models, lists the runs, the
hazards they are aimed at, the faulty variants each property is known to catch
and the theorems.

## 1. The system

The Host is one process with one ACP connection.  A client creates an **Agent**,
opens **Sessions** under it (each is also an ACP Session with an id that may be
persisted), and starts **Runs** in a Session, one turn at a time.  A Run commits
events to a **journal**; its **delivery** sends them live while the client's ACK
window is open, announces one **gap** when it is not, and continues after the
client has replayed and acknowledged.  When a turn settles, its receipt is
written to the durable **run index** before anybody is told.  Closing goes from
the inside out: Run, Session, Agent, Host.

### Inventory

| Component (source) | State it keeps | Operations | Hard behaviour | What makes it correct |
|---|---|---|---|---|
| Live delivery (`core_profile/events.rs`, `RunDelivery`) | FIFO of unacknowledged events, bytes, paused watermark, cursor, highest announced sequence | journal observer, `event/ack`, resume, `unregister` | observer, ACK and replay handlers race for `send_serial`; the resume reads the journal outside the state lock; window bounds; an oversized event; one that cannot be converted | no hole while unpaused, bounded window, one gap at a time, ACK only what was announced |
| Replay (`bounded_replay`, `protocol/event.rs`) | none (a function of a journal) | `run/replay` | byte bound against event limit, retention floor, page larger than the bound | page is a contiguous committed range; cursor, gap and `has_more` agree |
| Python feed (`client.py`: `_EventFeed`, `_AsyncQueue`) | last sequence, live and replayed ranges, held deliveries, queue, pending ACKs | notification intake, iterator, `replay`, `notify` | three tasks, two transport directions, ACKs that overtake events | nothing sent is lost, in order, fails only on purpose, reaches the terminal |
| Keyed publication (`handles.rs` `PublicationRecord`, `handler.rs` `request_publication`, `state.rs` `spawn_publication`) | records by key, notify, effects flag, settlement count, lifecycle lock, fence | `run/start`, `session/create`, cancellation, Session close, Host fence and drain | a caller cancelled while its job is admitted; retry after failure; close and drain against admission | one turn per key, same answer for all, count exact, nothing after the drain |
| Handles (`handles.rs`, `handler.rs`, `factory.rs`) | registry with tombstones and budget, Agent and Session locks, closing flags; ACP registry, factory admissions, authority services | `agent/create`, `session/create`, `session/load`, `session/close`, `agent/close` | every handler awaits the framework between its steps; undo after a failing step; an ACP id reused | nothing is lost or orphaned, parents last, identity issued and released once |
| Durable settlement (`state.rs`, `persistence.rs`, `mod.rs`) | slots (debts), recovered runs, run index, journals | reserve, record, settle, `run/wait`, collectors, Run/Session/Host close, recovery | failing disk, unprojectable receipt, pruning, crash and restart | an answer is never contradicted, no debt is lost, recovery accepts what is on disk |
| Host close (`echo-sdk-host/src/lib.rs`) | retained handle, flags, five `Notify` waits, close gate | `connect_owned`, `close`, drop of the run future, drop guard | wakeups between look and park; drop before the first poll; failing close | close returns, is final, keeps the handle until then |
| Extension bridge (`extension_bridge.rs`, registrations in `handles.rs`) | owners of reverse calls with lease and guards, stream sinks, factory leases with their `OnceCell`, registrations | reverse calls, their streams, deadlines, cancellation, observations; construction and close of factory children; unregister, disconnect | deadline against answer, terminal against a full mailbox, closers and creators that are dropped half-way, detached cleanup | an invocation is held until its peer has proved its end, streams are in order and end, one AgentClose, no orphan |
| Facade streams (`facade/stream.rs`, stream handles of `handles.rs`) | queue of one, receiver lock, two cancellation tokens, observation, `settled`, registry sequence and terminal | open, next, cancel, close, close of the resource, end of producer and callback | producer, collector, callback, pulls and closes meet; a callback of unknown fate; dropped pulls | each item once and then one true terminal, the address is kept until the source is settled, a pull returns |
| Facade task and subagent runtimes (`facade/task_runtime.rs`, `facade/subagent.rs`, maps in `facade/mod.rs`) | executions by ACP id, attempts, dispatch receipts, permits of the Session's lifecycle lock, the latest failure, a `Notify` for each | `task/execute` and the calls in the task store, `subagent/dispatch`, `await`, `control`; the cascades of session/close and of `close_all` | a close or the drain against what is being started; a full map; an id dispatched again; a namesake under the freed ACP id; lost wakeups | what the framework may be at is in its map, one attempt per idempotency id, failures are shown until another execution is admitted, calls return |
| MCP resources (`facade/integrations.rs`, `facade_resources` of `handles.rs`) | managers with their lock, clients, aliases, preparations and cleanup debts, slots of one quota, fences | open, connect, look up, disconnect, close of a client, a manager or an address; the closes of session/close and of the teardown | starts that hang or fail, closes that fail or are dropped, a close that waits for a lock behind a connect, namesakes | each server has an owner in the Host, each owner a slot; an address is withdrawn after its server; a closing Session lets its requests go |
| Other facade operations, channels, topology, wire conversion | none or a map | decode, one framework call, encode | channels: start and stop | not modelled |
| TypeScript feed (`client.ts`: `StreamFeed`, `AsyncQueue`) | as the Python feed | as the Python feed | no check of contiguity: a hole must be the Host's to announce; a gap is taken even backwards | as the Python feed |
| Java feed (`BoundedPublisher.java`, `EchoAgentClient.java`) | a queue for each subscription, consumed cursor | same protocol | threads, `Flow` demand, a notification lane beside independent answers, an ACK that does not hold up its iterator | as the Python feed; a full queue fails on nothing but an event that a partial ACK made room for |
| Managed persistence | none: typed values and codecs | encode, decode | none of their own | not modelled |
| Configuration, stdio framing, contracts, generators | none | parse, frame, generate | none of their own | not modelled |

The ACP library, the agent runtime (`echo-agent`) and the transport are not part
of the repository; the models take from them what the code relies on (ordered
transport, a journal that commits before its observers are called, a turn that
ends once) and `PROJECT.json` marks those definitions external.

### How the parts meet

    SDK feed    ── transport ── event/ack, run/replay ─► RunDelivery ◄─ journal ◄─ turn
                                                              ▲                     │
    run/start ─► PublicationRecord ─► job ── publishes Run ───┘            receipt  │
                       ▲ fence, drain                                               ▼
    agent/create ─► HandleRegistry ◄── session/close ── run/wait, collector ─► debts ─► run index
                       ▲                                                            │
    HostCloseOwner ────┴───────────────── Host close ◄──────────────────────────────┘
                       │
                       ├── stream handles ◄── next/cancel/close ── FacadeStreamRuntime ◄── producers
                       │
                       ├── task_executions, subagents ◄── task/execute, subagent/dispatch
                       │
                       ├── facade_resources ◄── mcp.*, facade.resource.close ── IntegrationResources
                       │
                       └── owners, factory leases ◄── reverse calls ── ExtensionBridge ◄── client

## 2. The modules

| Module | Models | Lines that matter |
|---|---|---|
| `ReplayPages` | what `bounded_replay` may answer, as a predicate on a journal and a request, the response it makes, and when it refuses | `events.rs` 442-570, `protocol/event.rs` |
| `EventFeed` | abstract: a feed that sends in order, passes over nothing but what the wire contract refuses, announces one gap, reopens on a covering ACK | the contract at the top of `events.rs` and in `docs/sdk/protocol.md` |
| `EventDelivery` | `RunDelivery` with its lock and window against a client that may send any request | `events.rs`, `handler.rs` `event_ack`/`run_replay`, `state.rs` `cleanup_settled_run` |
| `RunFeed` | EXTENDS `EventDelivery`: transport, Python or TypeScript feed, application | `client.py` 2592-3092, 3780-3846, 4018-4100; `client.ts` 96-310, 408-471, 1005-1125 |
| `JavaFeed` | EXTENDS `RunFeed`: the Java feed, and the next-state relation of all three | `BoundedPublisher.java`, `EchoAgentClient.java` 821-957, 1302-1363 |
| `Publication` | keyed and unkeyed `run/start`, Session close, Host fence, drain, release | `handler.rs`, `handles.rs`, `state.rs` 420-500, `mod.rs` |
| `HandleLife` | abstract: identities issued and released once, parents last | `docs/sdk/sdk-core-profile.md` |
| `SessionHandles` | the five handlers of Agents and Sessions, one step per await | `handler.rs` 150-262, 545-1154, `handles.rs`, `factory.rs` |
| `RunHistory` | abstract: the durable life of a Run | `docs/sdk/sdk-core-profile.md` |
| `DurableSettlement` | slots, index, journals, waits, closes, crash and recovery | `state.rs`, `persistence.rs`, `mod.rs` |
| `PullStream` | abstract: each pull returns the next item, then one terminal | `handles.rs` 1772-1903, `docs/sdk/facade-feature-adapters.md` |
| `FacadeStream` | one facade stream with its producer, collector, callback, pulls and closes | `facade/stream.rs`, `facade/mod.rs`, `handles.rs` |
| `CallbackContract` | abstract: a streaming callback is owned until its peer proves that it ended, in order, told once | `docs/sdk/sdk-extension-bridge.md`, `docs/sdk/channel-handler-consumption.md` |
| `ExtensionBridge` | one streaming callback with its sink, watcher, answer, closure and consumer, and the calls that create and close its agent | `extension_bridge.rs` 94-625, 896-956, 998-1205, 1211-1800, 2009-2615 |
| `FactoryChild` | EXTENDS `ExtensionBridge`: factory, child, lease, creator, closers, detached cleanup, unregistration, tear-down | `extension_bridge.rs` 8005-8690, `handles.rs` 969-1375, `handler.rs` 2032-2064 |
| `SessionWork` | executions and subagent attempts, their maps and receipts, the closes of their Session and of the Host | `facade/task_runtime.rs` 358-667, `facade/subagent.rs` 80-668, `facade/mod.rs` 155-503, `handler.rs` 1094-1154, `mod.rs` 914-941 |
| `McpResources` | the MCP managers and clients of a Session, from the reservation of a slot to the close that is awaited | `facade/integrations.rs` 43-340, 789-1340, 1990-2040, `facade/mod.rs` 517-660, 1599-1650, 2177-2186, `handles.rs` 1500-1590, `handler.rs` 1091-1127 |
| `HostClose` | the rendezvous of `connect_owned`, `close` and the drop guard | `lib.rs` 143-345 |
| `FeedInvariant` | EXTENDS `JavaFeed`: the parts of the inductive invariant of the feeds | |
| `FeedSteps` | EXTENDS `FeedInvariant`: the steps of Host and client as the proofs sum them up | |
| `EventDeliveryProofs`, `PublicationProofs`, `DurableSettlementProofs`, `SessionHandlesProofs`, `FacadeStreamProofs`, `SessionWorkProofs`, `McpResourcesProofs` | theorems about the module of that name; `EventDeliveryProofs` also those about the feeds | |
| `ClosingProofs` | theorems about `HostClose` and about `FactoryChild` | |
| `MC*` | constants of the runs, views | |

In every module one action is one uninterrupted stretch of a handler: it begins
and ends at an await, at a lock, or at a point where another thread may observe
what was done.  The step a task is at is a variable (`at`, `stage`, `job`,
`resuming`), and each map row names the lines of that stretch.  A definition
whose name says what goes wrong (`SendsPastOpenGap`, `ReleasesEveryKey`) is a
faulty variant of the definition after it: substituting it must break the
property it is listed with in `PROJECT.json`.

### EventDelivery, RunFeed and JavaFeed

`unacked`, `outstanding_bytes`, `paused`, `paused_sequence`,
`last_sent_sequence`, `ackable_sequence` are the fields of `DeliveryState`.
`journal` is the list of sizes of committed events (`NoWireForm` for one that
`wire_envelope` refuses), `observed` how many the observer has been called with.  `resuming` is the program counter of
`resume_after`, which holds `send_serial` across its journal read and all it
publishes (`ResumeRead`, `ResumePublish`, `ResumeDone`), and ACK and replay
handlers are sets of tasks (`acks`, `pages`) that take the lock in any order.
`publish` converts an event before it looks at anything else (`events.rs` 310), and
the conversion validates it (`wire.rs` 774, `scalar.rs` 520-585): a text over
1,048,576 characters, a collection over 4096 items, more than 64 levels or a number
that is not finite makes it fail on a healthy connection, with no event and no gap
sent and the stream as it was (`PublishFails`, `PublishNothing`).  The next event
then goes past the missing one.  A resume may fail at the read (`MaxFaults`), at the
conversion, each time it is retried, or at an enqueue, and then stays paused after
the accepted ACK, as the code leaves it.  A replay that comes to such an event is
refused with `serialization_violation` (`Unconvertible`, `events.rs` 502-519).  One
`NoWireForm` stands for every reason of refusal.

The Run commits its next event when the observer has run for the previous one
(the journal calls its observers before `append` returns).  The Host never
prunes a journal, so the retention floor is 1; `ReplayPages` keeps the floor as a
parameter.

`RunFeed` adds the two ordered directions of the transport, the feed's
duplicate, range and floor rules (`accept_event`, `accept_gap`), held
deliveries, the queue, and an application with two tasks: an iterator that ACKs
what it consumed, and the documented recovery that replays from the first
missing sequence and ACKs each page.  An ACK is a submission (`Write`, then
`CommitAck`), because the Host may react before the client has noted it.  Not in
the model: failing submissions, a lost connection, and the caps of 512 on
remembered ranges.

`sdk` says which feed the application uses.  Python and TypeScript share the
queue, the order of deliveries and the ACK protocol, and differ in three rules.
Python accepts an event or a gap only where the last one ended, or behind an ACK
that a replayed page proves (`Contiguous`); TypeScript accepts every event above
the last one (`Increases`) and every gap, whose watermark may take its last
sequence back (`TakeGap`); and the TypeScript iterator ACKs what it handed out even
when a later ACK has covered it.  That `ConsumedWithoutHole` holds for both shows
that the Host leaves no hole for Python's check to find but a refused event; at such
a hole Python fails its feed and TypeScript goes on (see the findings).

`JavaFeed` has the Java feed as threads.  Its lane is external (the ACP session
handles notifications one by one, and answers pass by, as
`officialNotificationLaneWaitsButIndependentResponseStillCompletes` in
`ExternalAckHostTest.java` shows): what has not been handled yet stays in
`to_client`, and `held` is the event that `beforeEventAdmission` holds back.  All
checks come after that wait, in one section under the monitor (`PublishEvent`,
`PublishGap`).  The drain does not wait for its ACKs, so several are pending.  The
application requests one item at a time and, with a gap in hand, the next one
after its recovery; there is one subscription.

The Java feed ignores whatever lies below what was acknowledged, and so never
refuses an event or a gap as out of order.  It has an overflow of its own instead:
`beforeEventAdmission` waits for an ACK of the direct predecessor only
(`BoundedPublisher.java` 100), where the other two wait for any ACK that makes room
(`client.ts` 231-234).  With the window and the queue full of events 1 and 2, an
ACK of 1 by the application's recovery lets the Host send 3, which may arrive
before that ACK is through, and the feed fails with `event_gap`, although nothing is
lost and `ExternalAckHostTest.java` 144 says of the predecessor's ACK that it "must
not cause premature overflow".  `FailsOnlyBelowFloor` allows that case by name
(`OutrunsPartialAck`).  Java fails at the hole of a refused event as Python does,
which is allowed by name too (`AfterTrueHole`).

### Publication

A record is named by the caller that made it.  `effectsStarted`,
`callerCancelled` and `result` are the fields of `PublicationRecord`;
`publications` is the registry.  A caller goes through `stage` (reserve, spawn,
wait, recheck), its job through `job`; a job enters the Session's lifecycle lock
for reading (`JobEnter`), is admitted (`JobAdmit`) or withdrawn, publishes or
fails, and stores its result before it notifies and before the settlement count
goes down (`FinishPublication`, `NotifyAndSettle`).  Session close takes the
lock for writing; the Host fences, passes every Session's lock, drains, and
releases the records.  A caller may be dropped where it awaits its record; that
is the only await after the reservation.

### DurableSettlement

`debts` is `durable_settlement_debt` (a slot is a key, a receipt still to be
written its value), `index` the file of run records in write order, `journal`
the last sequence of each journal.  `told[r]` records every answer `run/wait`
gave, across restarts.  A crash loses everything but `disk`; `Install` reads it
back and validates each settled record against its journal.  Standard Runs
(`session/prompt`) register atomically and have no collector.  `Projectable` are
the receipts that the wire types can represent; the others stand for the errors
of `terminal_of` and `receipt_wire`.  Crashes are of the process: the files are
written with `FileDurability::Flush` and `atomic_write`, so a power failure is
outside what the code claims.

### SessionHandles

A call is a constant with its request; a handle is named by the call that
created it.  `life` is the registry with the `closing` flag, `tombstones` the
bounded memory of released handles, `acp` the ACP registry by id, `services` the
factory's authority services by id, `agentLock`/`sessionLock` the lifecycle
mutexes.  `CreateEnter … CreateUndo` are `session/create` and `session/load`
between their awaits, `CloseEnter … CloseSettle` are `session/close`, and
`AgentCloseEnter … AgentRelease` the cascade, which runs the steps of
`close_session_owned` itself.  Framework steps that can fail do so at most
`MaxFailures` times.  `agent/create` is dispatched inline by the connection task
and is one step.  The default Agent counts one in the budget.  Left out: keyed
`session/create` (the record protocol is in `Publication`), the Host fence,
standard `session/new`, PlanTask handles.

### HostClose

Every wait is four steps: `Arm` the `Notified` future, `Peek` at the flag,
`Park`, `Wake`, so a wakeup may fall between any two of them.  `run` is the run
future, `actor` the connection task, `guard` the drop guard; `collector` joins
the actor.  The run future may be dropped at any await (`Drop`), a framework
close may fail (`MaxFailures`).  `automatic` is chosen at the start and tells
whether the drop guard of `run_stdio` closes, or callers of `close` do.  The end
of the whole tokio runtime is left out.

### FacadeStream

`cleanup` is `record.cancel`, the child of `token`, which the registry shares;
`error`, `joined`, `bound`, `closed` and `settled` are the observation of the
record.  `Attach` and `Collect` are `attach_background` and its collector.  The
producers of the code are three `kind`s: *local* (a workflow graph: no callback,
an observation makes it drain its source and leaves the stream unsettled),
*extension* (workflow and sandbox callbacks on a resource of the stream's own, a
bound callback that closes some time, or never) and *channel* (observations are
sent as items, the close of its resource cancels the stream, and it holds the
resource's lifecycle permit).  A producer may panic at any step.  A pull is
`PullEnter … PullCommit`, one step per await; its `select!` branches are
disjuncts, so any ready one may win.  `Deadline` is the timeout of
`settle_record` and `Drop` the end of a request future, which closing a Session
brings about.  Left out: the set-up of a channel stream before its handle is
returned, other streams of the resource, and the filters by which a Session or
the Host close call the same `close_matching`.

### ExtensionBridge and FactoryChild

`plan` says whose stream it is: a *channel* handler's, that of an *agent* that is
only asked to work, of an agent registered by the client that is also closed
(*direct*), or of the child of a *factory*.  Three calls exist: `create` (the
constructor), `work` (the stream) and `close` (`AgentClose`, made again if it has
to be).  `phase[c]` is the owner of a call: a closure is `committed` under the
state gate and `closed` when lease, guards and factory context have been given
back, in that order; `Free` says that the task which dispatches answers and
notifications is not inside one of them.  `fate` is the owner's observation
(*named* if it has an identity the framework accepts), `reply` what the response
handler puts into the oneshot.  The sink is `seen`, `kept`, `mailbox`; sequence
numbers are replaced by what the sink decides from them (`broken`: the peer's
numbering is no longer contiguous; `ended`: its terminal was accepted as a
physical fact).  The consumer is `owned_callback_event_stream`; `FindEmpty` and
`TakeTerminal` are the two looks that are not atomic there.

In `FactoryChild`, `lease` is the `Arc<FactoryInstanceLease>`: its clones are the
creator's, the proxy's, the stream wrapper's, one per bound call, and the
registration's once a call's fate is unknown (`Owners`); the last one to go runs
`DropLease`.  A closer goes through `FactoryInstanceLease::close` (`Look`, `Once`,
`Acknowledged`, `Sent`); `cell` is the `OnceCell` with the closer that
initialises it, `source` and `acked` are `acknowledged_close`.  The proxy's owner
may drop its close and call again, the creator's and the stream's futures may be
dropped at any await.

What a stream carries is only told apart in the plans *channel* and *agent*
(`Detailed`): with those who close, the peer's events are its terminal and its
answers.  The plan *once* is a call that no owner stands for (`invoke_once` of
hooks, guards and stores): its future gives the lease back itself, at once when
it is cancelled or late, and never when its peer reported an unknown fate.  Left
out: the client's `extension/register`, the adapters' conversions, and the
sharing of a factory lease by several streams of one child, which its exclusive
key orders one after the other.

### SessionWork

A request is a constant and is made once; what it starts goes by its name.  `at`
is where a request (or the drain of the Host) stands, with the permit it holds
while it does (`Readers`), `target` what it waits for, and `enabled` whether its
`Notified` is still to be woken: a round of every wait enables it, looks, and
parks.  `registered` is `task_executions`, keyed by the ACP id, `tracked` is
`subagents` with its limit `max_open_handles`, `receipts` the
`subagent_dispatch_receipts` of a Session and `holder` who has their lock.

`work` is the record.  An execution is *admitted*, *running*, *failed*, *ended*,
*left* (out of its map), *settled* and *done* (waiters notified); if the
framework cannot tell it is *observed* and *retained*, and if it is dropped with
the connection, on which it rides, it stays in its map and is never settled.  An
attempt is a task of its own: *setup*, *ready*, *joining*, and then as above;
`background` is the `OnceCell` of its setup.

`TakeReceipts`, `Rejoin` or `Admit`, `LookReady` are `subagent/dispatch`;
`Lock`, `NextRun`, `NextAttempt`, `Drop`, `Rest`, `Release` are
`close_session_owned` with `drop_session_resources_of`, and `Fence`, `Locks`,
`CancelAll` and the same steps are the drain of the Host.  `again` is a history
variable: the ids that a close has used after they had become free.  Left out:
the claims that `FacadeTaskController` forwards to the framework, contents of
task graphs, request decoding, and steering messages, which change nothing here.

### McpResources

A request is a constant, may ask for what `Asks` allows it, and names the
server, the ticket and the alias that it brings about.  `registry` is
`facade_resources` with its quota `max_facade_resources`, `fenced` the `closing`
flags of its records, `known` the addresses the client was told; `mcp`,
`mcp_clients`, `mcp_client_managers`, `mcp_preparations` and `mcp_cleanup_debt`
are the maps of `IntegrationResources`.  `retained` and `server` are the
framework's: what a manager holds, and whether a server runs.

`Prepare … Withdraw` are `prepare_mcp_client`, `mcp.client.open` and
`from_transport`; `Connect … ConnectFails` the two connects, `GetClient`,
`Disconnect`, `CloseManager` and `CloseClient` the operations of their names,
`Fence` and `CloseResource` facade.resource.close.  `BeginClose … Finish` are
`close_session_owned` with `close_session_resources` and `close_mcp_debt`, and,
with `Teardown`, what the end of the connection does.  `Cancels`/`Drop` are the
`select!` of `dispatch` with the cancellation of the Session.

Taken from outside: the requests of a connection are futures of its one task
(`mod.rs` 41-45), so what lies between two awaits is one step; a tokio `Mutex` is
FIFO; a connect that is dropped has either left its server to the manager or
ended it; a connect replaces the server of the same name.  All servers have one
name, the case in which managers and aliases get into each other's way.
`mcp.manager.reconcile_target` takes the steps of `connect_from_config` or of
`close_all` and has no action of its own.  Left out: channels, topology, and the
clients that an Agent's configuration brings along.

## 3. The runs

All invariants and properties named here are checked by the run; each has a
faulty variant of the code that the run catches.  A name in parentheses is a
conjunct of the one before it.

| Run | Instance | Checked | Shows |
|---|---|---|---|
| `delivery` | window of 2 events and 3 bytes, 4 events of 1 to 3 bytes of which one may be oversized or have no wire form, pages of 1, one fault, one request in flight of each kind | `WindowBounded`, `WindowAccounted`, `NoSilentHole`, `ImplementsFeed` | both bounds, partial ACKs, gaps, oversized and refused events and failed resumes under any request (1.9 million states) |
| `feed` | three SDKs; window and queue of 2, 4 events of which one may be oversized or have no wire form, pages of 2 that may be refused, one failed read of a resume, two messages in flight per direction, one unforced recovery | `FeedTypeOK`, `FeedIsSound` (`PauseIsOwed`, `FailsOnlyBelowFloor`, `ConsumedWithoutHole`) | held deliveries, overtaking ACKs, recovery from gap to gap, a replay that races live delivery, what each feed does at a true hole and after a failed resume (4.7 million) |
| `feed_to_the_end` | three SDKs; window and queue of 1, 3 events of which one may have no wire form, one failed resume; fair | `RunIsConsumed` | the application reaches the terminal and its iterator ends, unless the wire contract refuses an event (0.7 million) |
| `run_start` | 2 callers, who may differ in key or payload or have no key; budget of one handle; fair | `TypeOK`, `OneTurnPerKey`, `SamePublication`, `WorkIsAccounted` (`TurnIsOwned`, `PendingCountsWork`), `ClosedIsQuiet` (`DrainedIsQuiet`, `ClosedSessionHasNoRun`), `WaitsEnd` | join, cancel, fail, retry, conflict, close, fence and drain; no waiter sleeps for ever and a fenced Host drains (0.5 million). Two callers are enough for liveness; the five safety properties are proved for any number of them |
| `settlement` | a Run and a standard one, a short receipt, one that overfills the index alone and one that cannot be projected, an index of 2 entries and 3 units (records of 1, 2 and 4), 2 disk faults, 3 processes | `TypeOK`, `AnswersSurvive` (`AnswersStand`, `RecoveryAccepts`), `DebtsAreSettled` (`DebtsAreKept`, `ClosesAreDurable`), `ImplementsHistory` | debts, retries, the closes that must wait for them, pruning, interruption and restart (0.5 million) |
| `handles` | 3 Sessions on 2 of 3 created Agents, two of one ACP id (one is a load), a session/close and two agent/close, 1 failing step; fair | `TypeOK`, `SessionsAreKept` (`AcpSessionIsOwned`, `LostOnlyToNamesake`, `ReleasedAgentIsEmpty`), `ImplementsHandleLife`, `CallsAreAnswered` | who owns an ACP Session and who may take it; the cascade is complete and nobody waits for ever |
| `host_close` | 2 callers of close or the drop guard alone, 1 dropped future, 1 failing close; fair | `TypeOK`, `CloseIsSound` (`FrameworkIsServed`, `CloseIsFinal`), `ClosesComplete` (`CloseReturns`, `CleanupSettles`) | the rendezvous has no lost wakeup, close is final, the guard cleans up in the end |
| `facade_stream` | 2 tasks that pull, one that closes the stream, one that closes the resource, 2 items, any kind of producer; fair | `TypeOK`, `AddressIsKept`, `ImplementsPullStream`, `PullsEnd` | items and terminal are right, the address outlives the source, no pull sleeps for ever |
| `session_work` | two Sessions of one ACP id; per behaviour a Session or both with two executions, an execution and a dispatch, two dispatches of one id or of different ones, an await or a control, a call in the store, one or two closes; maps of one entry; fair | `TypeOK`, `WorkIsOwned`, `FailuresStand`, `CallsReturn` | nothing runs behind a closed Session or a closed Host, retries start nothing twice, no close, drain or wait misses its wakeup (0.56 million) |
| `extension_bridge` | every plan; a mailbox of 1, 2 chunks to a channel and 1 plus an observation to an agent, 2 AgentClose calls; fair | `FamilyTypeOK`, `ChildIsOwned`, `ImplementsContract`, `CallbacksEnd` | an invocation is given back on proof only, whatever is late, lost, dropped or full; one close; no child is orphaned; who waits is told (0.5 million) |
| `mcp_resources` | 2 managers, a request that opens or connects, one that connects from a configuration, looks up or disconnects, one that disconnects or closes; session/close, which may be retried, and the teardown; a quota of 3, 1 close that fails or is dropped; fair | `TypeOK`, `ResourcesAreOwned`, `AliasesAreKept`, `ClosesReturn` | who answers for a server whatever fails, hangs or races its close; aliases outlive their namesakes; a closing Session lets its requests go (1.3 million) |

Why the bounds are enough to be interesting: every window, queue, page, index
and handle budget is smaller than the traffic against it, so each limit
is reached and passed; there is always one more caller, event or handle than
fits; at least two recoveries, two closes or two processes follow each other;
faults can hit any step that can fail.  `MaxCommitted`, `MaxInFlight`,
`MaxCatchUps`, `MaxUnsent`, `MaxFaults`, `MaxFailures`, `MaxDrops`, `MaxGenerations`,
`MaxSequence`, `MaxItems`, `MaxChunks`, `MaxCloses` and the `Plans` (which
requests a behaviour of `session_work` has) are bounds of the models only; the other constants
are limits of the code, scaled down.  The code's byte window is
`max_event_bytes` times `max_outstanding_live_events`, so that the byte bound
never binds before the count in practice; `delivery` takes them apart on
purpose.  `feed` keeps the queue of the subscription as large as the Host's window.  The
TypeScript and Java SDKs take their capacity from the limit the Host advertises
(up to 4096 and 65536 events); the Python SDK has its own `max_buffered_events`,
128 like the Host's default, and compares it with nothing.  With a smaller queue
than the window TLC shows at once that a burst the window lets through fails the
feed of an application that did nothing wrong.  Deadlock is not checked: every model may stop, when its Run, calls or
process are over.  `MCView` drops what decides no
later step and no invariant: the frame a step sent in the delivery runs (the
refinement sees it on every step TLC takes).  The constraint `OneDiffers` of
`run_start` leaves out the states in which more than one caller has asked for
something else than the others: two different requests already meet on every
path.

### Findings

This run checks what a comment of the repository says, and TLC finds it violated
by what the code does.

| Run | The repository says | The model shows |
|---|---|---|
| `settle_pruned_proof` (`ReleasedIsProvable`) | after the slot releases idempotence is proved from the durable projection (`state.rs`) | the projection is bounded: once a later Run has pushed the record out, run/wait and the close of the Session fail for good |

Two other disagreements appear as exceptions in specifications.  The first is an event
that the wire contract refuses.  "Every committed envelope is delivered live while the ACK window is
open", says the top of `events.rs` (4), and an event "whose serialized size exceeds the live event
bound is announced as a one-sequence gap" (10-12).  But the conversion comes first, and its
bounds are not that of the size: with the default of 1 MiB an event with one text of
more than 1,048,576 characters is an error (310) before it could be a gap (133).  Nothing
is sent or announced, the stream goes on with the next event past the hole, and the
replay that could fill it is refused (502).  The model has this as the code has it, and
the properties say how far it reaches:

- `NoSilentHole` and `ImplementsFeed`: the refused events are all that is ever passed
  over in silence; no other event is lost with them, whatever the races.
- `ConsumedWithoutHole`: nor does an application consume past anything else.
- `FailsOnlyBelowFloor`: Python and Java fail their feed at what follows such an event
  (`AfterTrueHole`); TypeScript, which checks no contiguity, consumes past it.
- `PauseIsOwed`: a resume that comes to such an event fails and pauses the stream at what
  was already sent, with no ACK left to end the pause, as a failed read of the journal
  does; the property is therefore about `faults = 0 /\ Carried`.
- `RunIsConsumed`: such a Run is never consumed as a whole (`~ Carried`).

The second is a stream that is cut off.  "Queue EOF
alone cannot prove successful source completion" (`facade/stream.rs` 368), but
the close of a stream's resource cancels the producer's token and not the
registry's, so that a pull that waits answers `complete` for a stream that was
cut off (`facade/stream.rs` 362-379, 573): `PullStream` lets a stream whose resource
is being closed (`cut`) end as `complete` before everything was returned.

session/close goes on by ACP id after it has freed the id (`handler.rs`
1128-1149), so that a Session which took the id meanwhile loses its authority
services, although "handles never rebind" (`sdk-core-profile.md`): this is the
exception `LostOnlyToNamesake` makes.

Limits of the work of a Session that its model had to admit.  A close that is
retried after the id was freed cancels and removes by that id, and so acts on
the work of a namesake that was loaded meanwhile: `WorkIsOwned` excepts it
through `again`.  So does `FailuresStand`: the attempt to prove it without the
exception, and then TLC on an instance with three executions, showed that such a
close lets an execution of the namesake be registered under the id of one that
still runs.  `close_all` stops at the first execution or attempt whose fate
is unknown and does not wait for the others.  An execution that is dropped with its
connection never stores `settled`, so that a close which waits for it ends by
being dropped and the drain by its timeout only.  session/close waits for the
setup of a dispatch, which nothing cancels; and since the drain's own timeout
does not cover the locks it takes first (`mod.rs` 926), so does the drain.

Limits of the bridge that its model had to admit.  `ImplementsContract` excepts
`lost`: `receiver.is_empty()` and `take_terminal()` are two looks
(`extension_bridge.rs` 2538), and a chunk and the terminal that arrive between
them let a `complete` overtake the chunk.  `CallbacksEnd` excepts what the code
leaves waiting until the connection ends: an event that is malformed, too large
or of another kind is refused before its number is taken, so that the peer's
later terminal is out of order and the agent's lease is held; an answer that is
the transport error *disconnected* closes the callback while its consumer goes on
waiting; and `extension/unregister` of an agent whose stream has had its setup
answer removes the sink, so that the peer's terminal finds nobody, although
in-flight invocations "settle through their own lease lifecycle" (comment at
`handler.rs` 2029).  `ChildIsOwned` excepts a close of the detached cleanup, or of
an agent without a factory, whose acknowledgement came after its deadline: it is
made again.

Limits of MCP resources that their model had to admit.  Nothing but its Session
cancels a request that has resolved a manager: facade.resource.close fires
`cancel_operations` of the resource (`facade/mod.rs` 616), which no MCP request
observes, so that the close of a manager waits, for ever if need be, behind a
connect that hangs; `ClosesReturn` therefore speaks of a Session that is closing.
Nor does a request look at the fence again when the lock is its own
(a channel operation does, `facade/integrations.rs` 611-621): `ResourcesAreOwned` holds
because the lock is FIFO and the fence comes before the wait.  The tools of a
`connect_from_config` that finds no room are refused and its servers stay with
their manager, while a plain connect is undone (`integrations.rs` 917-976); and the
failure of that undoing is dropped.  A close_all leaves the aliases of what it has
closed open.

Limits that reading and modelling brought up and that no run checks: a client
that recovers in two pages and ACKs each may see a live event of the first
resume below the floor of the second ACK, and its feed then fails
(`FailsOnlyBelowFloor` shows that this is the only way); a Run that settles
between a gap and its ACK drops the delivery, and the rest comes by replay only
(`state.rs` 396, `RunIsConsumed` holds nevertheless); session/load leaves its
handles published when `record_session` fails (`handler.rs` 1033); released
handles beyond `max_open_handles` count as never issued (`handles.rs` 2250), and
idempotency keys beyond it are dropped in any order (`handles.rs` 663).

### Fairness

Liveness is checked under weak fairness of what the code schedules by itself and
of nothing else: a handler that was spawned is polled, a task whose wait is over
runs, a written message arrives, a turn ends.  Nobody is obliged to call,
cancel, close, drop, fail or time out.  Strong fairness is used for locks
that are FIFO in tokio (the lifecycle `RwLock` of a Session, the close gate, the
receiver of a facade stream): who queues for them is passed over only finitely
often.  The handlers of `SessionHandles` have no loop, so weak fairness of their
disjunction is enough.  A facade source that is drained ends, deadlines expire,
and no callback is assumed to close: `PullsEnd` speaks of streams without one
that stays open.  The bridge
assumes that a peer answers every call and ends every stream in the end, in no
particular order and possibly with nonsense, and that the framework polls its
futures until it drops them.  In `SessionWork` handlers and tasks are polled, the
setup of an attempt returns, what has been cancelled ends, and the drain's
timeout expires; as every request is made once, weak fairness is enough.  Nothing
is assumed of work that nobody has cancelled, nor of a connection to stay.
In `McpResources` no start and no request ends by itself; a cancelled request is
dropped, one that is let in by a Session that is closing is refused, and the
framework's closes answer, with a failure perhaps.
`RunFeed` also assumes
that the application keeps consuming and follows the documented recovery, which
is what the liveness of a pull-based feed depends on.

## 4. The proofs

`EventDeliveryProofs`, for every window, byte bound, page bound, event size and
number of events, requests and faults:

- `TypeCorrect`: `Spec => []TypeOK`.
- `AnnouncedSequencesAreCommitted`, `WindowIsSound`, `ResumeLeavesNoTail`,
  `NoHole`: the safety properties of the `delivery` run, with `WindowBounded` and
  `WindowOrdered` in one theorem.
- `BytesAreAccounted`: `Spec => []WindowAccounted`.
- `Implementation`: `Spec => ImplementsFeed`, the refinement of `EventFeed`.

Both `NoHole` and `Implementation` say of every Run, with refused events in any number and at any
place, that these are all that is passed over.  They use `DeliveryAssumption` (the constants are naturals, the window holds at
least one event).  The inductive invariant is `Inv` (in `FeedInvariant`): `NoSilentHole` says nothing
while a resume runs, so it needs `ResumeReadsEnough` (what the resume read
reaches every observed event or overfills the window), which needs the window's
bounds and order, which need that ACKs, pages in flight and gaps name committed
sequences (`AnnouncedIsCommitted`, `PagesAreCommitted`).  The refinement is
proved per action: each maps to a step of the feed or a stutter.
The byte counter is a fold over the window, whose value follows by induction: the library's
induction theorems take an operator as a parameter and can not be used here, but that
the naturals are well founded (`NatLessThanWellFounded`, `WFMin`) is a fact about sets, from which
`NaturalsFromZero` gives induction over a *set* of naturals.  From it follow that
the recursion of a fold has a solution, that its sum does not depend on the order, and that a window is
worth what is retired of it and what is left (`BytesSplit`).

The same module proves of the feeds, for the three SDKs at once and for every
window, limit, fault, queue, number of events and of catch-ups
(`DeliveryAssumption`, `FeedAssumption`):

- `FeedTypeCorrect`: `FeedSafety => []FeedTypeOK`;
- `NothingIsSkipped`: `FeedSafety => ConsumedWithoutHole`, the third part of
  `FeedIsSound`: what the application consumes next has nothing but refused events
  before it, with any number of them.

What is consumed without a hole depends on everything that is on its way: hand,
queue, lane and wire.  `FInv` is `Inv` with the parts in `FeedInvariant`.  `Chained`
says that each event there joins what has been seen, or something that is still
before it, an event or the watermark of a gap, with nothing but refused events in between (`Joined`); `Ordered` that all of them rise from
the hand to the end of the wire, below what the Host has announced; `Latest` where
the feed's `last_sequence` lies among them, which moves back and forth in
TypeScript and with ACKs; `Consumed` that nothing is acknowledged that the
application has not seen, so that what an ACK removes anywhere was not needed;
`Phases` what each step of the iterator has in hand, and that the queue holds one
gap.  The Host's steps are summed up first as a client sees them (`HostDoes` of
`FeedSteps`: an event is announced, an ACK or a replay is taken, an answer is given),
with `NoSilentHole` of the delivery for a resume that ends.  The client's are two: the
pipeline is thinned out (`Thins`, an ACK commits or a feed fails) or an item moves from the lane to the
queue (`Arrives`), where a gap takes the place of the queued gap and of what it covers.  The
hypotheses of `FeedSound` below do not limit this part: it holds
with refused events and for a queue that is smaller than the window.

- `PausesAreOwed`: `FeedSafety => [](faults = 0 /\ Carried => PauseIsOwed)`, the first part of
  `FeedIsSound`, with the same freedom for the queue.

Its invariant is the next section of `FeedInvariant`.  `Owed` says that no written ACK is
lost and none is one the Host would reject: the client's cursor is `Reached` by what was sent
or by an ACK that is on its way, in whatever order the writes arrive, and what the application
consumes may be acknowledged, which needs that a page begins where the consumer was (`Asked`).
`AsksForMore` says that a pause lies beyond what was sent, which is where a resume that failed, on the disk or at a
refused event, would break it, hence `faults = 0 /\ Carried`: so a client whose cursor has passed the pause has
an ACK on its way that reaches it.

- `NoFalseFailure`: `FeedSafety /\ []Carried => FailsOnlyBelowFloor` if
  `QueueSize >= MaxOutstanding`, the second part of `FeedIsSound`, whatever resumes fail;
- `FeedSound`: `FeedSafety /\ []Carried => FeedIsSound` if `QueueSize >= MaxOutstanding`,
  the three parts together, with failing resumes.

`[]Carried` says that the wire contract refuses no event of the Run.  Without it Python
and Java do fail at a hole that is not theirs: `FailsOnlyBelowFloor` excepts what
comes after it and the `feed` run checks that with refused events; the proof, whose `Adjoins`
asks for the very next sequence, is about Runs without them.

The code gives the queue of a feed the Host's window: TypeScript (`client.ts` 257) and Java
(`EchoAgentClient.java` 1291-1299) read it from `max_outstanding_live_events`, and Python's
default of 128 (`client.py` 3457) is the Host's (`config.rs` 111).  Where the queue is smaller
(a Python application may ask for that, and TypeScript caps it at 4096 and Java at 65536)
a Host that fills its window overflows it, and the failure is no false one.

The invariant is the last section of `FeedInvariant`, one conjunct for each reason a
feed has to give up.  It must not overflow: `Licences` says that the Host's window is the run
of sequences right after one whose ACK the client has written (`Known`), so an event that
comes is at most a window ahead of it; `Room` and `Waiting` say that what such an ACK frees
was counted: the queue holds events above the acknowledged only, and an event that is held
waits for the very ACK it was let in by, which in Java is that of its direct
predecessor (`Fencing`; this is where `OutrunsPartialAck` is left over).  It must not see a
hole where there is none: `Adjoins` says that the predecessor of whatever comes is the last
sequence noted, comes too, or is acknowledged, and `Noted` that what was taken is
noted.  It must not find its own ACK unfounded: `Debts` and `SeenKnown` say that
an ACK claims only what was observed, live or in a page, for which `Bridged` lays what
the application has seen over pages and live events without a hole.  And it must not meet two gaps:
`Gaps` says that a gap nobody has acknowledged is the one the Host is paused at, and
the last to come.  The proof follows the flow again: Host steps (`HostRoom`), notes
of an item (`NoteRoom`), steps that only take away (`SilentRoom`), the commit of an ACK
(`CommitMovesRoom`).  `WindowFits` counts: distinct sequences in a run of `QueueSize` are no more than
`QueueSize` events, by an injection.

`PublicationProofs`, for any finite set of callers, any keys, payloads and
quota:

- `TypeCorrect`, `AtMostOneTurn`, `OnePublication`, `WithdrawalIsClean`,
  `NoTurnIsLeaked`, `CountIsExact`, `DrainIsFinal`, `CloseIsComplete`: every
  safety property of the `run_start` run, and that a withdrawn job had no effect;
- `WorkIsKept` and `CloseIsQuiet`: the conjunctions that the run checks.

The safety properties are not inductive: each holds because of where the jobs
are.  The inductive invariant `IInv` says, for every caller, what its stage and
its job's stage have already done: `Typed`; `Reserved` (who is in the registry
under a key, and that effects stay there until the Host releases the keys);
`Driven` (an admitted job holds the turn, a turn has a job or a driven Run, a
withdrawn record has no effects); `Recorded` (an Ok names the job's own Run);
`Closing` and `Emptied` (what each phase of the Session close and of the drain has
already excluded); `Counting`, the settlement count as the sum of two
cardinalities, which needs the finiteness of the callers.  There is one lemma
per part, with one step per action, and `IInv` implies each theorem.

`DurableSettlementProofs`, for any finite set of Runs, any Sessions, receipts and
sizes, and any bounds of the index, of faults and of restarts:

- `TypeCorrect`, `AnswersAreKept`, `DebtsArePaid`: the three invariants of the
  `settlement` run;
- `IndexImplementsHistory`: `Spec => ImplementsHistory`, the refinement of
  `RunHistory`.

They use `RunsAreFinite`, `RunsHaveSessions`, `Bounds` and `ReceiptData` (a
receipt is none of the words that stand for no receipt, and has a size).  Two
facts carry the proof.  Prunings of an index are nested, so that one of them is the
least and a write forgets settled records only (`WritesSpare`).  And `RunInv` says
of a Run, for each stage it may be in, which of slot, record, receipt and
answers exist and agree: `AnswersSurvive` alone is not inductive, because whether an
answer may still be contradicted depends on what the collector has in hand and on
what a restart will find.  `Settling` and `Down` say what the close of the Host has
behind it and that nothing of a process outlives it.  A step of one Run keeps `RunInv`
of the others because it spares their records (`OthersKeep`).

`SessionHandlesProofs`, for any finite set of requests, any Agents, Sessions and
keys, any budget and any number of failures:

- `TypeCorrect`: `Spec => []TypeOK`, the budget of handles included;
- `SessionsKept`: `Spec => []SessionsAreKept`;
- `HandlesImplementLife`: `Spec => ImplementsHandleLife`.

They use `RequestAssumption` (a request that names a handle names one of the
right kind: the code refuses any other before it does anything), `BoundsAssumption` and
`NoneAssumption`.  `LostOnlyToNamesake` speaks of handles that were issued, but
the ACP Session is taken when it is inserted, steps earlier: `Kept` says it from
there on.  `ReleasedAgentIsEmpty` rests on `Cascades` (every live Session of an
Agent that is being closed is on the list of the cascade or is the one it is
at), which rests on `AgentLocks` and `SessionLocks` (which handler holds which lock)
and on `Targets` (what a close works on does not open again).  `Admissions`,
`AcpOwners`, `Buries` and `Remembers` tie the ids, the tombstones and the
idempotency keys to the calls.

`FacadeStreamProofs`, for any pulls, closers and sweepers and any number of
items, assuming that `None` is no pull, no item and no terminal (`FreeIsNoPull`,
`NoneIsAbsence`) and that `MaxItems` is a natural (`BoundIsNatural`):

- `AddressKept`: `Spec => AddressIsKept`, an action property;
- `TypeCorrect`: `Spec => []TypeOK`;
- `PullsKeepThePromise`: `Spec => ImplementsPullStream`, the refinement of
  `PullStream`.

`settled` may be taken back and `error` may come and go, so that a call has read
them says little later on.  The first invariant, `IInv`, rests on what lasts: `Joins`
(the producer has exited when it is joined, and what is attached and settled is over),
`Locks` (a pull past the receiver's lock holds it, so no other pull observes an
error between its last look and its commit), `Looks` (what has been seen at
`commit` and at `release` still holds) and `Starts` (no call before
`attach_background`).  The refinement needs a second one, `Delivers`, on top:
where each item made is (given, in the hand of the pull that holds the lock, in
the queue, or with the producer) and that these are consecutive numbers (`Produces`, `Queued`, `Hands`,
`Recorded`, `Contiguous`), and that whoever concludes something of the source at `eof`,
`exit`, `settle` or `commit` concludes what is still true of it (`Concludes`).

`SessionWorkProofs`, for any Sessions, scopes, requests, closes and idempotency
ids, under `SessionWorkAssumption` (the kinds of requests differ, the map of attempts
holds at least one):

- `TypeCorrect`: `Spec => []TypeOK`; `WorkOwned`: `Spec => []WorkIsOwned`;
- `FailuresLast`: `Spec => FailuresStand`, an action property.

That work is in its map does not last by itself: executions leave their map by
scope, whoever is registered under it by then.  What keeps that right is `Served`
(a scope is served for one Session at a time, and nobody is let in past a closer),
`Closers` and `Locking` (what a close has behind it at each of its steps) and
`Drained` (the drain takes no lock, but fences all Sessions and sees every permit back
first).  `Started` and `Mapped` relate a request's stage to the state of what it started and
to the maps, `Shown` an execution to the failure that task/list shows.

`McpResourcesProofs`, for any managers, requests, closers, quota and number of faults,
under `McpResourcesAssumption` (addresses of managers, requests and tools
differ):

- `TypeCorrect`: `Spec => []TypeOK`, the quota included;
- `ServersAreOwned`: `Spec => []ResourcesAreOwned`;
- `AliasesLast`: `Spec => AliasesAreKept`, an action property.

A request goes on with a manager that another one closes.  That its server still
has an owner is due to the order of the lock's queue: `Locked` says that a close
which comes after it has it `ahead`, and that one request at a time connects or
undoes.  `Follows` (an alias is of the server its manager holds, or of one that is closed)
makes a disconnect withdraw the right aliases; `Closing` says that what is not on
a closer's list any more is closed, because nothing was in flight when it made the
list.  `Minted` and `Subjects` say how an address comes about and what a request at
each stage is about.

`ClosingProofs`, first part: `HostClose`, for any callers and any bound on failures and
drops, assuming that the four roles differ (`FourRoles`) and that `Unset` is no outcome:

- `HostTypeCorrect`: `HostSpec => []TypeOK`; `CloseStaysSound`: `HostSpec => []CloseIsSound`.

A close decides what there is to close by reading `pollStarted`.  `ActorLife` says
what the actor has published at each of its stages, so that a connection is
bound at most once and by an actor that has not ended; `CloseLife` what each close
knows at each stage; `HandleKept` that the handle is given up only when
nothing runs; `GateKept` who may hold `close_gate`.

Second part: `FactoryChild` with `ExtensionBridge`, for any mailbox, any number of
chunks and of AgentClose calls and every plan, assuming that they are positive and
that `None` is none of the words that stand for something (`BridgeAssumption`,
`FamilyAssumption`):

- `FamilyTypeCorrect`: `Spec => []FamilyTypeOK`, the bound of the mailbox included;
- `ChildOwned`: `Spec => ChildIsOwned`, its invariant and its action property;
- `ContractKept`: `Spec => ImplementsContract`, the refinement of `CallbackContract`.

The inductive invariant `ChildInv` has two halves.  `Family` is about who there is:
`Leases` (a lease is dropped by its last owner, and a registered child that it leaves is
the detached task's), `Registration` (a parent outlives its child, an unknown fate retains
the owner), `ClosersStand` (a closer that is at work holds a clone of the lease, so the
lease it looks at is alive), `Construction` (while the constructor is out nobody has the
Agent, and the call itself holds the lease) and `PeerHasClosed` (what the peer has
acknowledged is on its way to release the child: in the closure of the call, in
`acknowledged_close` or in the hand of the cleanup).  That `AgentClose` is not sent again
follows from the last one and from who may hold a lease, not from the state of the call.
`Streaming` is about the stream: `Proofs` relates phase, answer, terminal and fate (both
physical facts close the call; one that stays open after an error is of unknown fate),
`Boxes` counts the chunks in the mailbox against those sent and given, says that a terminal
is its last item, and who may see a complete one while chunks are still in it.  Most steps of
the family only end the sink from outside and are one case of the proof (`Aside`).

Model-checked only:

- liveness (`RunIsConsumed`, `WaitsEnd`, `CallsAreAnswered`, `ClosesComplete`, `PullsEnd`,
  `CallsReturn`, `CallbacksEnd`, `ClosesReturn`): TLAPS does not do fairness;
- which frames a feed refuses after the hole of a refused event (`FailsOnlyBelowFloor` without
  `[]Carried`);
- `ReleasedIsProvable`, which the code violates (see the findings).

## 5. What is not modelled

The components marked *not modelled* above: argument decoding, wire
DTOs, schemas and generated contracts, configuration, stdio framing, feature
flags, telemetry, topology.  They have no protocol state; what the models need of them
(a receipt no wire type can represent, a page too large, an event without a wire form) is an input.

Steps of modelled parts that are left out, because no property here would tell them
apart: the loss of the connection while a direct handler's keyed record is open; a
`register_definition` of `agent/create` that fails; a `close_facade_resource` in
`finish_record` that fails; a panic in the first poll of `connect_owned`; the checks of
`bounded_replay` that a record's number is its envelope's and that the finished page is valid
(`events.rs` 491-501, 561-568), which a journal the Host itself has written passes.

`PROJECT.json` lists every component with its status and every hazard with the
properties that cover it, or the reason none does.

## 6. Plan

Done, in this order because it is the path of an event and of a receipt through
the Host: delivery and replay, the feeds of the three SDKs, keyed publication, durable
settlement, Host close, handles, facade streams, the extension bridge, tasks and
subagents, MCP resources; proofs of every safety property and refinement of
delivery, publication, durable settlement, handles, Host close, facade streams, the
extension bridge, tasks and subagents, and MCP resources;
types of the feeds, and that they are sound.

Next:

1. Channels: start and stop of a manager, whose operations take the lifecycle
   permit of their resource, and the MCP clients that an Agent's configuration
   brings along (`facade/integrations.rs`).
