# Verification of the EV charger emulator

The repository is a Next.js application that emulates OCPP 1.6J charge points.  One Node
process runs every emulated device ("device instance"); a PostgreSQL database, reached
through Prisma, holds each connector's state; each instance keeps a WebSocket to a CSMS.
This directory holds TLA+ models of that program, TLC runs of them on small instances, and
proofs, checked by TLAPS, of the properties that matter most.

Contents: 1 inventory, 2 plan, 3 what is modelled and how, 4 the runs, 5 fairness,
6 the proofs, 7 disagreements found, 8 what is not covered, 9 how to run.

## 1. Inventory

Paths are under `src/src/lib/` unless they begin with `src/`.

| Component | State it keeps | Operations |
|---|---|---|
| Connector sessions (`device-instances/connector-sessions.ts`) | one database row per connector: status, lock, vehicle present, the attempt (tag, start time, pending flag, transaction id, remote flag), the Preparing and Finishing stamps, a local transaction counter; in memory one Preparing timer per connector | start, stop, plug in, unplug, lock, unlock, clear fault, list (which promotes lazily), remote prepare / cancel / adopt |
| Remote commands (`ocpp/remote-commands.ts`) | in memory: open transactions, starts in flight, mirrored connector statuses, meter timers | handlers of RemoteStart/Stop, Reset, ChangeAvailability, UnlockConnector, TriggerMessage, Get/ChangeConfiguration; `startTransaction`, `stopTransaction` |
| Instance runtime (`device-instances/runtime.ts`) | in memory: the registry of runtime entries (client, session, handlers) | create an entry (releasing what a dead process left behind), connect, disconnect, `callOcpp`, callbacks of the remote commands |
| Outbox (`device-instances/outbox.ts`) | database: queued StartTransaction and StopTransaction messages | queue a call that threw, drain in order after an accepted boot |
| OCPP client (`ocpp/client.ts`) | socket, connection state, reconnect timer and attempt number, pending calls with their timers | connect, disconnect, call, socket events |
| Boot session (`ocpp/session.ts`) | boot status, heartbeat, retry and flush timers, a status queue | boot on connect, retry, heartbeat, status notifications |
| Reservations (`ocpp/reservation.ts`, `device-instances/prisma-reservation-store.ts`) | database rows and in-memory expiry timers | reserve, cancel, expire, redeem |
| Local authorization list (`ocpp/local-list.ts`, its store) | database entries and a version | full and differential update, lookup |
| Firmware, board upgrade (`ocpp/firmware.ts`, `device-instances/maintenance.ts`) | update timers, persisted upgrade start | update steps, upgrade, resolution after a restart |
| Hardware tests, diagnostics (`device-instances/hardware-test-state.ts`, `diagnostics.ts`) | a panel's toggles: an object in memory over database rows | toggles and settings; output tests are guarded against charging sessions |
| Charging profiles (`ocpp/charging-profile.ts`, its store) | database: profiles per connector, stack level and purpose | set, clear, the schedule in force |
| Configuration (`device-instances/prisma-configuration-store.ts`) | database: OCPP keys; in memory the heartbeat and meter timers that follow two of them | get, change |
| Parameters (`device-instances/parameters.ts`, `settings-pages.ts`, `src/prisma/seed.ts`) | database: the catalogue of a device model, a value of each per instance | seed, create an instance, save settings, restore defaults, store a firmware version |
| HTTP routes (`src/src/app/api/`) | none | check a body, call a handler above; PATCH and DELETE of an instance |
| Screens (`src/src/app/`, `src/src/components/`) | per open page: views loaded, pending flags | load, poll, press a button |

How they interact.  Screens call HTTP routes, which call the connector-session handlers
directly.  The CSMS reaches the same rows through the client's incoming calls, the remote
commands and the callbacks the runtime gives them.  The connector sessions reach the CSMS
through `callOcpp`, and through the outbox when that throws.  The boot session's accepted
boot drains the outbox.  Nothing locks anything: the handlers share the row and
communicate through it.  The same holds of the panels' objects, the registry of runtime entries,
the catalogue of parameters and the configuration rows.

What is hard.

* *Interleaving at every await.*  A handler reads the row, awaits the database or the CSMS
  several times, and writes values computed from what it read.  Some writes are conditional
  (`updateMany` with a `where` that names the attempt), others are not.  Two browser tabs,
  the Home screen's poll, the Preparing timer and the CSMS run such handlers at once.
* *Lazy promotion.*  No background job drives a connector.  Whoever lists it next expires
  the handshake, reports the transaction or settles the Finishing hold, several of them at
  once.
* *Failures in the middle.*  The link drops, a call times out after the CSMS acted on it,
  the process restarts between two writes and loses its timers and maps.
* *Two sources of one thing.*  The CSMS's transaction ids and a local counter share a column;
  a connector's energy register is the sum of its session rows for one side and a map in
  memory for the other.
* *Answers in any order.*  A page's polls and loads overlap, handlers of CALLs return after
  awaits or at once, and what a command entails must follow its answer.

What makes each component correct.

* Connector sessions: a session's fields come and go together; an attempt is reported at
  most once; no Preparing connector lacks a deadline; every handshake is completed or
  expires; a stop names only transactions that exist; a transaction whose attempt was
  cancelled is closed; a connector charges only a vehicle that is there.
* Outbox: messages go out in order, each one at least once and, without failures, once.
* Client: one socket at a time; a call never outlives its socket and always settles; a lost
  link is reconnected until told otherwise.
* Boot session: a connected station is accepted or about to ask again; a heartbeat and an
  acceptance end with the link; statuses recorded without one are told.
* Runtime: a stopped instance stays stopped; every client that connects is in the registry.
* Remote commands: one transaction per connector, none forgotten, no meter loop leaked; an
  answer before its consequences; a Reset that waits is woken.
* Reservations: each has one timer ahead of it; a Reserved connector has a reservation.
* Local list: the entries are what the accepted updates make, and an update cut off does not show.
* Board upgrade and firmware: disabled connectors are enabled again; one update at a time.
* Panels: an output under test and a charging session exclude each other; what is shown is
  what survives a restart.
* Meters and timers: a session's loop runs at the stored interval, the heartbeat too; the CSMS
  bills a transaction its own energy.
* Parameters: an instance has a valid value for every parameter of its model.
* Screens: what the operator did is shown when its button can be pressed again.

`PROJECT.json` lists the hazards at the lines where they bite.

## 2. Plan

In order, the behaviour on which everything else rests first; all of it is done.

1. `ConnectorSession`: the connector row with all its handlers.  Proofs of types, wholeness of
   sessions and the reporting properties.
2. `OcppClient`: sockets, reconnects, pending calls.  Proofs of its safety properties.
3. `DeviceLink`, which composes the client with the boot session, the runtime entry, the
   persisted status and Reset.  Proofs carried over from the client's invariant.
4. `ConnectorLifecycle`, the abstract life of a session, implemented by `ConnectorSession`;
   `OrderedDelivery`, the abstract delivery, implemented by `Outbox`.
5. The parts that share no variable with these: `Reservations` and `RemoteCommands`,
   `PanelState`, `Maintenance`, `Firmware`, `LocalList`, `ChargeEnergy`, `MeterLoop`,
   `MeterRegister`, `Configuration`, `InstanceRegistry`, `Parameters`, `IncomingCalls`,
   `Screens`; `MCStation` checks them in one run.

Then the proofs of every safety and action property that a run checks, section 6.  What would
come next: a composition of `ConnectorSession` with `RemoteCommands` on one row (each now has the
other's side in a simplified form), and two connectors at a time.

## 3. What is modelled and how

### ConnectorSession

One connector of one instance.  The state is the database row (`row`, with the column names
of `schema.prisma`), the Preparing timer (`timer`), the requests that are running (`call`),
`remoteTx` (the connector's entry of `activeTransactions`), the outbox, the link
(`entry`, `online`) and, outside the program, the CSMS's transactions (`open`, `issued`).

*A step is one database statement or one OCPP call, with the code up to the next one.*
That is the granularity at which Node interleaves handlers.  `call[p].pc` names the
statement the request performs next, `call[p].s` is the row as the request last read it.
Writes that test the row in their `where` clause (`StillClaimed`, `ClaimMatches`, the
conditions in `Expire`, `FinishHold`, `StartBody`, `CancelRemote`) test the row of that
moment; the others (`StopClear`, `ConnectEvBody`, `Unplugged`, `RemoteAdopt`, `LockBody`,
`ClearFault`) write what the snapshot says.

| Code | Actions |
|---|---|
| `resolvePendingPromotion`, `promoteConnectorIfDue` | `Read` (the choice `ResolveAt`), `Expire`, `Claim`, `ReadClaimed`, `StartAccepted`, `StartRejected`, `StartFails`, `Reject`, `Adopt`, `ReadAdopted`, `CloseLost`, `Promote`, `FinishHold`, `Reread` |
| `listConnectorStates`, `schedulePreparationExpiry` | `Poll`, `ListBody`, `Arm`, `TimerFires` |
| `startChargingSession` | `BeginStart`, `StartBody`, `StartThrows` |
| `stopChargingSession` | `BeginStop`, `StopThrows`, `StopNotify`, `Arm`, `StopClear` |
| `connectEv`, `disconnectEv`, `setConnectorLock`, `clearConnectorFault` | `BeginOther`, `BeginClearFault`, `ConnectEvBody`, `DisconnectEvBody`, `Unplugged`, `LockBody`, `ClearFault` |
| `handleRemoteStartTransaction`, `startTransaction`, `prepareRemoteStart`, `cancelRemoteStart`, `adoptRemoteSession` | `BeginRemoteStart`, `StartBody`, `RemoteWait`, `CancelRemote`, `RemoteAccepted`, `RemoteRefused`, `RemoteKept`, `RemoteAdoptRead`, `RemoteAdopt` |
| `handleRemoteStopTransaction`, `stopTransaction`, `onTransactionStopped` | `BeginRemoteStop`, `RemoteStopSent`, then the stop's steps |
| `getOrCreateEntry`, `drainOutbox`, the link, a restart | `CreateEntry`, `Deliver`, `LinkUp`, `LinkDown`, `Crash` |

*Time.*  Every stamp the code takes with `new Date()` is a number of its own; `clock` is the
last one.  `horizon` says which stamps are older than the timeout that counts from them;
it stands for both timeouts, the 60 s ConnectionTimeOut and the 5 s Finishing hold, since
no behaviour of one connector depends on which of them passes first.  A stamp a handler
takes when it begins and writes later is taken when it is written, which is exact for the
comparisons made because no other comparison falls between.  `TimePasses` does not
let a whole ConnectionTimeOut go by between a stop's `stoppedAt` and its last write: the
only long wait in between is an OCPP call, which gives up after 30 s.  When
`schedulePreparationExpiry` is called without a start it takes a new date just after the
stored one; the model arms the stored one.

*Failures.*  `drop` takes the link down; `lost` makes a call fail although the CSMS acted on
it (a timeout, or a close before the answer); `crash` restarts the process, which forgets
requests, timers and maps, keeps row and outbox, and creates its entry again later.

*Modelling decisions worth knowing.*

* A StopTransaction is answered in the step that sends it; nothing in the program reads
  state that its answer could find changed.
* A CALLERROR answer counts as a failed call, as in `callOcpp`.
* Database statements do not fail.
* A remote start carries no charging profile and finds no reservation, so the test of
  `pendingStarts` and the insertion into it have no await between them and are one step.
  The status it tests is a mirror that may lag behind the row and is not modelled: the
  guard is weaker here than in the code.
* `BeginRemoteStop` joins the handler's lookup with the deferred removal of the
  transaction from the map.
* A stop through `requestStop` behaves as a stop request.
* `OneOperator` says that a request begins only when the last one has returned, as the
  screens' buttons do (`disabled={pending}`, `ConnectorChargeCard.tsx`); polls and timers
  interleave with it all the same.  The safety run does without it.
* Clearing a fault is offered for a faulted connector only, so that is when it begins.

`MCConnectorSession` adds the symmetry of `Calls` for TLC.  It is used for safety only.

Properties (each with the code it speaks of in its comment): `TypeOK`,
`OneStartPerAttempt`, `SessionIsWhole`, `PreparingHasDeadline`,
`StopNamesIssuedTransaction`, `ChargingHasVehicle`, the action properties
`FreshWindow`, `StopClosesTransaction`, `SessionLeftAlone`, and the
liveness properties `HandshakeWindowCloses`, `AttemptSettles`, `FinishingSettles`,
`LostAttemptIsClosed`.  The operators whose comment begins "A mutant of" are not used by the
specification; they are plausible bugs of the definition that follows them, and `PROJECT.json`
says which property refutes each.

`KeepsLifecycle` says that the row implements `ConnectorLifecycle`: a session is offered by a card
or awaited from the CSMS, claimed by one request or adopted, charges and ends, with the OCPP status
that goes with each stage; an attempt is never replaced by another, and only a session that got
beyond the handshake leaves the connector Finishing.  It holds for one operation at a time, of
the operator or the CSMS, remote starts and every fault included; the violation runs show what two
do.  Finishing belongs to `Settle` too, because of this: a poll that read the row Preparing can expire
it between a stop's snapshot and its write, which then sets Finishing on a connector whose session
is gone.

### OcppClient

One client object and every socket it has opened.  Its fields are the variables of the same
names; `pendingCalls` maps each call to the socket it was sent on.  Methods and callbacks
contain no await (a call's promise is awaited by its caller), so each is one action:

| Code | Actions |
|---|---|
| `connect`, `openSocket`, `disconnect`, `clearReconnectTimer` | `Connect`, `Disconnect` |
| `handleOpen`, with a subprotocol that is accepted or not | `HandleOpen` |
| `handleClose`, `rejectAllPending`, `scheduleReconnect` | `HandleClose` |
| the reconnect timeout's callback | `Reconnect` |
| `call`, its timeout, the error callback of `send`, the answers | `CallSent`, `CallTimesOut`, `SendFails`, `HandleAnswer` |

Two things in the code make it less simple than it looks.  `handleOpen` and `handleClose` act
for whichever socket called back, also one that `ws` no longer refers to, so sockets are
kept apart (`socket`, with the ready states of the `ws` library).  `reconnectTimer` holds the
handle of one timeout, which `scheduleReconnect` overwrites and which any firing sets to
null, so armed timeouts are counted (`timeouts`) apart from the handle.

A socket name is used again once the socket is closed: nothing refers to a closed socket,
which is `NoCallOutlivesItsSocket` and the invariant `RefersToLive` of the proof.  `early` is
a history variable: `connect()` was called while the last connection was still closing or a
reconnect was armed.  The client does not defend itself against such calls, and its callers
make them (`reconnectDeviceInstance` calls `disconnect` and, two database statements later,
`connect`; `startDeviceInstance` calls `connect` during a backoff).  `OneConnection`,
`ConnectedCanCall` and `QuietAfterDisconnect` therefore say what holds until that happens;
`NoCallOutlivesItsSocket`, `KeepsTrying` and `LostLinkIsRetried` hold whatever the callers do.
After an early `connect()` the model shows, among others: a second socket open to the CSMS; a
client in state "connected" without a socket, which refuses every call; the close of an old
socket rejecting the calls of the new one and opening a third.

A handshake that the CSMS never answers keeps the client "connecting" forever: the code gives
the socket no handshake timeout, and the model has no fairness for `HandleOpen`.

### DeviceLink

`DeviceLink` extends `OcppClient` with everything that listens to the client: the boot session
(`bootStatus`, `heartbeat`, `bootRetry`, `boots`, `unsent`), the runtime entry
(`manuallyStopped`, `registered`, `starting`), the persisted `status` with the `writes` of it in
flight, and `reset`.  An event of the client runs its listeners and the continuations of the
promises it settles before anything else, so `LinkOpens`, `LinkCloses` and `LinkRetries` are the
client's actions conjoined with what the session and the entry do about them.  A write of the
status is a pooled query: those in flight land in any order.

| Code | Actions |
|---|---|
| `session.ts`: boot, answers, retry, trigger, disconnect | `LinkOpens`, `BootAccepted`, `BootPending`, `BootRejected`, `BootFails`, `BootRetryFires`, `TriggerBootNotification`, `LinkCloses` |
| `setConnectorStatus`, `flushConnectorStatuses` | `SetConnectorStatus`, the acceptance |
| `startDeviceInstance`, `stopDeviceInstance`, disposal, `reconcileRuntimeOnStartup` | `StartInstance`, `StartWrites`, `StartConnects`, `StopInstance`, `DisposeInstance`, `Reconcile`, `WriteLands` |
| `performReset` | `ResetArrives`, `ResetDisconnects`, `ResetReconnects` |
| the network, the process | `LinkPeerCloses`, `Crash` |

`stopped` remembers a stop that met nothing under way; a stop that crosses a start, or the answer
to a boot, is undone by it.  A Reset that finds its link lost while it stops the transactions waits
for a close that never comes; the model calls it `stranded` and `ResetIsWoken` is about the others.

### The other parts

In each a handler is a job: its `at` names what it does next, and between two of its steps other
handlers run.  A step is the code between two awaits.

| Module | Code | State and what crosses |
|---|---|---|
| `Reservations` | `ocpp/reservation.ts`, its store | the rows, the expiry timers with their chunks, the mirrored status, what `setImmediate` deferred (run in order); ReserveNow, CancelReservation, expiry, redemption, disposal |
| `RemoteCommands` | `ocpp/remote-commands.ts` | `activeTransactions`, `pendingStarts`, the simulated meter and its interval; RemoteStart and RemoteStop with everything deferred, Reset, ChangeAvailability, ChangeConfiguration, over `Reservations` |
| `IncomingCalls` | `client.ts`, `handleIncomingCall`, and when each handler of `remote-commands.ts` returns | the frames sent, the immediates, the uploads of diagnostics; CALLs, lost and new links, disposal, a database that fails |
| `Outbox` | `outbox.ts`, the drains of each accepted boot | queue, lists of the drains; failed sends and deletes, lost answers, crashes.  Implements `OrderedDelivery` |
| `PanelState` | `hardware-test-state.ts`, `diagnostics.ts`, their routes, the guard in `connector-sessions.ts` | the cached objects, what is persisted, the session as the row shows it; loads by two requests, saves that fail, a session that starts, ends or is hidden by a status written over it, restarts |
| `Maintenance` | `maintenance.ts`, the board upgrade | connectors disabled, start stored, the timer; polls and timers that race to complete, crashes |
| `Firmware` | `ocpp/firmware.ts` | the timer and the run; updates that replace one another |
| `LocalList` | `ocpp/local-list.ts`, its store, the panel's edits | entries and version, row by row; two writers, an update cut off at any write by a failure or a crash |
| `ChargeEnergy` | `charging-profile.ts`, the energy in `remote-commands.ts` | the profiles, with any number of periods in any order, some without a limit, and the second of the transaction; the code's sort and piecewise sum against a sum second by second |
| `MeterLoop` | the meter loops of `connector-sessions.ts` | the loop, the row, the stored interval; starts, stops, ticks, reconfigurations, sweeps |
| `MeterRegister` | the readings and `meterStart`/`meterStop` of both sides | the session rows, the map in memory, what the CSMS was told of each transaction |
| `Configuration` | HeartbeatInterval: its store, `session.ts`, `runtime.ts` | the row, the timer; boots, changes, lost links |
| `InstanceRegistry` | `runtime.ts`, PATCH, DELETE, start, stop, the reconnects of `performReset` and of the backoff | the registry, the clients that are up or have a connect ahead, the instance's row, statuses on their way to it; requests that cross, writes that land late |
| `Parameters` | `src/prisma/seed.ts`, `parameters.ts`, `settings-pages.ts`, POST and PATCH of instances, the factory restore | the catalogue, each instance's values; seeds that die or run again while handlers write |
| `Screens` | every page under `src/src/app/`, `useTwinData.ts` | what the page shows and has asked for, its pending flags; answers in any order or lost |

*Histories.*  Many of these handlers are not safe when they meet, and the code guards them by
nothing.  A property of such a part says what holds until certain handlers meet, and a history
variable (`doubled`, `restopped`, `raced`, `crossed`, `collided`, `interfered`, `boardBroken`,
`listRaced`, `crossing`, `unsettled`, `impatient`, `mixedUp`, `halfChanged`, `stopsCrossed`,
`overlapped`, `unanswered`, `early`) records that they did.  Four more record a thing the code does not
mend: `damaged` (the local list was edited or an update of it cut off, until the next Full one) and
`cutOff` (its version), `survivors` (entries disposed of with a connect still ahead), `lateStatus` (the
last status came with no entry left); and `missed` of a press, that its answer or a load failed.  Each is set exactly in the steps
named where it is declared, so that the rest of every behaviour is covered; no property is excused
by a crash or by time alone unless it says so.  What happens in the excused meetings was looked
at with the exception removed, and is told in sections 4 and 7.

*Abstractions.*  In `RemoteCommands` the connector row is free, in use, or the tag of a remote
attempt; `ConnectorSession` has it in full.  `Configuration` and `MeterLoop` measure times in
units of which one constant is the longest timer.  `MeterRegister` counts in half Wh, so that
`Math.round` shows.  `Parameters` knows a parameter by its `sortOrder` and a value by its form
(what validation tells apart); the whole catalogue of the seed is in the module, and `Sown` picks
the rows a run writes.  `Screens` keeps of each view its version.  `PanelState` follows no status told to
the CSMS: while an output test runs, plugging in, unplugging, clearing a fault, an expiry or a change of
availability tells its own.  `InstanceRegistry` joins the steps of a boot: its answer and the write
of its status are one landing.  In `IncomingCalls` a few commands of each kind stand for the others.

## 4. The runs

| Run | Question | Bounds | Result |
|---|---|---|---|
| `connector_safety` | Can two interleaved requests of any kind, with every failure, tear a session apart, report it twice, strand it in Preparing, or stop a transaction nobody issued? | 2 requests at a time, 3 begun besides polls, 1 tag, 1 transaction id, all operations, all faults | no; about 1.8 million states |
| `connector_live` | With an operator or a CSMS and one more poller or timer, and no failures, does everything settle, and does the row live the abstract life? | 2 requests at a time, 3 begun, 1 tag, 1 transaction id; start, stop, plug in, unplug, remote start | yes; about 160 000 states |
| `client_calls` | Can any order of connects, disconnects, losses and answers strand the client or a caller? Is there one connection if callers wait for the last one to be over? | 3 sockets, 3 connects, 2 calls, 2 retries | no; yes; about 8 000 states |
| `device_link` | Can boots, answers, resets, starts, stops and crashes leave the station connected and unregistered, registered without a link, silent about a status, or a stop undone? | 2 sockets, 2 connects, 2 boots per socket, 2 writes in flight, 1 retry, 1 crash | no |
| `station` | The parts of the last table, one moving in each behaviour: can crossing handlers forget, repeat, leak or tear anything, outside the exceptions each property names? | 2 handlers of each kind at a time, 2 to 4 begun, 1 crash | no; about 1 million states |
| `stop_races_start` | Is the transaction always closed when a stop wins against StartTransaction? | as `connector_safety`, 2 transaction ids | no |
| `stale_connect` | Does plugging in leave a session alone? | start and connect only | no |
| `stale_window` | Does a window that opens have its whole time? | 1 request at a time, 6 begun | no |
| `unplug_races_remote` | Does a remotely started session charge only a vehicle that is there? | remote start, connect, disconnect | no |
| `connect_in_backoff` | Does disconnecting cancel every reconnect? | as `client_calls` | no |
| `reserved_forever` | Does a Reserved connector have a reservation? | 1 handler at a time, 2 begun | no |
| `bills_earlier_sessions` | Is a transaction billed its own energy, whoever stops it? | 1 handler at a time, 5 begun, 2 transactions | no |

Why the bounds are enough to be interesting.  Two requests at a time is what every race
needs: a snapshot and a writer that makes it stale.  Polls do not count against
`MaxRequests`, so with three requests the sequence plug in, start, (poll) charge, stop is
reached, and so are a restart or a lost link at every point of it.  The proofs hold for any
number of requests and ids, so for what is proved the bounds matter only as a
check that the formulas mean what they should.  `connector_live` has the operations of the
life of a session; the others only change the lock or the fault.

For the client, every socket or armed reconnect comes from one `connect()`, so three sockets
are never too few for three connects, and three connects are one for the connection, one
that comes too early, and one on top of what that left behind.  `device_link` leaves out connects
that come too early (`ExploreEarly`), which `client_calls` has; the proofs have both.

`MCStation` is a sum, not a product.  Its parts share no variable and a property speaks of one
part, so an interleaving of two parts satisfies it exactly if each part alone does; the run lets
one part move and the others rest.  Interaction between components is in the modules that join
them: `ConnectorSession` (rows, remote transactions, outbox, link), `DeviceLink` (client, boot
session, runtime, Reset), `RemoteCommands` (over `Reservations`), `PanelState` (both panels and
the sessions), `MeterRegister` (both meters and the rows), `Parameters` (the seed, the routes,
maintenance).  In `station` a behaviour of `Screens` is on any of its fourteen pages, with two rows and one
press at a time.  `InstanceRegistry` has two entries: four requests make a third only where the making of
an entry crosses something.  A status on its way at a time is enough to land after a disposal.  The
periods of a profile begin before the transaction, with it or later.

Larger instances that were run once and passed: `DeviceLink` with early connects (12.9 million
states); `MeterRegister` with 4 units of time, 3 transactions and 7 commands, under the
constraint that stops do not meet (5.6 million); `IncomingCalls` with 3 CALLs on 2 links
(11.5 million) and 2 on 3; `Parameters` with three seeded rows; `Screens` with all pages, once with
2 rows and 2 presses (1.2 million), once with 3 versions (1.1 million).

`ChargingHasVehicle` holds for one operation at a time and no restart, which `connector_live` checks
without failures and `VehicleIsThere` proves with them; `unplug_races_remote` shows it fail for two
operations.  A restart between the two writes of `disconnectEv` (the vehicle leaves, then the
session is stopped) loses the stop: the row goes on charging nothing until somebody stops it.

What `StartCallExclusive` excepts does happen.  `handleRemoteStartTransaction` tests
`pendingStarts` (414), then awaits the redemption of a reservation or the storing of a profile,
and adds the connector to the set afterwards (431).  Two starts, or a start and a stop, that meet there
are both accepted: both call prepareStart, the second throws because the row is taken, and its
cancelStart frees the row that the first prepared.  Two StartTransactions may go out, and the
entry of one overwrites the other's.

## 5. Fairness

`FairSpec` of `ConnectorSession` assumes weak fairness of each request's steps, of the timers, and
of time.  The first holds because database statements return and `OcppClient.call` gives
up after its timeout; the second because Node fires an armed timeout; and time passes.  It is
not assumed that anybody polls, presses a button, plugs a vehicle in, or that the CSMS accepts.
`FinishingSettles` alone depends on polling, as the code does (the hold is settled by whoever
lists the connector), so it states that as its hypothesis.  For the client, only the
reconnect timeouts are fair: nothing obliges a CSMS to accept, answer or hang up.

The other modules state what must eventually happen as safety, by naming what is ahead: a
boot, a retry or an answer (`KeepsBooting`), a close (`ResetIsWoken`), a handler, a timer or a poll
(`UpgradeIsOwned`), one live timer (`ExpiryIsOwned`).  Those timers fire and those calls settle
by the same argument.

## 6. The proofs

The theorems hold for all constants that satisfy the modules' named assumptions: any number
of concurrent requests, tags, transaction ids and all faults for `ConnectorSession`; any
number of sockets, calls, retries, boots and connects for `OcppClient` and `DeviceLink`; any
number of handlers, messages, entries, intervals and crashes for the other parts.

* `ConnectorSessionProofs`.  `TypeCorrect`, `Spec => []TypeOK`, by one lemma per kind of request step
  and one step per action.  `SessionStaysWhole` and `PreparingKeepsDeadline`: neither is inductive,
  since a handler writes from its snapshot.  The invariant adds, for the row, what the properties
  say, and, for each running request (`Prepared`), what it may rely on when its next write comes: that
  an adopter has a transaction, that a claim's attempt was a session when it was read, that a stop's
  deadline is set when its vehicle is connected.  This proof never compares the snapshot with the
  present row: each unconditional write is shown to write a whole set of fields, and each
  conditional one to find the row whole.  `AttemptReportedOnce` needs that timestamps are not used
  again and that at most one request owns an attempt between its claim and its end (`OwnersInv`): the
  claim excludes a pending attempt, and while an attempt is pending the row's start time is its
  own.  `StopsNameIssued` needs (`IssuedInv`) that every transaction id a request holds was issued,
  that the snapshot of a stop with the remote flag has an issued id, and that a claim is a local
  one, so that a promotion never marks a local counter value as remote.
* `ConnectorLifecycleProofs`.  `LifecycleKept`: with one operation at a time (the constant
  `OneOperator`) and every fault, each step of `ConnectorSession` is a step of `ConnectorLifecycle` or a
  stutter.  Here the snapshot has to be compared with the row, which polls, timers, late answers and
  restarts change meanwhile.  `AloneInv` says what an operation still knows however old its snapshot is
  (`OperationSeen`: no session then, no session now; the vehicle as it was read; a stop's transaction
  still charges or is over), and the steps of everything else are shown to be `Quiet`: they end, claim
  or promote what is there and begin nothing.  `VehicleIsThere` follows from it for the same
  constants without "crash".
* `DeviceLinkProofs`.  For the client, `ClientTypeCorrect`, `CallsEndWithTheirSocket`,
  `ClientKeepsTrying`, `OneConnectionAtATime`, `ConnectedClientCanCall` and `DisconnectedClientIsQuiet`.
  The invariant `IInv` adds that what `ws` refers to is not closed (`RefersToLive`), that a non-null
  handle belongs to an armed timeout (`HandleIsArmed`), and, as long as no `connect()` came too early,
  that every live socket is the one referred to and that the one armed timeout is the handle's
  (`Orderly`).  The properties under `early` are not inductive without `Orderly`: that `handleClose` of
  any socket clears `ws` is harmless only because there is no other.  For the link, one theorem for
  each property of `device_link`, and the types.  Every step of the link except a crash is a step of the
  client or leaves it alone (`ClientMoves`), so `IInv` carries over.  On top come: boots wait only on
  sockets that are open (`BootsOK`); a socket that opens finds no acceptance of an earlier one
  (`Fresh`); only a busy client has a socket that is not closing (`Idle`); and after a stop nothing is
  armed, started or in flight that could undo it (`Final`).
* `MessageProofs`.  `NothingIsLost`; `OutboxDeliversInOrder`, that the outbox implements
  `OrderedDelivery`, because what precedes an entry of a drain's list is in it too or has reached the CSMS
  (`TodoFollows`); `OutboxDeliversOnce`, because a drain alone has what it deletes.  `AnswersFirst`, for the
  CALLs of the CSMS: the invariant speaks of one CALL at a time (`CallInv`): not answered, it has left
  no trace and nothing queued; answered, its answer precedes every frame that it entails; lost, its
  link is gone.
* `PanelProofs`.  `NeverCollide` and `ShownStored`.  As long as no requests meet on a panel, a request works
  on the object in the registry and has saved what it told (`Undisturbed`); as long as a test and a
  session are not begun at once and the test's check has passed over no hidden session, who asks keeps
  the other out from then on (`Apart`).
* `CommandProofs`.  One invariant over `RemoteCommands` with its `Reservations`, `CommandInv`, and four
  theorems.  A handler is where its operation can be, with what it holds there (`Shaped`).
  `StartsExclusive`: the connector of a start is in `pendingStarts` and has no other (`StartsAlone`).
  `NothingForgotten`: a stop that lies ahead finds the transaction it was accepted for, and no two stops
  have the same (`StopsKnown`).  `LoopsAreOwned`: the count of loops, the handle and the simulation go
  together but for what the one handler that is starting or stopping the loop still owes (`LoopsTied`).
  `ExpiryOwned`: one timeout is armed exactly when the handle is live, and one handler at a time is
  between two writes of a reservation (`ExpiryKept`).
* `MeterProofs`.  `MeterTrue`: while no stop meets another handler, every transaction of a register that
  is still counted is covered (`Covered`): its last reading is no more than what its side's next one will
  begin with, be that in the records, in the row, in the memory or still in a handler's hand.
  `EnergyIsTrue`: the energy that the loop of `energyWhSinceStart` sums up, period by period, is what the
  offered rates add up to second by second, for profiles with any number of periods, unsorted, with or
  without limits, with numbers of either sign, stored and cleared at any time, unless two periods begin
  before the transaction.  The library's induction theorems cannot be used (they
  take an operator), so `Induction` is derived from the least element of a set of numbers
  (`LeastNumber`, from the well-foundedness of `<`), and applied to the set of the numbers that have the
  property: to the turns of the loop (`LoopCovers`, `LoopAdds`), and to the seconds (`EnergyIsOffered`).  The
  sort is an order by rank; `PeriodsAreSorted` shows the ranks distinct and complete.
* `StationProofs`, for the other parts.  `UpgradeNotForgotten` (an inductive form of the property that
  says which handler may rely on the stored start) and `UpgradesCompleteOnce` (the upgrades that may still
  complete and the version together never exceed the upgrades begun); `FirmwareStatusTrue` (there is one
  run or one timer, not both); `HeartbeatAsStored` (one writer, and what each half-written state owes
  the row or the timer); `LoopServes` (what is armed and what the row says agree unless a handler under
  way is about to make them); `ListIsWhole` (what the one writer has carried out so far is what its
  update says, over what the updates before it made, and a higher version than that of one cut off);
  `ClientsHeld` and `RowAndEntry` (one handler makes an entry at a time; what has a connect ahead is held or
  a survivor; row and entry agree but for what the handlers under way still owe); `InstancesWhole` (a seed adds rows before it is done, and
  what an instance is made from is the catalogue of that moment; every default of the catalogue passes its own
  validation; the settings' pages, cut where numbers are free, are the seed's);
  `DoneShown` (what a press did and the page has not shown yet is in a load that its handler still
  awaits, unless it missed it, and each page's buttons reload or show all that they change of it).

What is assumed.  Most named assumptions say that a bound is a number and that a name that stands for
nothing is none of the names.  Those that say more: `DefaultAssumption` (the default heartbeat fits
a timer), `SownAssumption` (the rows a seed writes are rows of the catalogue), `OneOperator` for the
two theorems above, and `ProfileAssumption`: finitely many profile ids, whole numbers for levels, starts
and limits, and a rate that is not negative.  What a theorem excepts is in its
property, as a history variable of section 3, and never in an assumption.

Only model-checked: the five liveness properties, `AttemptSettles`, `HandshakeWindowCloses`,
`FinishingSettles`, `LostAttemptIsClosed` and `LostLinkIsRetried`.  Liveness under fairness is beyond
the prover.  Every other property that a passing run checks is a theorem.

## 7. Disagreements between the code and what it says

Seven, each shown by a violation run and described under "findings" in `PROJECT.json`:

* a stop that wipes an adopted transaction without closing it (`stop_races_start`);
* `connectEv` overwriting a charging connector from an old snapshot (`stale_connect`);
* a stale `preparingSince` after a fault (`stale_window`);
* a remote session adopted on an unplugged connector (`unplug_races_remote`);
* a reconnect that a stop does not cancel (`connect_in_backoff`);
* a reservation redeemed by a start whose Authorize is refused, which leaves the connector Reserved
  with nothing to free it (`reserved_forever`);
* a remotely started transaction, stopped from a screen, whose bill includes earlier local sessions
  (`bills_earlier_sessions`).

Observed while modelling, without a run of their own.

* A restart between the adoption of a transaction and its promotion leaves a row Preparing,
  pending, with a transaction id.  `getOrCreateEntry` keeps it, the expiry excludes a complete
  handshake, and the claim excludes a pending attempt, so it stays until somebody stops it.
* `adoptRemoteSession` writes the maximum of its snapshot's `transactionCounter` and its id
  unconditionally, so the counter can go back when a promotion adopts a larger id meanwhile
  (connector-sessions.ts:796, against schema.prisma:482).
* The second of two periods that begin before the transaction (negative `startPeriod`s, which nothing
  refuses, charging-profile.ts:27-30) is counted from its start: `energyWhSinceStart` adds energy for the
  time before second 0 (remote-commands.ts:190-195).  `EnergyAddsUp` excepts them.
* After a restart no timer is armed for a stored reservation.  Two reservations of one connector
  can be stored when their ReserveNow cross.
* A Reset whose link is lost while its transactions are being stopped never reconnects.
* A Reset's `setTimeout` (remote-commands.ts:535), and the backoff that a `connect()` in it orphans
  (client.ts:184), survive `dispose()`: after a PATCH of the URL or a DELETE the old client can connect
  again, and nothing holds it.  `ClientsAreHeld` excepts these clients (`survivors`).
* A status write is not awaited, and the bootAccepted listener does not test `manuallyStopped`
  (runtime.ts:156-162): an answer or a write that comes after the disposal shows CONNECTED for an instance
  without an entry, until the next start or stop (`lateStatus`).
* A Full local list cut off between its clearing (local-list.ts:97) and its version (107) leaves part of
  its entries under the old version, and Differentials build on them until the next Full one.
* A PATCH that fails with 409 (route.ts:121), or for an invalid parameter, after it disposed of the
  entry leaves CONNECTED shown over a closed socket, which 77-79 wants to avoid.
* A charging profile set during a transaction applies to its past, so a meter reading may fall
  (remote-commands.ts:178-180).
* Numbers: a boot's interval above 2147483 s overflows the heartbeat's timer to one millisecond
  (session.ts:237); so does a firmware retrieve date more than 2^31-1 ms ahead (firmware.ts:77).
* Stopping an output test that is not running tells the CSMS Available under a charging session;
  only starts are guarded (hardware-test-state.ts:436).  Plugging in while a test runs tells the CSMS
  Preparing over the test's Charging (connector-sessions.ts:605-614); unplugging (659), clearing a fault
  (583), an expiry and ChangeAvailability (remote-commands.ts:628) do likewise.  Clearing a fault writes
  Available over a session, too (577), which the test's guard then does not see.  A settings PATCH with an unknown
  `selectedConnectorId` changes `outputMode` in memory and saves nothing (403-409).
* An instance created before or during a seed that adds parameters lacks their rows, and its
  settings save and factory restore fail from then on.  A settings save writes all values loaded
  when the page opened, the firmware version included.  A ChangeConfiguration whose callback
  throws is stored and answered InternalError.  The seed's "page 3" of the last tab has no gap
  before it and is shown on page 2.
* Screens: when the answer to a press is lost, or tells of a failure after the server acted, Home
  (page.tsx:92-185), Lock (67-81) and the pages like them clear the flag without a load, and the twin and
  the dashboard do when the answer is lost (useTwinData.ts:80-90, src/src/app/page.tsx:59-62): the button
  can be pressed over the old state until the next poll.  The dashboard's `load` clears the error its action has just set (src/src/app/page.tsx:30,
  61, 74), and the polls of the Lock and Device pages clear a refusal within two seconds; the
  dashboard's bulk buttons act on the last loaded list, so an instance deleted elsewhere may be
  named until the next poll; a page with one pending slot enables the first plug's button again
  when a second plug's is pressed; an answer that comes late puts an older state on the screen until
  the next poll; Home never loads its header's status again; the Maintenance page polls, and
  disables Upgrade, while any connector is Unavailable for whatever reason.

## 8. What is not covered

* Layout and drawing of the screens, the three-dimensional scene, prompts, form fields, messages.
* Costs, event log, session history as shown, serialisation and texts of frames.
* The simulated readings of the diagnostics boards, computed when read.
* Routes that check a body and call one handler, beyond what the handlers' modules have.
* More than one connector or instance at a time: nothing in the code joins two connectors but the
  shared link, the outbox and the loops over connectors, which run one after the other.
* Database statements that fail, in `ConnectorSession` and `RemoteCommands`.

`PROJECT.json` gives the status of each component and what it leaves out.

## 9. Running

    tlc -workers 2 -config station.cfg MCStation
    tlapm StationProofs.tla

| Configuration | Module |
|---|---|
| `connector_*`, `stop_races_start`, `stale_*`, `unplug_races_remote` | `MCConnectorSession` |
| `client_calls`, `connect_in_backoff` | `MCOcppClient` |
| `device_link` | `MCDeviceLink` |
| `station` | `MCStation` |
| `reserved_forever` | `RemoteCommands` |
| `bills_earlier_sessions` | `MeterRegister` |
