# Verification of the Woow ESPHome Modbus Scanner

TLA+ models of the scanner's firmware and of its Home Assistant integration, the TLC
runs that check them on small instances, and the TLAPS proofs of what holds for every
instance.

A Scan asks a range of Modbus slave addresses, one Probe each, whether a device answers.
Home Assistant (HA) drives it over the ESPHome API; the firmware (the Gateway) owns one
or more RS-485 Buses, sends the probes through the same hub that normal polling uses,
and may pause chosen pollers for the time of a Scan (the Scan Lease).

## Inventory

| Component | State it keeps | Operations | Interacts by |
|---|---|---|---|
| Firmware Bus and Gateway (`firmware/components/modbus_scanner`) | Scan Lease (scan id, pollers, active, times, end reason), probe in flight, hub's reply wait | `probe`, `release`, `loop`, hub callbacks | queued frames and callbacks of the hub; stop and start of pollers; text sensors read by HA |
| Scan coordinator (`modbus_scan/coordinator.py`) | `_scans`, `_tasks`, `_active`, `_terminal_order`, `_shutting_down` | `start`, `_run` (`emit`, `progress`, endings), `cancel`, `wait`, `async_shutdown`, `check_gateway`, queries | calls the provider and is called back by it; hands records to the history; tasks of the event loop |
| Bridge v2 session (`modbus_scan/bridge_v2/provider.py`) | probe future, lease as last reported, locks and Probe Slots per Gateway, health | `run_scan`, `check_gateway`, `on_state`, `on_stop`, `_release`, `_disconnect` | actions of the ESPHome API; sensor states that keep the last value only |
| Limits and requests (`limits.py`, `models.py`) | none | `validate`, `validate_alongside`, budgets | called by the coordinator |
| Poller selection (`pollers.py`, `poller_selection.py`) | saved choice per Gateway and Bus | `revalidate`, `save_choice`, `for_gateway` | options of the config entry |
| Probe slot modes (`probe_slot_modes.py`) | mode per Gateway | `remember`, `get` | read by the bridge before it connects |
| Scan history (`history.py`) | `records`, `pending` | `started`, `remember`, `async_load`, `async_flush` | the coordinator; HA's storage |
| Lifecycle and services (`__init__.py`, `services.py`) | owner, generation, coordinator | set-up, unload, remove, handlers | HA's config entries and stop event |
| Device profiles (`device_profile_store.py`, `device_profile.py`) | profiles | import, delete | services; running Scans |
| Legacy guanjie firmware (`firmware/guanjie-scanner`) | transaction, pending writes, values and their age, probe phase, fault, stored address | `loop`, hub callbacks, `scanner_probe`, address and function requests, WiFi reset | one client of the Modbus hub; sensors read by HA |
| Legacy bridge v1 (`modbus_scan/legacy_v1/`) | session per Gateway, recovery status and baseline | `run_scan`, `_recover`, `verify_recovery`, `check_gateway` | the legacy firmware's status and probe actions |
| Config flow, Repairs, adapters, mock provider, panel, code generation | forms, texts, test data | | |

What is hard in it, and where:

- **Concurrency in the firmware.** Everything runs in one loop, but probes, releases,
  hub callbacks, poller frames and the clock interleave freely, and several API clients
  may probe one Bus.
- **Recovery without a driver.** HA can vanish at any moment; the Gateway alone must
  resume normal polling, within limits that survive the wrap of a 32-bit clock.
- **Concurrency in HA.** Python runs to the next `await`, so the coordinator's hazards
  are tasks that end, are cancelled, or are never started around those points, and
  shutdowns that overlap.
- **Messages as states.** The sensors that carry results and lease messages keep their
  last value; a client sees the latest, not each one.
- **Failure half-way.** The hub refuses a frame after the lease was decided, HA refuses
  a task after the slot was reserved, a provider raises at an address that already has
  its outcome, a record is not accepted by the history.

The properties each component needs: the Bus pauses exactly what its lease says, answers
each probe once and always recovers; the coordinator keeps Scans on separate Buses,
gives each Scan one final outcome that history agrees with, leaks no slot, and shuts
down completely; the session never takes foreign or stale messages for its own and
always tries to release; limits keep a Scan's own gaps below the idle time; the history
reports as interrupted only what was; the lifecycle never tears down a newer generation.
`PROJECT.json` lists the hazards, each at its line.

## Modules

### ScannerBus: one Bus of the firmware

Models class `Bus` of `scanner_core.h` and the `Gateway` handlers that route to it.
Variables and members: `lease` is `lease_scan_`, `lease_pollers_`, `lease_active_` and
`ended_reason_`; `started` and `touched` are the two lease times; `request` is
`request_` while `in_flight_`, else `NoRequest`; `sent` is `sent_`; `leaseMsg` is the
state of the Lease text sensor. The hub (`waiting`, `wire`, `sendWait`), the pollers
(`paused`) and the clock are injected into the class and are the external part.
`owed`, `leaseAge`, `idleAge` and `sinceLoop` are history: they count probe calls
against results, and real time against the wrapping clock.

| Action | Code |
|---|---|
| `ProbeRefused` | `Gateway::probe` when `validate_` refuses or the Bus is busy |
| `ProbeStarted` | `Bus::start`: `lease_for_`, then `queue_request`, accepted or refused |
| `Release` | `Bus::release` |
| `Loop` | `Bus::loop` |
| `SendProbe`, `ProbeDone`, `ProbeNotSent` | the hub and `on_sent`, `on_response`, `on_exception`, `on_no_response`, `on_not_sent` |
| `PollerFrame`, `SendPoller`, `PollerDone`, `Tick` | hub, pollers, `millis()` (external) |

Frames waiting in the hub are a set, so every order in which a hub could serve them is
covered. A poller may have several frames waiting, but only whether it has any matters.
Members whose value is never read again (times of an ended lease, the request of a
finished probe) are cleared in the model instead of kept.

`LeaseContract` is the promise of ADR 0007 in two actions: normal polling is paused for
at most one Scan, for exactly what it chose, and resumed entirely. `ScannerBus`
implements it with the lease's scan id as the holder. `LeaseHistory` adds the memory of
which Scans' leases ended, which the Bus does not have, to state a rule of the contract.

### Coordinator: Scans in Home Assistant

Models class `ModbusScanCoordinator`. What happens between two awaits is one action.
`scan` holds each `_ScanState`, `scans` is `_scans`, `active` `_active`, `tasks`
`_tasks`, `terminal` `_terminal_order`; `caller` and `snapshot` are the progress and the
`active_scans` of each call of `async_shutdown`. External: `task` and `cancelled` are
the event loop's view of the tasks, `known` the Buses a Gateway reported. `pending` and
`recorded` are the history in memory; `remember` may refuse a record (invalid, or too
large), which leaves the Scan's start pending and is remembered in `refused` (auxiliary).

| Action | Code |
|---|---|
| `Start` | `start` with `_target_bus`, `_running_on` and the rollback when HA refuses the task |
| `TaskBegins`, `TaskSkipped` | the first step of `_run`, or a cancellation before it |
| `Emit`, `BusFound`, `Cancel` | `emit`, the Bus of `progress`, `cancel` |
| `ProviderReturns`, `ProviderFails`, `TaskCancelled` | each branch of `_run` with its `finally` block, `_record_gateway_error`, `_record_terminal` and `ScanHistory.remember` |
| `ShutdownBegins`, `GraceOver`, `ShutdownEnds` | `async_shutdown` between its awaits |
| `BusesLearned`, `HassCancels` | a connection that read the Gateway's info; HA's own task cancellation during its stop |

The provider is external and free: it emits addresses in any order, fails at any
address, and may stop at any time. A fault at an address is modelled at every address of
the range, which covers the error's own address, the current one and the first.

`SlotContract` is the coordinator's promise about concurrency: running Scans hold
disjoint Buses, a Scan without a known Bus holding all of its Gateway's.

### BridgeSession: Scans of one Gateway, from both ends

Models `V2GatewayProvider` (`run_scan`, `_run` with `on_state`, `on_lease`, `on_stop` and
its finally block, `_release`, `_disconnect`, the lock of `check_gateway`) together with
what the Bus does with its calls. `sess[s]` holds the locals of the Scan's `_run`
(`pending`, `lease` as `status`, `reason` and `requested`, `lease_answer` as `answer`,
`disconnected`, the address and the attempt) and in `step` the await it is at: `asking`
for the Probe Slot, `probing`, `pausing` between addresses, `freeing` (asking for the
slot again), `releasing`, `closing`. A Probe Slot is held by the Scan whose step is
`probing` or `releasing`. `Last` and `Retries` are per Scan, as in its request.
`lease`, `flight` and `sensor` are the Gateway's; `link`, `dirty` and `inbox` are the network.

| Action | Code |
|---|---|
| `Admit`, `Connect` | the coordinator's admission; `run_scan` and `_run` up to the attempt loop, or their failure |
| `SendProbe`, `ProbeResumes`, `WaitExpires`, `NextAddress` | the attempt loop between its awaits |
| `Receive`, `ConnectionLost` | `on_state` and `on_lease`, `on_stop` |
| `SendRelease`, `ReleaseAnswered`, `ReleaseExpires`, `Disconnect` | the finally block, `_release`, `_disconnect` |
| `Cancel`, `TaskCancelled`, `Crash` | `cancelled()`, `CancelledError` at any await, the end of HA's process |
| `CheckBegins`, `CheckEnds` | `check_gateway` with and without its lock |
| `ProbeBusy`, `ProbeArrives`, `ProbeEnds`, `ReleaseArrives`, `LeaseExpires` | `Gateway::probe`, `Bus::start`, `finish_`, `release`, `loop` |
| `Flush` | the API server sends the state that a sensor has at that moment (external) |

A sensor is a state, not a queue: `Flush` sends its present value, so of two messages
published before it the first is lost. That is what ADR 0010 says of the ESPHome API, and
what both the shared Probe Slot and the per-Bus sensors are for.

The Bus here is the one of `ScannerBus` without its clock and its hub: the idle time and
the hard limit may pass whenever the code lets them end a lease. Every outcome with a
reply is one. A call may reach the Gateway after its Scan was closed by force, but not
after a later Scan of that Bus connected: TCP gives up a dead connection long before that.

### Guanjie: the legacy firmware

Models `protocol.h` (record `p`), `scanner.h` (record `sc`) and the component around them
in `guanjie.cpp`. `tx` is `transaction` while `in_flight`, with `current` for an epoch
that is still the protocol's: the number itself is compared and never read otherwise.
`wait` is the time left until `not_before_`, `age` the time since a value was observed
(`Stale` when invalid or past 15 s), `from` (history) where the value was read. Time is
counted in quiet intervals. The hub (`frames`, `late`) is external; its callbacks do not
name the frame they end, and a late reply of the same slave and function is taken for the
reply of the frame on the wire, which is what the quiet intervals are there for.

`pending` and `flash` are the stored address as saved and as flushed. Saving and flushing
fail as the code allows: a `save` that fails changes nothing, a `sync` that fails may have
written all the same, the rollback of `request_address` may fail in either step without
anyone looking, and at boot a load that fails gives address 1. `unstored` (auxiliary)
says that a load or a rollback failed since the address in force was last stored or loaded.
A device with nothing stored yet counts as one with address 1 stored.

| Action | Code |
|---|---|
| `Loop`, with `PollOrWrite` or `Scan` | `loop()`: a failed WiFi reset, the probe with its watchdog, `next()` and its frame |
| `LoopReboots`, `Reboot`, each by `Restart` | a WiFi reset that worked, with its flush; power; `setup` |
| `HubReplies`, `HubFails` | `on_response`, `on_error`, `on_no_response`, `on_not_sent` |
| `ScannerProbe`, `RequestAddress`, `RequestWifiReset`, `Command` | the handlers of the same names; `Command` is `request_function` and `control` |
| `Flush`, `Tick` | preferences written by some other save; time (external) |

### LegacySession: HA's session over the legacy bridge

Models `LegacyGatewayProvider` (`run_scan`, `_run` with callbacks and finally block,
`_recover`, `check_gateway`) and `verify_recovery`, together with the part of the firmware
they read. A firmware transaction is one step here; `Guanjie` has its parts. `phase` is
the await the session is at, `base` the baseline of the verification, `seq` and `ms` the
firmware's poll counter and clock, which wrap while they are compared.

| Action | Code |
|---|---|
| `RunScan`, `Locked`, `Connected`, `SnapshotArrives` | `run_scan` up to its loop |
| `NextProbe`, `FwProbeCalled`, `FwProbeEnds`, `SessionFails`, `TaskCancelled`, `CancelScan` | the attempt loop, its answers and its failures |
| `Baseline`, `BaselineArrives`, `SleepEnds`, `VerifyArrives`, `VerifyFails` | `_recover` and `verify_recovery` |
| `Disconnect`, `ConnectionLost`, `CheckBegins`, `CheckLocked`, `CheckEnds` | the end of the session; `check_gateway` |
| `FwPolls`, `FwPollFails`, `FwAddressChanges`, `FwFaults`, `FwRestarts` | the firmware as the snapshot shows it |

### EntryLifecycle: the config entry, its calls and its stores

Models `_LifecycleState` and the set-up, unload and stop listener of `__init__.py`, the
handlers of `services.py` that change state, `ScanHistory` and the profile store. A lock
is its queue; what happens between two awaits is one action. A Scan is running or ended,
as `Coordinator` says.

| Action | Code |
|---|---|
| `SetupCalled`, `SetupBegins`, `SetupLoads`, `SetupFails`, `SetupCompletes` | `async_setup_entry` |
| `UnloadCalled`, `UnloadBegins`, `UnloadEnds`, `StopCalled`, `StopEnds` | `async_unload_entry`, the stop listener |
| `CallArrives`, `CallAuthorized`, `ScanStarts`, `ScanRefused`, `WriteNears`, `ProfileChanges`, `ProfileKept`, `ProfileSaved` | `start_scan`, import and delete of a profile, between their awaits |
| `ScanEnds`, `DelayedSave` | `ScanHistory.remember`, the delayed save |
| `Exit`, `Crash` | a clean stop with its flush; the end of the process |

### Admission: what a Scan may do

Models what HA decides of a Scan from what it last read of a Gateway: `ScanRequest` and
`ProbeLimits` with `validate_alongside`, the Device Profile's parsing, defaults and
limits, `_read_info` and what it derives, `TargetBus`, the choice of pollers with its
pruning, the Probe Slot mode with its delayed save, the results that are accepted, and
the firmware's own validation of a probe, with the contract's own numbers (an IdleMs of
5000, 65536 registers). The Gateway may be flashed with another configuration at any time.

| Action | Code |
|---|---|
| `Start` | the handler, `coordinator.start` with its limits |
| `Connect`, `Probe`, `End` | `_run` up to its loop, a probe and its result, the end of the session |
| `CheckBegins`, `CheckReads`, `CheckEnds` | `check_gateway` |
| `SaveChoice`, `SaveMode` | `save_choice`; the delayed save of `ProbeSlotModes` |
| `Crash`, `Reload`, `Flash` | HA's process and the entry's reload; the Gateway's firmware (external) |

Abstractions: options of the entry are durable at once, types, texts and a profile's
fields are left out, and one probe stands for all of a Scan's.

How the modules fit: `BridgeSession` uses the Bus that `ScannerBus` details, `Coordinator`
leaves the provider free where `BridgeSession` and `LegacySession` fix it,
`EntryLifecycle` reduces a coordinator to running Scans, and `Admission` decides what is
an input everywhere else. `LegacySession` reads the firmware `Guanjie` details.

## Runs

| Run | Shows |
|---|---|
| `scanner_bus` | pollers paused are the lease's and their frames cleared; each probe has one frame, the hub's wait for it and one result; leases end within their limits across clock wraps; the Lease sensor is true; a lease with a probe in flight stays; `LeaseContract` is implemented; every lease and probe ends |
| `coordinator` | records, slots and the history in memory agree, refused records included (`RecordsAgree`; what a restart makes of the history is `entry` and `history_interrupted`); nothing runs or starts after a shutdown returned; an outcome is final; `SlotContract` is implemented; every Scan and every shutdown ends |
| `bridge_shared` | two Scans on two Buses that share their sensors: no batch loses an awaited result, a cancelled Scan probes no more |
| `bridge_takeover` | one Scan after another on one Bus, with retries and faults: outcomes are the Scan's own and checks are alone (`ScansUndisturbed`), no lease, slot or call is left after the return, an early end of the lease is reported, every Scan returns |
| `guanjie` | one frame at a time and each callback for its sender; every fresh value from the register and slave it is said to be from; every write at most once, confirmed only when all were sent; after a failed address change that was undone, the stored address is the one in force; every probe answered |
| `legacy` | "verified" is this Scan's own and true; every Scan returns |
| `entry` | no Scan runs outside the owning generation; a call acts on its own generation; no unload tears down a later generation; the history is true after crashes and restarts |
| `admission` | a Scan pauses what the user chose, whatever was flashed; Scans that share a slot keep their leases; what was accepted is not refused later |
| `lease_restarts` (violation) | difference 1 below |
| `bridge_superseded` (violation) | difference 2 |
| `guanjie_fault` (violation) | difference 3 |
| `history_interrupted` (violation) | difference 4 |

### Bounds and why they are enough

- `scanner_bus`: two Scans (takeover needs two), a poller with an address and one without
  (the two cases of the frame clearing), a slave that shares the first poller's address,
  two request ids, an idle time of 2, a hard limit of 3, a clock that wraps at 6, a loop
  up to 2 ticks late: leases begin at every phase of the clock and live across its wrap.
  `LoopGap` is the one bound on time; without some bound a lease could be overdue for
  ever. The measured ages stop at `AgeBound`, past every limit.
- `coordinator`: two Scans on one Gateway with two Buses, room for one remembered Scan,
  two shutdown callers, one address. Two Scans meet on one Bus, run side by side, and one
  makes the other forgotten; an outcome concerns its own address only.
- `bridge_takeover`: one Home Assistant. Scan A has two addresses, so a late result meets the next address;
  Scan B one address with a retry, so it meets the next attempt. `MaxFaults` bounds lost
  connections, forced closings, cancelled tasks and crashes together: two, so one may hit
  each Scan or one Scan twice. `MaxTransit` bounds the states on their way: more only
  delay, because what is sent is chosen at `Flush` and arrives in order.
- `bridge_shared`, `bridge_superseded`: one address each. The slot and the sensors are
  contended from the first probe on.
- `guanjie`: two slaves (an address change), three registers of which two are core, a
  command of one write and one of two, values fresh for 1 unit, a watchdog of 4: a value
  can go stale in the middle of a command, and the watchdog outlasts a drain and a reply.
- `legacy`: two addresses with one retry, two core registers, a verification of 2 units on
  a clock that wraps at 6 and a counter that wraps at 4, both standing just before it.
- `entry`: two overlapping tasks, two calls, two Scans, room for one record, three
  generations, two restarts. Tasks, calls and Scans are interchangeable, so symmetry is
  sound for the safety properties and the action properties checked.
- `admission`: two Buses, four configurations (own sensors, shared sensors with the table
  renumbered, one Bus, no scanner), calls at the edges of each limit, one reflash and one
  restart: old and new configuration, and what HA kept across them, are all that a
  decision can mix.

The `bridge_` and `entry` runs allow the system to stop: nothing is left to do once every
Scan has returned, or the calls and restarts are used up.

### Fairness

- Bus: `Tick` and `Loop` are weakly fair, since ESPHome's main loop runs the component for
  ever. The hub ends every frame on its wire, and serves a queued frame that keeps finding
  the wire free: the probe's sending is strongly fair, as in a queue served in turn.
- Coordinator: the event loop runs ready tasks, `asyncio.timeout` ends every provider
  (`ProviderFails`), the timeout of `asyncio.wait` ends the grace period.
- Session: the event loop runs what is ready, `wait_for` and `asyncio.timeout` end every
  wait, a check ends, the Gateway handles the calls it receives. `asyncio.Lock` wakes its
  waiters in turn, so taking a Probe Slot is strongly fair. Messages, ends of probes and
  lease expiry need none.
- Legacy firmware: `Tick` and `Loop` only; the hub may hang for ever, and the watchdog
  must answer the probe.
- Legacy session: the event loop, the limits of the waits and of the verification, a
  check's end and time. The firmware owes nothing.
- `EntryLifecycle` and `Admission` have safety properties only; what must end there ends
  in `Coordinator`.

## Proofs

Eight modules hold theorems, one for each component and `DataLemmas`. Each component has one
inductive invariant, or two where the second rests on the first, and one lemma per action.
Most theorems need the module's `ASSUME`s only; where one has a hypothesis more
(`ResultsHold`, `HistoryHolds`, and those about the end of a lease) it is named below, with
the reason and with what happens without it.

### The Bus

`ScannerBusProofs` proves every safety and step property of the `scanner_bus` run, and the
refinement of `LeaseContract`, for all sets of Scans, pollers, addresses and ids and all
times with `IdleMs <= HardLimitMs` and `ClockMod > HardLimitMs + LoopGap`. Those two
assumptions are what the code relies on: the clock must not wrap twice within a lease,
and the loop must run in time.

The properties are not inductive one by one. `Inv` in `ScannerBus` joins four groups,
each inductive with `TypeOK`:

- `ProbeInv`: the probe's frame, request, result and reply wait move together. The
  added conjunct is `sent <=> wire = Scanner`, without which the wait restored by
  `finish_` could belong to another frame.
- `PauseInv`: the paused pollers are the lease's, their frames are cleared, and an
  active lease has a scan id and at least one poller (needed for the refinement).
- `TimeInv`: the ages equal what the wrapping subtraction measures, and are at most the
  limit plus the time since the loop last ran; `LeaseBounded` follows.
- `LeaseMsgTrue` is inductive as it stands.

`TypeStep`, `ProbeStep`, `PauseStep`, `TimeStep` and `MsgStep` are the five step lemmas;
each has one step per action. `Invariant` joins them, and the theorems follow.

`BusIsTheSessions` joins the firmware to the session. `BridgeSession` has a Gateway of its
own, without clock, hub and pollers; the theorem says that whatever a Bus of `ScannerBus`
does to its lease and its Lease sensor is a step that Gateway may take (`SessionNext`, in
the words of `BridgeSession` by `INSTANCE`) or one it does not see. So nothing that
the firmware's lease does is left out of what is proved and checked of the session. The
theorem takes the selection of each probe as it comes; in `BridgeSession` a Scan selects
once, as `_run` does. Results and their sensor are not part of it.

### The legacy firmware

`GuanjieProofs` proves every safety property of the `guanjie` run (`TypeOK`, `OneMaster`,
`ValuesTrue`, `CommandsTrue`) for all slaves, registers, commands and times. The
assumptions: addresses are numbers and 1 is one, there is at least one core register, times
are positive, and a command writes at least one register of the device.

The argument goes in two layers. The first is about `protocol.h` alone: `Sound(q)` relates
the parts of its record (a transaction of an older epoch means that no value and no write
is left; a readback means that its write was sent; maintenance means that nothing is
trusted), and one lemma per method shows what it keeps. The second is `Inv`, with one
lemma per action. To `OneMaster` and the properties it adds:

- `Drained`: a probe past its drain finds no transaction in flight, so its frame goes to
  an empty hub.
- `LateInv`: while a late reply is under way the hub is empty and everyone who could send
  still waits; this is where the quiet interval matters.
- `MatchInv`: the frame in the hub asks what its sender waits for.
- `FaultInv`: after the watchdog fired, no probe is past its cooldown and none counts as
  answered. `OneMaster` and `LateInv` are about the time before.
- `ResultInv`: a confirmed command has ended.

The `AddressStored` half of `CommandsTrue` is inductive as it stands. It has to say
`~unstored`: when the rollback fails too, or the load at boot does, the code keeps an
address that is not the stored one (remarks below). `StoresFacts` is what `save` and `sync`
leave behind, whichever of them fails.

### The coordinator

`CoordinatorProofs` proves every property of the `coordinator` run but liveness (`TypeOK`,
`RecordsAgree`, `QuietAfterShutdown`, `OutcomeFinal`) and the refinement of `SlotContract`,
for any number of Scans, Gateways, Buses, addresses and callers. The assumptions: the
history keeps at least one Scan, addresses are finite and not empty, and the values that
stand for "none" are different from the others.

Every step has one of four shapes (`StepShapes`): one Scan starts (`StartFacts`), running
Scans go on (`LiveStep`), some Scans end together (`EndStep`), or no Scan changes. A Scan
that ends in its own `finally` block and the ones `async_shutdown` finds unrun are the same
`EndStep`, so the argument about slots, counts, history and order is made once
(`EndKeepsRecords`). To the properties, `Inv` adds:

- `TasksMatch`: a Scan is in `_tasks` exactly while it runs, and a task that is scheduled
  or running is a running Scan's.
- `BusOfKey` and `KeysApart`: a Scan that named a Bus is on it, and keys of running Scans
  do not conflict. Disjoint Buses follow, though a Scan may find its Bus after it started.
- `TerminalEnded`: the order of ended Scans holds no running one, so nothing in use is
  forgotten.
- `SnapshotsComplete`: an `async_shutdown` under way has every running Scan in its
  snapshot, whatever the other call does.

`RecordsAgree` speaks of the history in memory: a pending start is that of a running Scan or
of one whose record was refused. That the latter is reported as interrupted by the next
start is difference 4; delayed saves and crashes are the business of `EntryLifecycle`.

### The config entry

`EntryProofs` proves every property of the `entry` run, for any number of tasks,
calls, Scans, generations and restarts. `TypeOK`, `NoOrphanScan`, `CallsStayHome` and
`StaleUnloadHarmless` need no assumption but `EntryAssumption`. To the properties, `Inv`
adds:

- `Owners`: the running coordinator is the owner's, and the services are registered for
  the owner or for nobody.
- `Lock`: a task past the lock holds it. While a set-up loads, nobody owns the entry;
  while an unload closes, its generation owns it, was told to shut down and lost its
  services, and the unload knew that generation when it was called.
- `Bound`: a call under way is bound to one generation, which owns the entry or was told
  to shut down. A call that slept through an unload therefore finds its own coordinator
  closed, never the next one open.
- `RunsForOwner`: a running Scan is the owner's, and while its coordinator was not closed
  the owner is bound.

`HistoryTrue` is about two histories, the one in memory and the one on disk, which a crash
or a failed write tears apart. `HInv` adds to `Inv`:

- `Tells`, of both: who is recorded is over, who is recorded as interrupted was lost (or his
  record did not fit), and nobody is both recorded and pending.
- `PendingTrue`: a Scan is pending in memory while it runs, and on disk no longer than until
  its end was saved. So what a load takes for an interruption is one.
- `StartsTrue`: a start that was saved is told of by the loaded history, and by the stored
  one, or the one in question is full.
- `LoadedFirst`: nothing runs, waits to be saved or is saved before the history was loaded,
  so an empty history never replaces a stored one.

`HistoryHolds` assumes that every record fits (`BigRecords = {}`), because one that does not
makes the property false (difference 4 below). `FittingTold` says without that assumption
what is left: only the Scans whose own records do not fit are told of wrongly.

### The bridge session

`BridgeProofs` proves, for any number of Scans, Buses, Home Assistants, addresses, retries
and faults, with no assumption but the two in `BridgeSession`: `TypeOK`, `OutcomesAreOwn`
and `ChecksAlone` (`ReportsHold`), `NothingHeldAfterReturn` and `NoProbeOnceCancelled`.
`ResultsDoNotCollide` needs one more, that the Scans of one sensor are of one Home Assistant
(`SensorsOwn`): two of them have different Probe Slots for the same sensor. `EarlyEndReported` and `ScansUndisturbed`
need that the Scans of one Bus are of one Home Assistant (`Solo`). `Inv` joins:

- `Sessions`: the locals of `_run` fit together (`Sound`, `Fits`); a result waits to be
  taken only for the probe that was called, and a wait is over once the connection is lost.
- `Wires` and `Sensors`: a call is its own connection's, and what a connection has to send
  was published.
- `Reports`: a Scan reported only addresses it has left behind (`Ahead`), each with a
  result of its own probe (`Own`). Without `Ahead` an address could be reported twice.
- `OneHolder`: a Probe Slot has one holder. Two Scans that wait for results of one sensor
  would share a slot, which is why their results do not replace each other.
- `ReleaseOwed`: while nothing was lost, a Scan that holds a lease, or has a probe under way
  that may still begin one, knows that it owes the release, and its release is the last of
  its calls. Nothing is held once that arrived.

There is one lemma per action. `CleanInv`, `GoesOnInv`, `GoneInv` and `Published` hold what
actions have in common: a Scan that starts its cleanup, one that goes on, Scans that return
or die, and the sensors a publication changes.

The second half of the module is about the end of a lease as HA hears of it: the Bus
publishes it on a sensor, a batch carries the sensor's last state, the Scan takes batches
one by one, and takes the answer of its release from the same sensor. `Heard` relates all
of these to what happened (`leaseEnd`), for every Scan that is connected:

- `KnownEnd`: while the Bus remembers the Scan's lease, it agrees with how that ended.
- `TrueSensor` and `TrueBox`: no message on its way tells of an end that did not happen, or
  of none where there was one; after the message of an end none of a begin follows.
- `TrueLocals`: a reported end is the true one, and a release counts as answered only by a
  message that tells of the end, or where there was no lease to end.
- `LastCall`: the release is the Scan's last call, so no probe behind it begins a lease anew.
- `Alone` and `OneRuns`: what was called for other Scans of the Bus has arrived, and only
  one of them runs. `Unheard` is the start of it: nobody tells of a Scan before it connects.

`EndReasonHolds`, `UndisturbedHolds` and `EarlyEndHolds` follow. `Solo` is what the
coordinator of one Home Assistant guarantees by its Probe Slots; without it both properties
are false (run `bridge_superseded`, and the first remark below the list of differences).

### The legacy session

`LegacyProofs` proves the safety properties of the `legacy` run, `TypeOK` and
`RecoveryTrue`, for any core registers, limits, addresses, retries and widths of the
firmware's clock and counter. `LegacyAssumption` is what the code's numbers satisfy: the
verification gives up before the age it accepts, and twice that age is within the clock. To
the property, `Inv` adds `CallsNeedConn` and `Measured`: while a verification has its
baseline and its connection, the firmware's clock went on by no more than what the limit
lost, so it did not wrap, and every core register younger than that was read since the
baseline. `ProvesWhole` then shows that a snapshot `_verify_recovery` accepts proves it.

### Admission

`AdmissionProofs` proves every property of the `admission` run, for any Buses, pollers,
firmwares a Gateway may be flashed with, profiles, calls and payloads. The assumptions:
Buses and tables are finite, a call names a Bus or none, a table's rows are of its Buses,
and a payload has the four fields the session reads. To the properties, `Inv` adds:

- `ChoicesTrue` and `ScanChoices`: what the user unticked and every table kept since is
  unticked in the checklist, and only what was unticked is. They hold for the saved
  checklists and for those a running Scan took along, and bound `PausesAsChosen` from both
  sides.
- `SessionTrue`: a connected Scan pauses rows of the running firmware's table.
- `GapsTrue`: a Scan that was admitted to share keeps its lease through its own delay and
  one turn of every other such Scan. It is kept when Scans end because sums of turns only
  shrink, and when one starts because the start adds up all of them.
- `Places`: a Scan without a known Bus is the only one.

### Shared lemmas

`DataLemmas` holds what these modules need of the library's operators: the largest element
of a finite set of numbers, and the sum of a function over a finite set, with what one more
element adds, that a larger set has no smaller sum, and a bound. The library defines the sum
by folding; the lemmas relate it to sums that are built one element at a time.

### Only model-checked

Liveness (`EverythingEnds`, `EveryScanReturns`, `EveryProbeAnswered`), since the prover
has no reasoning about fairness and `ENABLED`. Out of the prover's reach in general:
induction over data and recursive operators.

## Where the code and its documents differ

1. An ended lease can restart. `lease_for_` compares with the last lease's scan id only;
   `contract.json` ("Once a lease for a scan_id has ended it never restarts") and ADR 0007
   say more. Run `lease_restarts`.
2. A takeover of the lease is not reported. `lease_for_` publishes the end of the old
   lease and the begin of the new one in one call on one sensor, the batch carries the
   second only, and the release of the old Scan is answered `none`. ADR 0007 says that HA
   reports such an early end, ADR 0010 that a batch can no longer merge a Bus's messages.
   Run `bridge_superseded`.
3. The legacy watchdog says "further reads blocked", but a WiFi reset that fails
   afterwards switches polling on again. Run `guanjie_fault`.
4. A Scan that ended with a record too large to keep is dropped from the history and left
   in `pending`; the next start reports it as interrupted. Run `history_interrupted`.

Seen while modelling, without a run of their own:

- With two Home Assistants on one Bus, an early end can be reported with the wrong reason:
  a Scan's lease ends as idle, restarts after a takeover (1.) and is released, and the
  message of the first end is all that its own Home Assistant got. `EndReasonTrue` is
  therefore checked with one Home Assistant.
- A probe the hub refuses begins, or takes over, a lease, because the lease is decided
  before the frame is queued; `contract.json` says a lease begins on an accepted probe.
- A Scan whose task is cancelled during its cleanup skips `report_lease(UNCONFIRMED)`, so
  its lease stays `active` in what HA shows; ADR 0007 promises `unconfirmed`.
- The delete handler takes its coordinator before it waits for the store's lock, so it may
  delete a profile that a Scan of the next generation uses (the Scan keeps its own copy).
  `CallsStayHome` is about the handler's own generation.
- When the flash fails twice, for a change of the legacy firmware's address and for its
  rollback, the refused address may be the stored one, or become it with the next flush;
  `request_address` looks at neither result of the rollback. When the load at boot fails,
  address 1 is used and the stored address stays. In both cases asking for the address in
  force returns early and stores nothing. `AddressStored` leaves these cases out.
- An import or a delete of a profile whose save fails is answered with an error, but the
  profiles in memory keep the change until the next load. No property is about it.
- A profile whose defaults leave `register` out is accepted without a look at the block
  that its first allowed register and its default count give, so a start with no fields of
  its own may be refused.
- A Scan's pruning covers the saved choices of all Buses, while it reports the removals of
  its own Bus only; those of the others are never reported.
- Scans admitted under the per-Bus mode just before a reflash to shared sensors take the
  shared slot without having been held against each other; `GapsFitLease` leaves them out.

## Not modelled

- Config flow, Repairs, adapters, the sidebar panel and the mock provider: forms, texts,
  presentation and test data, with no state that several steps could break.
- Code generation of the firmware: it runs at compile time.
- The handlers that only read, `async_remove_entry`, `without_gateways`, events and Repair
  issues, health fields and error codes, decoding of a profile's values.
- Several config entries: one is modelled. A set-up that finds the lock free takes it in a
  step of its own, which only adds interleavings.

## Plan

What is left, in order:

1. A composition of `EntryLifecycle` with `Coordinator`, in which a Scan of an unloading
   generation goes through its real endings.
2. An abstract reporter that `BridgeSession` implements, and its proof.
3. A profile deleted under a Scan of the next generation, once the code decides whether
   that is meant.
