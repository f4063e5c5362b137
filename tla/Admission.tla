------------------------------ MODULE Admission ------------------------------
(***************************************************************************)
(* What Home Assistant lets a Scan do to one Bridge v2 Gateway: the limits *)
(* a start_scan call must meet (its own, the Gateway's, a Device           *)
(* Profile's, and those of Scans that take turns with other Buses), and    *)
(* the Pausable Pollers it pauses (a checklist the user saved, held        *)
(* against the Gateway's table when the Scan connects).                    *)
(*                                                                         *)
(* Both rest on what HA last read of the Gateway, which may be flashed     *)
(* with another configuration at any time: HA keeps the checklists and     *)
(* the Probe Slot mode across restarts, and the rest until it restarts.    *)
(*                                                                         *)
(* How probes and leases run is BridgeSession; here a Scan sends one probe *)
(* that stands for all.  Types, wording and the range of the call's schema *)
(* (the same bounds again) are left out, and so are a profile's fields.    *)
(***************************************************************************)
EXTENDS Integers, FiniteSets, FiniteSetsExt, Sequences

CONSTANTS
  Buses,        \* names of Buses
  AnyBus,       \* no Bus chosen or known yet
  Unset,        \* an absent field
  Names,        \* names of text sensors
  Pollers,      \* entries of Pausable Poller tables
  Firmwares,    \* external: what the Gateway may be flashed with
  Documents,    \* Device Profile documents somebody imports
  Calls,        \* start_scan and test_address calls
  Payloads,     \* external: results a Gateway may publish
  NoInfo,       \* the Gateway's info was not read since HA started
  NoScan,       \* no Scan runs
  MaxFlashes,   \* bound: how often the Gateway is flashed
  MaxRestarts   \* bound: how often HA, or its config entry, starts again

ASSUME BusesAssumption == IsFiniteSet(Buses)

\* A poller's identity in a table; a Gateway's tables number their rows from 0.
ASSUME PollersAssumption == Pollers \subseteq [index : Nat, name : STRING, address : Nat]

\* "unique" are the names of exactly one text sensor that is not a shared one.
ASSUME FirmwaresAssumption ==
  \A f \in Firmwares :
    /\ DOMAIN f.tables \subseteq Buses
    /\ f.tables \in [DOMAIN f.tables -> SUBSET Pollers]
    /\ \A b \in DOMAIN f.tables : IsFiniteSet(f.tables[b])
    /\ f.sensors \in [DOMAIN f.tables -> [result : Names, lease : Names]]
    /\ f.unique \subseteq Names

\* A call names a Bus or none.
ASSUME CallsAssumption == \A call \in Calls : call.bus \in Buses \cup {AnyBus}

\* What the session reads of a result; an absent field is Unset.
ASSUME PayloadsAssumption ==
  \A p \in Payloads : DOMAIN p = {"outcome", "values", "exception", "latency"}

VARIABLES
  firmware,     \* external: what the Gateway runs
  info,         \* what HA last read of it
  perBus,       \* _per_bus: new Scans are admitted under PER_BUS_LIMITS
  mode,         \* ProbeSlotModes: the mode of the last info read was per-Bus
  stored,       \* what its Store holds on disk
  saved,        \* entry options: per Bus, which pollers a Scan pauses
  scans,        \* the running Scan of each Bus, and of a Bus not known yet
  checking,     \* where check_gateway is
  flashes, restarts,
  unticked,     \* history: per Bus, pollers that were last saved as not paused
  kept          \* history: those of them in every table HA read since

memory  == <<info, perBus, mode, unticked, kept>>
bounds  == <<flashes, restarts>>
vars == <<firmware, memory, stored, saved, scans, checking, bounds>>

Keys == Buses \cup {AnyBus}
Running == {k \in Keys : scans[k] # NoScan}
InPhase(k, phases) == k \in Running /\ scans[k].phase \in phases
------------------------------------------------------------------------------
(* Limits. *)

Fields == {"start", "end", "probe", "register", "count", "timeout", "retries", "delay",
           "pause"}

\* What is probed and how when nothing else says so: defaults of LIMITS.
GatewayDefaults ==
  [start |-> Unset, end |-> Unset, probe |-> 3, register |-> 0, count |-> 1,
   timeout |-> 1000, retries |-> 0, delay |-> 100, pause |-> TRUE]

AllRegisters == 0..65535
Timeouts == 100..2000

\* bridge_v2's LIMITS, from the contract's hard limits.
GatewayLimits == [slaves |-> 1..247, probes |-> {3, 4}, countMax |-> 4,
                  allowed |-> AllRegisters, timeouts |-> Timeouts, delayMax |-> 3000]
AttemptOverheadMs == 300
IdleMs == 5000

\* Device Profile limits: the contract's bounds and the profile's allowlist.
ProfileLimits(d) ==
  [GatewayLimits EXCEPT !.probes = {d.codes[i] : i \in DOMAIN d.codes}, !.delayMax = 5000,
     !.allowed = IF d.allowed = Unset THEN AllRegisters
                                      ELSE {d.allowed[i] : i \in DOMAIN d.allowed}]

Block(r) == r.register .. (r.register + r.count - 1)

\* Mutant: only the register a request starts at must be allowed.
BlockMayOverrun(limits, r) == r.register \in limits.allowed

BlockAllowed(limits, r) == Block(r) \subseteq limits.allowed

\* ProbeLimits.validate
Within(limits, r) ==
  /\ {r.start, r.end} \subseteq limits.slaves /\ r.start <= r.end
  /\ r.probe \in limits.probes
  /\ r.count <= limits.countMax
  /\ BlockAllowed(limits, r)
  /\ r.timeout \in limits.timeouts
  /\ r.delay <= limits.delayMax

\* What any provider may be asked for.
RequestTimeouts == 10..10000
RequestDelays == 0..5000

\* ScanRequest.validate
Valid(r) ==
  /\ {r.start, r.end} \subseteq 1..247 /\ r.start <= r.end
  /\ r.register \in AllRegisters /\ r.count \in 1..125
  /\ r.timeout \in RequestTimeouts /\ r.retries \in 0..5 /\ r.delay \in RequestDelays

Addresses(r) == r.end - r.start + 1
Attempts(r) == Addresses(r) * (r.retries + 1)
AttemptMs(r) == r.timeout + AttemptOverheadMs

\* The longest a Scan waits between two Probes when it takes turns with the others.
TurnWait(requests, k) ==
  (IF Addresses(requests[k]) > 1 THEN requests[k].delay ELSE 0)
    + SumFunctionOnSet([j \in DOMAIN requests |-> AttemptMs(requests[j])], DOMAIN requests \ {k})

KeepsLease(r) == r.pause /\ Attempts(r) # 1

\* Mutant: only the new Scan's own wait is looked at.
OnlyNewFits(requests, new) ==
  KeepsLease(requests[new]) => TurnWait(requests, new) <= GatewayLimits.delayMax

\* validate_alongside, of the running Scans and the new one.
TurnsFit(requests, new) ==
  \A k \in DOMAIN requests :
    KeepsLease(requests[k]) => TurnWait(requests, k) <= GatewayLimits.delayMax
------------------------------------------------------------------------------
(* Device Profiles. *)

Distinct(s) == \A i, j \in DOMAIN s : s[i] = s[j] => i = j
GivenWithin(value, range) == value = Unset \/ value \in range

\* _defaults
DefaultsValid(d) ==
  LET given == d.defaults
      count == IF given.count = Unset THEN 1 ELSE given.count
  IN  /\ GivenWithin(given.start, 1..247) /\ GivenWithin(given.end, 1..247)
      /\ GivenWithin(given.register, AllRegisters) /\ GivenWithin(given.count, 1..4)
      /\ GivenWithin(given.timeout, Timeouts) /\ GivenWithin(given.delay, 0..3000)
      /\ GivenWithin(given.retries, 0..5)
      /\ given.probe # Unset => \E i \in DOMAIN d.codes : given.probe = d.codes[i]
      /\ (given.start = Unset) = (given.end = Unset)
      /\ given.start # Unset => given.start <= given.end
      /\ given.register # Unset =>
           given.register .. (given.register + count - 1) \subseteq ProfileLimits(d).allowed

\* parse_device_profile
Parses(d) ==
  /\ d.codes # <<>> /\ Distinct(d.codes) /\ \A i \in DOMAIN d.codes : d.codes[i] \in {3, 4}
  /\ d.allowed # Unset =>
       /\ d.allowed # <<>> /\ Distinct(d.allowed)
       /\ \A i \in DOMAIN d.allowed : d.allowed[i] \in AllRegisters
  /\ DefaultsValid(d)

GenericProfile == [builtin |-> TRUE, codes |-> <<3, 4>>, allowed |-> Unset,
                   defaults |-> [f \in Fields |-> Unset]]
Profiles == {GenericProfile} \cup {d \in Documents : ~d.builtin /\ Parses(d)}

\* DeviceProfile.request_defaults
ProfileDefaults(d) ==
  IF d.builtin THEN d.defaults
  ELSE [d.defaults EXCEPT
          !.probe = IF @ = Unset THEN d.codes[1] ELSE @,
          !.register = IF @ = Unset /\ d.allowed # Unset THEN d.allowed[1] ELSE @]

\* _with_gateway_defaults: only absent fields get a default, the profile's first.
Completed(call, d) ==
  LET FirstOf(f) == IF call[f] # Unset THEN call[f]
                    ELSE IF ProfileDefaults(d)[f] # Unset THEN ProfileDefaults(d)[f]
                    ELSE GatewayDefaults[f]
  IN  [f \in DOMAIN call |-> IF f \in Fields THEN FirstOf(f) ELSE call[f]]
------------------------------------------------------------------------------
(* Pausable Pollers.  A checklist is a function from pollers to whether they are paused. *)

\* Mutant: a saved row is found by its place in the table.
ChecklistByIndex(table, rows) ==
  [p \in table |-> \A q \in DOMAIN rows : q.index = p.index => rows[q]]

\* reconcile: a poller without a saved row is paused.
Checklist(table, rows) == [p \in table |-> p \in DOMAIN rows => rows[p]]

\* choose
Choice(table, indices) == [p \in table |-> p.index \in indices]

Paused(checklist) == {p \in DOMAIN checklist : checklist[p]}
Removed(table, rows) == DOMAIN rows \ table
TableOf(f, b) == IF b \in DOMAIN f.tables THEN f.tables[b] ELSE {}
NoRows == [p \in {} |-> TRUE]

\* revalidate: what the saved checklists become.  A Bus without one gets none.
Pruned ==
  [b \in Buses |-> IF saved[b] = NoRows \/ b \notin DOMAIN info.tables THEN NoRows
                   ELSE Checklist(info.tables[b], saved[b])]

\* revalidate with prune: once a row is gone from its table.
Prune ==
  saved' = IF info # NoInfo /\ \E b \in Buses : Removed(TableOf(info, b), saved[b]) # {}
           THEN Pruned ELSE saved

\* _pause_selection
Selection(scan, b) ==
  LET table == TableOf(firmware, b)
  IN  IF ~scan.request.pause THEN {}
      ELSE IF scan.request.pollers # Unset THEN Paused(Choice(table, scan.request.pollers))
      ELSE Paused(Checklist(table, scan.checklists[b]))
------------------------------------------------------------------------------
(* What HA reads of the Gateway. *)

\* _valid_poller_table and _parse_info: the bridge, and tables whose rows are numbered.
Readable(f) ==
  /\ f.bridge = "v2"
  /\ \A b \in DOMAIN f.tables :
       /\ {p.index : p \in f.tables[b]} = 0 .. (Cardinality(f.tables[b]) - 1)
       /\ \A p \in f.tables[b] : p.address \in 0..247

\* _resolve_bus_sensors: every Bus names two sensors of its own, or all use the shared ones.
ResolvesSensors(f) ==
  LET named == (DOMAIN f.tables) \X {"result", "lease"}
      Name(s) == f.sensors[s[1]][s[2]]
  IN  /\ named # {}
      /\ \A s \in named : Name(s) \in f.unique
      /\ \A s, t \in named : Name(s) = Name(t) => s = t

\* _read_info
ReadInfo ==
  /\ Readable(firmware)
  /\ info' = firmware
  /\ perBus' = ResolvesSensors(firmware)
  /\ mode' = perBus'
  /\ kept' = [b \in Buses |-> kept[b] \cap TableOf(firmware, b)]
  /\ UNCHANGED unticked

\* Gateway::validate_
Accepts(f, b, r, selection) ==
  /\ b \in DOMAIN f.tables
  /\ {r.start, r.end} \subseteq 1..247
  /\ r.probe \in {3, 4}
  /\ r.register \in AllRegisters /\ r.count \in 1..4
  /\ r.register + r.count - 1 <= 65535
  /\ r.timeout \in Timeouts
  /\ \A p \in selection : p.index < Cardinality(f.tables[b])

Word == 0..65535
Latencies == 0..60000

\* _check_result, of a result with the request's id that is no rejection.
ResultValid(p, r) ==
  /\ p.latency \in Latencies
  /\ p.outcome \in {"responded", "modbus_exception", "timeout", "possible_collision"}
  /\ p.outcome = "responded" =>
       Len(p.values) = r.count /\ \A i \in DOMAIN p.values : p.values[i] \in Word
  /\ p.outcome = "modbus_exception" => p.exception \in 1..255

\* _probe_result: exception and values come with their outcomes only.
ProbeResult(p) ==
  [p EXCEPT !.values = IF p.outcome = "responded" THEN @ ELSE Unset,
            !.exception = IF p.outcome = "modbus_exception" THEN @ ELSE Unset]

\* _normalize_result, but for the addresses.
Normal(p, r) ==
  /\ p.latency >= 0
  /\ p.exception # Unset => p.exception \in 0..255
  /\ p.values # Unset =>
       /\ p.outcome = "responded" /\ Len(p.values) = r.count
       /\ \A i \in DOMAIN p.values : p.values[i] \in Word
------------------------------------------------------------------------------
(* Scans. *)

\* _target_bus of the coordinator: the Scan's Bus, as far as HA knows the Gateway's.
TargetBus(call) ==
  LET names == IF info = NoInfo THEN {} ELSE DOMAIN info.tables
  IN  IF call.bus = AnyBus /\ Cardinality(names) = 1 THEN CHOOSE b \in names : TRUE
      ELSE call.bus
BusKnown(call) ==
  info # NoInfo => IF call.bus = AnyBus THEN Cardinality(DOMAIN info.tables) <= 1
                                        ELSE call.bus \in DOMAIN info.tables

\* Mutant: a Scan that does not know its Bus yet holds no Bus.
SameBusFree(k) == k \notin Running

\* _running_on
BusFree(k) == {j \in Running : k = AnyBus \/ j = AnyBus \/ j = k} = {}

\* validate_alongside
FitsAlongside(k, r) ==
  \/ perBus
  \/ Running = {}
  \/ TurnsFit([j \in Running \cup {k} |-> IF j = k THEN r ELSE scans[j].request], k)

\* The range is given, and confirmed when it is long (LARGE_RANGE_THRESHOLD).
RangeConfirmed(r) ==
  /\ r.start # Unset /\ r.end # Unset
  /\ Addresses(r) > 32 => r.confirmed

\* _handle_start_scan and start, for a call that is accepted.
Start(call, d) ==
  LET r == Completed(call, d)
      k == TargetBus(call)
  IN  /\ RangeConfirmed(r)
      /\ Valid(r) /\ Within(GatewayLimits, r) /\ Within(ProfileLimits(d), r)
      /\ BusKnown(call) /\ BusFree(k) /\ FitsAlongside(k, r)
      /\ scans' = [scans EXCEPT ![k] =
           [request |-> r, checklists |-> saved, ownSlot |-> perBus, phase |-> "admitted",
            bus |-> k, perBus |-> FALSE, paused |-> {}, unticked |-> unticked, kept |-> kept]]
      /\ UNCHANGED <<firmware, memory, stored, saved, checking, bounds>>

\* _target_bus of the provider: the Bus the Gateway reports now, never a guess.
Targets(k) ==
  LET buses == DOMAIN firmware.tables
  IN  IF k # AnyBus THEN {k} \cap buses ELSE {b \in buses : buses = {b}}

\* What a Scan keeps of the Session it opened.
Connected(k, b) ==
  [scans[k] EXCEPT !.phase = "connected", !.bus = b, !.perBus = ResolvesSensors(firmware),
                   !.paused = Selection(scans[k], b)]

\* _run, up to its first Probe.  It waits for a check that holds the Gateway's lock.
Connect(k) ==
  /\ InPhase(k, {"admitted"}) /\ checking = "no"
  /\ ReadInfo
  /\ \/ Targets(k) = {} /\ scans' = [scans EXCEPT ![k].phase = "failed"]
     \/ \E b \in Targets(k) : scans' = [scans EXCEPT ![k] = Connected(k, b)]
  /\ UNCHANGED <<firmware, stored, saved, checking, bounds>>

\* Any probe of the Scan reaches the Gateway, and its result is emitted to the coordinator.
\* With a result the session does not take the Scan ends.
Probe(k, p) ==
  LET scan == scans[k]
  IN  /\ InPhase(k, {"connected"}) /\ ResultValid(p, scan.request)
      /\ scans' = [scans EXCEPT ![k].phase =
           IF Accepts(firmware, scan.bus, scan.request, scan.paused)
                /\ Normal(ProbeResult(p), scan.request)
           THEN "answered" ELSE "refused"]
      /\ UNCHANGED <<firmware, memory, stored, saved, checking, bounds>>

\* A Scan ends, whatever the reason: what it read drops rows of the saved checklists.
End(k) ==
  /\ k \in Running
  /\ scans' = [scans EXCEPT ![k] = NoScan]
  /\ Prune
  /\ UNCHANGED <<firmware, memory, stored, checking, bounds>>
------------------------------------------------------------------------------
(* The Gateway check, the user's choice, and what starts again. *)

CheckBegins ==
  /\ checking = "no" /\ Running = {}
  /\ checking' = "reading"
  /\ UNCHANGED <<firmware, memory, stored, saved, scans, bounds>>

CheckReads ==
  /\ checking = "reading" /\ ReadInfo
  /\ checking' = "closing"
  /\ UNCHANGED <<firmware, stored, saved, scans, bounds>>

\* check_gateway returns; a failed one leaves the checklists alone.
CheckEnds ==
  /\ checking # "no" /\ checking' = "no"
  /\ IF checking = "closing" THEN Prune ELSE UNCHANGED saved
  /\ UNCHANGED <<firmware, memory, stored, scans, bounds>>

\* save_choice, with indices of the Bus's last known table.
SaveChoice(b, indices) ==
  /\ info # NoInfo /\ b \in DOMAIN info.tables
  /\ indices \subseteq {p.index : p \in info.tables[b]}
  /\ LET checklist == Choice(info.tables[b], indices)
         off == DOMAIN checklist \ Paused(checklist)
     IN  /\ saved' = [saved EXCEPT ![b] = checklist]
         /\ unticked' = [unticked EXCEPT ![b] = (@ \ DOMAIN checklist) \cup off]
         /\ kept' = [kept EXCEPT ![b] = off]
  /\ UNCHANGED <<firmware, info, perBus, mode, stored, scans, checking, bounds>>

\* remember's delayed save.
SaveMode ==
  /\ stored # mode /\ stored' = mode
  /\ UNCHANGED <<firmware, memory, saved, scans, checking, bounds>>

Restarts == restarts < MaxRestarts /\ restarts' = restarts + 1

\* HA goes down with whatever it did and starts with what the Store holds.
Crash ==
  /\ Restarts
  /\ scans' = [k \in Keys |-> NoScan] /\ checking' = "no"
  /\ info' = NoInfo /\ mode' = stored /\ perBus' = stored
  /\ UNCHANGED <<firmware, stored, saved, flashes, unticked, kept>>

\* The config entry is set up again: a new provider takes the mode HA remembers.
Reload ==
  /\ Restarts
  /\ Running = {} /\ checking = "no"
  /\ info' = NoInfo /\ perBus' = mode
  /\ UNCHANGED <<firmware, mode, stored, saved, scans, checking, flashes, unticked, kept>>

\* External: the Gateway restarts with another configuration, and its connections end.
Flash(f) ==
  /\ flashes < MaxFlashes /\ flashes' = flashes + 1
  /\ f # firmware /\ firmware' = f
  /\ scans' = [k \in Keys |->
       IF InPhase(k, {"connected", "answered"})
       THEN [scans[k] EXCEPT !.phase = "failed"] ELSE scans[k]]
  /\ checking' = IF checking = "reading" THEN "failing" ELSE checking
  /\ UNCHANGED <<memory, stored, saved, restarts>>
------------------------------------------------------------------------------
Init ==
  /\ firmware \in Firmwares
  /\ info = NoInfo /\ perBus = FALSE /\ mode = FALSE /\ stored = FALSE
  /\ saved = [b \in Buses |-> NoRows]
  /\ scans = [k \in Keys |-> NoScan] /\ checking = "no"
  /\ flashes = 0 /\ restarts = 0
  /\ unticked = [b \in Buses |-> {}] /\ kept = [b \in Buses |-> {}]

Next ==
  \/ \E call \in Calls, d \in Profiles : Start(call, d)
  \/ \E k \in Keys : Connect(k) \/ (\E p \in Payloads : Probe(k, p)) \/ End(k)
  \/ CheckBegins \/ CheckReads \/ CheckEnds
  \/ \E b \in Buses : \E indices \in SUBSET {p.index : p \in Pollers} : SaveChoice(b, indices)
  \/ SaveMode \/ Crash \/ Reload
  \/ \E f \in Firmwares : Flash(f)

Spec == Init /\ [][Next]_vars
------------------------------------------------------------------------------
(* Properties. *)

Checklists == UNION {[table -> BOOLEAN] : table \in SUBSET Pollers}
Session == {"connected", "answered"}

\* Types, and what HA can hold: the Scan of a Bus not known yet is the only one, and what was
\* read is something the Gateway ran (ModbusScanCoordinator.start, _read_info).
TypeOK ==
  /\ firmware \in Firmwares /\ info \in Firmwares \cup {NoInfo}
  /\ perBus \in BOOLEAN /\ mode \in BOOLEAN /\ stored \in BOOLEAN
  /\ \A b \in Buses : saved[b] \in Checklists /\ unticked[b] \subseteq Pollers
  /\ \A b \in Buses : kept[b] \subseteq unticked[b]
  /\ AnyBus \in Running => Running = {AnyBus}
  /\ \A k \in Running :
       /\ scans[k].phase \in Session \cup {"admitted", "failed", "refused"}
       /\ scans[k].phase = "admitted" => scans[k].bus = k
  /\ checking \in {"no", "reading", "closing", "failing"}

\* A Scan that goes by the saved checklist pauses what the user chose: never a poller the
\* user unticked that stayed as it was (index, name and address) in every table HA read
\* since, and every other poller of the table except one whose last saved choice was not to
\* pause it.  So no old choice speaks for a poller that was renumbered, renamed or moved by a
\* new configuration (PollerSelectionStore.revalidate, _pause_selection).
PausesAsChosen ==
  \A k \in Keys :
    InPhase(k, Session) /\ scans[k].request.pause /\ scans[k].request.pollers = Unset =>
      LET scan == scans[k]
      IN  /\ scan.paused \subseteq TableOf(firmware, scan.bus)
          /\ scan.paused \cap scan.kept[scan.bus] = {}
          /\ TableOf(firmware, scan.bus) \ scan.paused \subseteq scan.unticked[scan.bus]

\* The Probe Slot a connected Scan takes.
Slot(k) == IF scans[k].perBus THEN scans[k].bus ELSE AnyBus
Sharers(k) == {j \in Keys \ {k} : InPhase(j, Session) /\ Slot(j) = Slot(k)}

\* A Scan with pollers to pause never waits so long between two Probes (its delay, and one
\* Probe of each Scan that shares its Probe Slot) that the Gateway ends its lease as idle, as
\* long as the Scans that share it were admitted knowing that they would: the mode HA kept
\* did not change under them (ProbeLimits.validate_alongside).
GapsFitLease ==
  \A k \in Keys :
    /\ InPhase(k, Session) /\ scans[k].paused # {} /\ KeepsLease(scans[k].request)
    /\ \A j \in Sharers(k) \cup {k} : ~scans[j].ownSlot
    => LET own == IF Addresses(scans[k].request) > 1 THEN scans[k].request.delay ELSE 0
           turns == [j \in Sharers(k) |-> AttemptMs(scans[j].request)]
       IN  own + SumFunctionOnSet(turns, Sharers(k)) < IdleMs

\* What HA accepted is not refused further on: the Gateway's own validation passes every
\* probe of an admitted Scan, with its selection and whatever the Gateway was flashed with in
\* between, and the coordinator passes every result the session took for valid.
NothingRefusedLater == \A k \in Keys : ~InPhase(k, {"refused"})
=============================================================================
