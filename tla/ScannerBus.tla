------------------------------ MODULE ScannerBus ------------------------------
(***************************************************************************)
(* One scanner Bus of the Gateway firmware (class Bus of scanner_core.h),  *)
(* with the Gateway's probe, release and loop handlers that route to it.   *)
(*                                                                         *)
(* The Modbus hub, the Pausable Pollers and the clock are injected into    *)
(* the class; here they are the external part of the module: a hub keeps   *)
(* unsent frames of several sources, puts one frame on the wire at a time  *)
(* and reports each scanner frame's end exactly once.  Order among waiting *)
(* frames is left open, so every queueing discipline is covered.           *)
(*                                                                         *)
(* Times are abstract ticks of the millisecond clock, which wraps at       *)
(* ClockMod as the uint32_t of the code does.  A member whose value is not *)
(* read again (the request of a finished probe, the times of an ended      *)
(* lease, the end reason of an active one) is cleared here instead of kept.*)
(***************************************************************************)
EXTENDS Integers

CONSTANTS
  Scans,        \* scan ids of HA instances and other API clients
  Pollers,      \* Pausable Pollers of this Bus
  Address,      \* slave address of each poller, 0 when it has none
  Ids,          \* request ids in use
  Slaves,       \* slave addresses probed
  Timeouts,     \* per-probe timeouts
  NormalWait,   \* the hub's YAML send_wait_time
  Scanner,      \* this Bus as a source of frames
  NoSource,     \* nothing is on the wire
  NoScan,       \* the empty scan id before the first lease
  NoRequest,    \* no probe is in flight
  IdleMs,       \* kLeaseIdleMs
  HardLimitMs,  \* kLeaseHardLimitMs
  ClockMod,     \* where the clock wraps
  LoopGap       \* bound: longest time between two runs of the component loop

\* A ProbeRequest as the Bus keeps it: the fields read after the lease is decided.
Requests == [id : Ids, scan : Scans, slave : Slaves, timeout : Timeouts]

ASSUME SourcesAssumption ==
  /\ Scanner \notin Pollers
  /\ NoSource \notin Pollers \cup {Scanner}
  /\ NoScan \notin Scans
  /\ NoRequest \notin Requests
  /\ Address \in [Pollers -> Nat]
  /\ Slaves \subseteq Nat \ {0}

ASSUME TimesAssumption ==
  /\ IdleMs \in Nat \ {0} /\ HardLimitMs \in Nat \ {0} /\ LoopGap \in Nat \ {0}
  /\ IdleMs <= HardLimitMs
  /\ ClockMod \in Nat /\ ClockMod > HardLimitMs + LoopGap

VARIABLES
  lease,        \* the current Scan Lease, or the last one once it ended
  started,      \* when the active lease began
  touched,      \* its last probe call or terminal callback
  request,      \* the probe in flight, or NoRequest
  sent,         \* its frame went out
  clock,        \* the millisecond clock
  waiting,      \* external: sources with an unsent frame in the hub
  wire,         \* external: source of the frame on the wire
  sendWait,     \* external: the hub's wait for a reply
  paused,       \* external: pollers that are stopped
  leaseMsg,     \* state of the Lease text sensor
  owed,         \* history: probe calls minus published results, per request id
  leaseAge,     \* history: time since the active lease began, up to AgeBound
  idleAge,      \* history: time since its last probe call or result, up to AgeBound
  sinceLoop     \* history: time since the component loop last ran

leaseVars == <<lease, started, touched, paused, leaseMsg, leaseAge, idleAge>>
probeVars == <<request, sent, owed>>
hubVars   == <<waiting, wire, sendWait>>
timeVars  == <<clock, sinceLoop>>
vars == <<leaseVars, probeVars, hubVars, timeVars>>

Sources == Pollers \cup {Scanner}
Clock == 0..(ClockMod - 1)
inFlight == request # NoRequest

\* Reasons a lease ends (namespace lease_end).
EndReasons == {"released", "idle", "hard_limit", "superseded"}

Leases == [scan : Scans \cup {NoScan}, pollers : SUBSET Pollers, active : BOOLEAN,
           reason : EndReasons \cup {"unset"}]

LeaseMsgs == [scan : Scans \cup {NoScan}, state : {"unset", "active", "ended", "none"},
              reason : EndReasons \cup {"unset"}]
------------------------------------------------------------------------------
(* The clock. *)

\* Mutant: the difference of two readings without the wrap.
ElapsedNoWrap(since) == clock - since

\* now_ms() - since, in uint32_t arithmetic.
Elapsed(since) == IF clock >= since THEN clock - since ELSE clock + ClockMod - since

\* Bound of the two ages: one past every limit a lease can legally reach.
AgeBound == HardLimitMs + LoopGap
Older(age) == IF age < AgeBound THEN age + 1 ELSE age

Tick ==
  /\ sinceLoop < LoopGap
  /\ clock' = IF clock + 1 = ClockMod THEN 0 ELSE clock + 1
  /\ sinceLoop' = sinceLoop + 1
  /\ leaseAge' = IF lease.active THEN Older(leaseAge) ELSE 0
  /\ idleAge' = IF lease.active THEN Older(idleAge) ELSE 0
  /\ UNCHANGED <<lease, started, touched, paused, leaseMsg, probeVars, hubVars>>
------------------------------------------------------------------------------
(* The Scan Lease. *)

\* Mutant: lease_scan_ is set only after the message is published.
LeaseMsgOldScan(scan, state, reason) ==
  [scan |-> lease.scan, state |-> state, reason |-> reason]

\* publish_lease_ and lease_json: the sensor's state is the last message published.
LeaseMsg(scan, state, reason) == [scan |-> scan, state |-> state, reason |-> reason]

\* Mutant: an ending that resumes nothing.
ResumedNone == paused

\* Every poller of the lease, started again.
Resumed == paused \ lease.pollers

\* end_lease_
EndLease(reason) ==
  /\ lease' = [lease EXCEPT !.active = FALSE, !.reason = reason]
  /\ paused' = Resumed
  /\ leaseMsg' = LeaseMsg(lease.scan, "ended", reason)
  /\ started' = 0 /\ touched' = 0
  /\ leaseAge' = 0 /\ idleAge' = 0

\* Address of the frame a source has waiting; the scanner's is the probe's slave.
FrameAddress(s, slave) == IF s = Scanner THEN slave ELSE Address[s]

\* Mutant: pollers are stopped, and the frames they queued are left.
ClearedNone(queue, chosen, slave) == queue

\* clear_tx_queue_for_address for every address of the chosen pollers but 0.
Cleared(queue, chosen, slave) ==
  {s \in queue : \A p \in chosen : Address[p] = 0 \/ Address[p] # FrameAddress(s, slave)}

\* The three questions lease_for_ asks about a probe of a Scan with its selection.
Supersedes(scan) == lease.active /\ scan # lease.scan
Renews(scan) == lease.active /\ scan = lease.scan
Begins(scan, chosen) == scan # lease.scan /\ chosen # {}

Renew ==
  /\ touched' = clock
  /\ idleAge' = 0
  /\ UNCHANGED <<lease, started, paused, leaseMsg, leaseAge>>

\* Mutant: a superseded lease is forgotten without resuming its pollers.
BeginOver(scan, chosen) ==
  /\ lease' = [scan |-> scan, pollers |-> chosen, active |-> TRUE, reason |-> "unset"]
  /\ paused' = paused \cup chosen
  /\ leaseMsg' = LeaseMsg(scan, "active", "unset")
  /\ started' = clock /\ touched' = clock
  /\ leaseAge' = 0 /\ idleAge' = 0

\* A lease still active is superseded first: its pollers are resumed.
Begin(scan, chosen) ==
  /\ lease' = [scan |-> scan, pollers |-> chosen, active |-> TRUE, reason |-> "unset"]
  /\ paused' = (IF Supersedes(scan) THEN Resumed ELSE paused) \cup chosen
  /\ leaseMsg' = LeaseMsg(scan, "active", "unset")
  /\ started' = clock /\ touched' = clock
  /\ leaseAge' = 0 /\ idleAge' = 0

LeaseFor(scan, chosen) ==
  \/ Renews(scan) /\ Renew
  \/ Begins(scan, chosen) /\ Begin(scan, chosen)
  \/ Supersedes(scan) /\ ~Begins(scan, chosen) /\ EndLease("superseded")
  \/ ~lease.active /\ ~Begins(scan, chosen) /\ UNCHANGED leaseVars
------------------------------------------------------------------------------
(* The probe and release actions and the component loop. *)

\* A probe call asks for one result; publish_result gives one.  What a result says
\* is not modelled.
Asked(o, id) == [o EXCEPT ![id] = @ + 1]
Answered(o, id) == [o EXCEPT ![id] = @ - 1]

\* Mutant: a rejection is not published.
RejectedSilently(id) == owed' = Asked(owed, id)

\* Gateway::probe publishes a rejection at once.
Rejected(id) == owed' = Answered(Asked(owed, id), id)

\* validate_ refuses the request, or a probe is in flight on this Bus (busy): the
\* lease is not looked at.
ProbeRefused(id) ==
  /\ Rejected(id)
  /\ UNCHANGED <<leaseVars, request, sent, hubVars, timeVars>>

\* Mutant: the probe's frame is queued before the paused pollers' frames are cleared.
ClearedAfterQueue(r, chosen, accepted) ==
  LET queue == waiting \cup (IF accepted THEN {Scanner} ELSE {})
  IN IF Begins(r.scan, chosen) THEN Cleared(queue, chosen, r.slave) ELSE queue

\* The frames in the hub after the lease is decided, then the probe's own frame.
QueueAfter(r, chosen, accepted) ==
  (IF Begins(r.scan, chosen) THEN Cleared(waiting, chosen, r.slave) ELSE waiting)
    \cup (IF accepted THEN {Scanner} ELSE {})

\* Mutant: in_flight_ stays set when the hub refuses the frame.
RequestKept(r, accepted) == r

\* What is in flight after queue_request's answer.
RequestAfter(r, accepted) == IF accepted THEN r ELSE NoRequest

\* Bus::start, with the hub's answer to queue_request.
ProbeStarted(r, chosen, accepted) ==
  /\ ~inFlight
  /\ LeaseFor(r.scan, chosen)
  /\ waiting' = QueueAfter(r, chosen, accepted)
  /\ request' = RequestAfter(r, accepted)
  /\ IF accepted THEN owed' = Asked(owed, r.id) ELSE Rejected(r.id)
  /\ UNCHANGED <<sent, wire, sendWait, timeVars>>

\* Bus::release: always answered for a known Bus and a valid scan id.
Release(s) ==
  /\ \/ lease.active /\ s = lease.scan /\ EndLease("released")
     \/ /\ ~lease.active /\ s = lease.scan
        /\ leaseMsg' = LeaseMsg(s, "ended", lease.reason)
        /\ UNCHANGED <<lease, started, touched, paused, leaseAge, idleAge>>
     \/ /\ s # lease.scan
        /\ leaseMsg' = LeaseMsg(s, "none", "unset")
        /\ UNCHANGED <<lease, started, touched, paused, leaseAge, idleAge>>
  /\ UNCHANGED <<probeVars, hubVars, timeVars>>

HardLimitReached == Elapsed(started) >= HardLimitMs

\* Mutant: the idle timer runs while a probe is in flight.
IdleWhileInFlight == Elapsed(touched) >= IdleMs

IdleExpired == ~inFlight /\ Elapsed(touched) >= IdleMs

\* Bus::loop: Gateway-owned recovery of Normal Polling.
Loop ==
  /\ sinceLoop' = 0
  /\ \/ lease.active /\ HardLimitReached /\ EndLease("hard_limit")
     \/ lease.active /\ ~HardLimitReached /\ IdleExpired /\ EndLease("idle")
     \/ lease.active /\ ~HardLimitReached /\ ~IdleExpired /\ UNCHANGED leaseVars
     \/ ~lease.active /\ UNCHANGED leaseVars
  /\ UNCHANGED <<probeVars, hubVars, clock>>
------------------------------------------------------------------------------
(* The hub, and its callbacks into the Bus. *)

\* A running poller queues a frame.
PollerFrame(p) ==
  /\ p \notin paused
  /\ p \notin waiting
  /\ waiting' = waiting \cup {p}
  /\ UNCHANGED <<leaseVars, probeVars, timeVars, wire, sendWait>>

\* The hub sends a poller's frame; the poller may have more of them waiting.
SendPoller(p) ==
  /\ wire = NoSource /\ p \in waiting
  /\ wire' = p
  /\ waiting' \in {waiting, waiting \ {p}}
  /\ UNCHANGED <<leaseVars, probeVars, timeVars, sendWait>>

\* The poller's frame is answered or times out; it is not the scanner's business.
PollerDone(p) ==
  /\ wire = p
  /\ wire' = NoSource
  /\ UNCHANGED <<leaseVars, probeVars, timeVars, waiting, sendWait>>

\* Mutant: the probe's timeout is added to the hub's wait.
OnSentAdds ==
  IF inFlight /\ ~sent
  THEN sent' = TRUE /\ sendWait' = sendWait + request.timeout
  ELSE UNCHANGED <<sent, sendWait>>

\* on_sent: the hub waits the probe's own timeout for this frame's reply.
OnSent ==
  IF inFlight /\ ~sent
  THEN sent' = TRUE /\ sendWait' = request.timeout
  ELSE UNCHANGED <<sent, sendWait>>

\* The hub sends the probe's frame and calls on_sent.
SendProbe ==
  /\ wire = NoSource /\ Scanner \in waiting
  /\ wire' = Scanner
  /\ waiting' = waiting \ {Scanner}
  /\ OnSent
  /\ UNCHANGED <<leaseVars, request, owed, timeVars>>

\* Mutant: the YAML wait is not restored.
WaitKept == sendWait

\* The hub's wait once the probe ended.
RestoredWait == IF sent THEN NormalWait ELSE sendWait

\* finish_, from any terminal callback; callbacks while idle are ignored.  The idle
\* timer of an active lease starts here.
Finish ==
  /\ IF inFlight
     THEN /\ sendWait' = RestoredWait
          /\ request' = NoRequest /\ sent' = FALSE
          /\ touched' = IF lease.active THEN clock ELSE touched
          /\ idleAge' = 0
          /\ owed' = Answered(owed, request.id)
     ELSE UNCHANGED <<sendWait, request, sent, touched, idleAge, owed>>
  /\ UNCHANGED <<lease, started, paused, leaseMsg, leaseAge, timeVars>>

\* on_response (of this probe or not), on_exception or on_no_response.
ProbeDone ==
  /\ wire = Scanner
  /\ wire' = NoSource
  /\ Finish
  /\ UNCHANGED waiting

\* on_not_sent: the hub gives the frame up before sending it.
ProbeNotSent ==
  /\ Scanner \in waiting
  /\ waiting' = waiting \ {Scanner}
  /\ Finish
  /\ UNCHANGED wire
------------------------------------------------------------------------------
Init ==
  /\ lease = [scan |-> NoScan, pollers |-> {}, active |-> FALSE, reason |-> "unset"]
  /\ started = 0 /\ touched = 0
  /\ request = NoRequest /\ sent = FALSE
  /\ clock = 0
  /\ waiting = {} /\ wire = NoSource /\ sendWait = NormalWait
  /\ paused = {}
  /\ leaseMsg = LeaseMsg(NoScan, "unset", "unset")
  /\ owed = [i \in Ids |-> 0]
  /\ leaseAge = 0 /\ idleAge = 0 /\ sinceLoop = 0

Next ==
  \/ Tick
  \/ Loop
  \/ \E id \in Ids : ProbeRefused(id)
  \/ \E r \in Requests, chosen \in SUBSET Pollers, accepted \in BOOLEAN :
       ProbeStarted(r, chosen, accepted)
  \/ \E s \in Scans : Release(s)
  \/ \E p \in Pollers : PollerFrame(p) \/ SendPoller(p) \/ PollerDone(p)
  \/ SendProbe
  \/ ProbeDone
  \/ ProbeNotSent

Spec == Init /\ [][Next]_vars

\* Time passes and the component loop runs again and again (ESPHome's main loop).
\* The hub serves every queued frame and ends every frame on the wire, so a frame
\* that keeps finding the wire free is sent.
Fairness ==
  /\ WF_vars(Tick) /\ WF_vars(Loop)
  /\ SF_vars(SendProbe) /\ WF_vars(ProbeDone)
  /\ \A p \in Pollers : WF_vars(PollerDone(p))

FairSpec == Spec /\ Fairness
------------------------------------------------------------------------------
(* Properties. *)

TypeOK ==
  /\ lease \in Leases /\ leaseMsg \in LeaseMsgs
  /\ started \in Clock /\ touched \in Clock /\ clock \in Clock
  /\ request \in Requests \cup {NoRequest} /\ sent \in BOOLEAN
  /\ waiting \in SUBSET Sources /\ wire \in Sources \cup {NoSource}
  /\ sendWait \in Timeouts \cup {NormalWait}
  /\ paused \in SUBSET Pollers
  /\ owed \in [Ids -> Int]
  /\ leaseAge \in Nat /\ idleAge \in Nat /\ sinceLoop \in 0..LoopGap

\* Normal Polling is paused for exactly the pollers of the active lease, whichever
\* path began or ended it: release, idle expiry, hard limit or another Scan's probe.
PausedIffLeased == paused = IF lease.active THEN lease.pollers ELSE {}

\* While a lease holds, the hub holds no unsent frame of a poller it paused (unless
\* the poller has no address): stopping a poller leaves its queued frames behind,
\* so they are cleared, and a stopped poller queues no more.
NoPausedFrameWaiting ==
  lease.active => \A p \in lease.pollers : Address[p] # 0 => p \notin waiting

\* The probe's timeout is the hub's wait exactly while its own frame is on the wire,
\* so no poller's frame is ever timed by it.
SendWaitOnlyForProbe ==
  sendWait = IF wire = Scanner THEN request.timeout ELSE NormalWait

\* A probe is in flight exactly while the hub holds its one frame, waiting or on the
\* wire: clearing paused pollers' frames never drops it, even when it is addressed
\* to a paused poller's slave, no second frame is queued behind it, and its timeout
\* is in force for it alone.
ProbeFrameAccounted ==
  /\ inFlight <=> Scanner \in waiting \/ wire = Scanner
  /\ ~(Scanner \in waiting /\ wire = Scanner)
  /\ SendWaitOnlyForProbe

\* Every correlatable probe call has exactly one result: at any time the only call
\* without one is the probe in flight, and nothing is answered twice.
OneResultPerCall ==
  \A i \in Ids : owed[i] = IF inFlight /\ request.id = i THEN 1 ELSE 0

\* A lease never outlives its hard limit by more than one gap of the component loop,
\* nor its idle time while no probe is in flight, wherever the clock wraps.
LeaseBounded ==
  lease.active =>
    /\ leaseAge < HardLimitMs + LoopGap
    /\ ~inFlight => idleAge < IdleMs + LoopGap

\* The Lease sensor never claims a pause that is over: if it says active, that very
\* Scan holds the lease; if it says a Scan's lease ended, that Scan holds none.
LeaseMsgTrue ==
  /\ leaseMsg.state = "active" => lease.active /\ leaseMsg.scan = lease.scan
  /\ leaseMsg.state = "ended" => ~(lease.active /\ leaseMsg.scan = lease.scan)

\* A lease with a probe in flight is never idled out or taken over by another Scan:
\* only its own release or the hard limit ends it.
InFlightLeaseKept ==
  [][inFlight /\ lease.active /\ ~(lease'.active /\ lease'.scan = lease.scan)
       => lease'.reason \in {"released", "hard_limit"}]_vars

\* Every lease ends, whatever its Scan and other clients do: HA may vanish or go on
\* probing for ever.
EveryLeaseEnds ==
  \A s \in Scans :
    (lease.active /\ lease.scan = s) ~> ~(lease.active /\ lease.scan = s)

\* Every accepted probe reaches its terminal callback, however busy the pollers are.
EveryProbeEnds == inFlight ~> ~inFlight

\* No Scan keeps Normal Polling paused for ever, and none waits for ever.
EverythingEnds == EveryLeaseEnds /\ EveryProbeEnds

\* The Bus keeps its promise about Normal Polling.
Contract == INSTANCE LeaseContract WITH
  holder <- IF lease.active THEN lease.scan ELSE NoScan
ImplementsContract == Contract!ContractSpec
------------------------------------------------------------------------------
(* What makes the safety properties inductive: each group is preserved by every step  *)
(* of a state that satisfies TypeOK and the group.                                    *)

\* The Bus and the hub agree on the probe's frame.
ProbeInv ==
  /\ ProbeFrameAccounted
  /\ OneResultPerCall
  /\ sent <=> wire = Scanner

\* The lease and the pollers agree.
PauseInv ==
  /\ PausedIffLeased
  /\ NoPausedFrameWaiting
  /\ lease.active => lease.scan \in Scans /\ lease.pollers # {}

\* The ages are what the wrapping clock measures, and no loop has been late.
TimeInv ==
  lease.active =>
    /\ leaseAge = Elapsed(started) /\ idleAge = Elapsed(touched)
    /\ idleAge <= leaseAge
    /\ leaseAge <= HardLimitMs - 1 + sinceLoop
    /\ ~inFlight => idleAge <= IdleMs - 1 + sinceLoop

Inv == TypeOK /\ ProbeInv /\ PauseInv /\ TimeInv /\ LeaseMsgTrue
==============================================================================
