---------------------------- MODULE BridgeSession ----------------------------
(***************************************************************************)
(* Scans of one Bridge v2 Gateway, from Home Assistant's side and the      *)
(* Gateway's: class V2GatewayProvider (run_scan, _run, _release,           *)
(* check_gateway) over the ESPHome API, and the messages of class Bus.     *)
(*                                                                         *)
(* Each Scan has its own API connection.  Calls travel over it in order.   *)
(* Results and lease messages travel back as the state of text sensors: a  *)
(* connection is told only the latest state of a sensor in a batch, so a   *)
(* message published before the batch left replaces the one before it.     *)
(*                                                                         *)
(* Python code between two awaits is one action.  Several Home Assistants  *)
(* may use the Gateway; within one, the coordinator runs one Scan per Bus. *)
(*                                                                         *)
(* The Bus is ScannerBus without its clock and hub: its idle time and hard *)
(* limit may pass whenever they could.  Left out: what connecting checks,  *)
(* malformed messages, health fields.  A call that the Gateway received    *)
(* too late is possible, but not after a later Scan of that Bus connects.  *)
(***************************************************************************)
EXTENDS Integers, Sequences

CONSTANTS
  Scans,        \* Scans that may be admitted
  Homes,        \* Home Assistant instances
  Home,         \* the instance of each Scan
  Buses,        \* Buses of the Gateway
  BusOf,        \* the Bus of each Scan
  Pauses,       \* whether each Scan selects pollers to pause
  PerBus,       \* per-Bus mode, or the shared-slot fallback
  Last,         \* slave addresses of Scan s are 1..Last[s]
  Retries,      \* retries of a probe of Scan s that timed out: Retries[s]
  MaxFaults,    \* bound: lost connections, forced closings, torn tasks and crashes
  MaxTransit,   \* bound: states on their way to one connection
  Shared,       \* the shared sensors, the shared Probe Slot
  NoScan,       \* a Bus that never had a lease
  NoProbe       \* nothing in flight

ASSUME BridgeAssumption ==
  /\ Home \in [Scans -> Homes] /\ BusOf \in [Scans -> Buses]
  /\ Pauses \in [Scans -> BOOLEAN] /\ PerBus \in BOOLEAN
  /\ Last \in [Scans -> Nat \ {0}] /\ Retries \in [Scans -> Nat] /\ MaxFaults \in Nat /\ MaxTransit \in Nat \ {0}
  /\ Shared \notin Buses /\ NoScan \notin Scans

\* request ids: uuid4 is fresh for every attempt.
Addresses == UNION {1..Last[s] : s \in Scans}
Attempts == UNION {1..(Retries[s] + 1) : s \in Scans}
Probes == [scan : Scans, address : Addresses, attempt : Attempts]

ASSUME ProbeAssumption == NoProbe \notin Probes

VARIABLES
  sess,       \* the local variables of each Scan's _run, and where it waits
  cancelled,  \* Scans whose cancelled() is true
  checking,   \* Home Assistants whose check_gateway holds the Gateway's lock
  link,       \* external: calls on their way to the Gateway, per connection
  inbox,      \* external: sensor states on their way to Home Assistant
  dirty,      \* external: sensors whose state is not yet sent, per connection
  sensor,     \* external: the states of the result and lease sensors
  lease,      \* the Scan Lease of each Bus, or its last one
  flight,     \* the probe in flight on each Bus, or NoProbe
  faults,     \* faults so far
  reported,   \* history: the address and the result of every emit of a running Scan
  leaseEnd    \* history: how the last lease of each running Scan ended

haVars      == <<sess, cancelled, checking, faults>>
netVars     == <<link, inbox, dirty>>
gatewayVars == <<sensor, lease, flight>>
historyVars == <<reported, leaseEnd>>
vars == <<haVars, netVars, gatewayVars, historyVars>>

Kinds == {"result", "lease"}
EarlyReasons == {"idle", "hard_limit", "superseded"}
EndReasons == EarlyReasons \cup {"released"}
Outcomes == {"reply", "timeout", "gateway_error"}
Results == [probe : Probes, outcome : Outcomes]
LeaseMsgs == [scan : Scans, state : {"active", "ended", "none"},
              reason : EndReasons \cup {"unset"}]
\* A sensor that was never published has no state.
NoState == [state |-> "missing"]

Steps == {"new", "admitted", "asking", "probing", "pausing",
          "freeing", "releasing", "closing", "done"}
\* Steps in which the connection of a Scan is open.
Open == {"asking", "probing", "pausing", "freeing", "releasing", "closing"}
\* Steps in which the coordinator counts a Scan as running.
Running == Open \cup {"admitted"}

\* One more thing goes wrong.
Fault == faults < MaxFaults /\ faults' = faults + 1

Connected(s) == sess[s].step \in Open /\ ~sess[s].disconnected
Current(s) == [scan |-> s, address |-> sess[s].address, attempt |-> sess[s].attempt]
Waiting(s) == sess[s].step = "probing" /\ sess[s].pending = "waiting"
------------------------------------------------------------------------------
(* What both sides agree on: sensors and Probe Slots. *)

\* Session.sensor_keys: the sensors that carry a Bus's messages to HA.
Channel(b) == IF PerBus THEN b ELSE Shared

\* Mutant: every Bus has a Probe Slot of its own also when the sensors are shared.
SlotPerBus(s) == <<Home[s], BusOf[s]>>

\* _probe_slot
Slot(s) == <<Home[s], Channel(BusOf[s])>>

\* Mutant: the release is called with the probe's slot still held.
SlotHeldForRelease(s) ==
  \A t \in Scans : Slot(t) = Slot(s) => sess[t].step \notin {"probing", "freeing", "releasing"}

\* An asyncio.Lock that nobody holds.
SlotFree(s) ==
  \A t \in Scans : Slot(t) = Slot(s) => sess[t].step \notin {"probing", "releasing"}

\* Every connection that reads Bus b's sensors has the published kinds to send.
Told(kinds, b) ==
  [s \in Scans |->
     IF Connected(s) /\ Channel(BusOf[s]) = Channel(b) THEN dirty[s] \cup kinds ELSE dirty[s]]
------------------------------------------------------------------------------
(* The Gateway. *)

Supersedes(b, s) == lease[b].active /\ lease[b].scan # s
Begins(b, s) == lease[b].scan # s /\ Pauses[s]

LeaseMsg(s, state, reason) == [scan |-> s, state |-> state, reason |-> reason]

\* publish_result and publish_lease: the sensor's state is the last message.
PublishResult(p, outcome) ==
  sensor' = [sensor EXCEPT !["result"][Channel(BusOf[p.scan])] =
                             [probe |-> p, outcome |-> outcome]]

PublishLease(b, msg) == sensor' = [sensor EXCEPT !["lease"][Channel(b)] = msg]

\* end_lease_, but for its message.
Ended(b, reason) == [lease[b] EXCEPT !.active = FALSE, !.reason = reason]

\* lease_for_: the lease of Bus b after a probe of Scan s.
LeaseFor(b, s) ==
  IF Begins(b, s) THEN [scan |-> s, active |-> TRUE, reason |-> "unset"]
  ELSE IF Supersedes(b, s) THEN Ended(b, "superseded")
  ELSE lease[b]

\* Its last message: that a lease began replaces that another was superseded.
LeaseForMsg(b, s) ==
  IF Begins(b, s) THEN LeaseMsg(s, "active", "unset")
  ELSE LeaseMsg(lease[b].scan, "ended", "superseded")

LeaseForPublishes(b, s) == Begins(b, s) \/ Supersedes(b, s)

\* How a lease ended matters only while its Scan runs.
Noted(s, reason) == IF sess[s].step \in Running THEN reason ELSE "unset"

LeaseEndAfter(b, s) ==
  [t \in Scans |->
     IF t = s /\ Begins(b, s) THEN "unset"
     ELSE IF t = lease[b].scan /\ Supersedes(b, s) THEN Noted(t, "superseded") ELSE leaseEnd[t]]

\* Gateway::probe while the Bus has a probe in flight.
ProbeBusy(s) ==
  /\ link[s] # <<>> /\ Head(link[s]).call = "probe"
  /\ flight[BusOf[s]] # NoProbe
  /\ link' = [link EXCEPT ![s] = Tail(@)]
  /\ PublishResult(Head(link[s]).probe, "gateway_error")
  /\ dirty' = Told({"result"}, BusOf[s])
  /\ UNCHANGED <<haVars, inbox, lease, flight, reported, leaseEnd>>

\* Bus::start: the lease is decided, then the hub accepts the frame or not.
ProbeArrives(s, accepted) ==
  LET b == BusOf[s]
      p == Head(link[s]).probe
      rejection == [probe |-> p, outcome |-> "gateway_error"]
      kinds == (IF LeaseForPublishes(b, s) THEN {"lease"} ELSE {})
                 \cup (IF accepted THEN {} ELSE {"result"})
  IN /\ link[s] # <<>> /\ Head(link[s]).call = "probe"
     /\ flight[b] = NoProbe
     /\ link' = [link EXCEPT ![s] = Tail(@)]
     /\ lease' = [lease EXCEPT ![b] = LeaseFor(b, s)]
     /\ leaseEnd' = LeaseEndAfter(b, s)
     /\ flight' = [flight EXCEPT ![b] = IF accepted THEN p ELSE NoProbe]
     /\ sensor' = [sensor EXCEPT
                      !["lease"][Channel(b)] =
                         IF LeaseForPublishes(b, s) THEN LeaseForMsg(b, s) ELSE @,
                      !["result"][Channel(b)] = IF accepted THEN @ ELSE rejection]
     /\ dirty' = Told(kinds, b)
     /\ UNCHANGED <<haVars, inbox, reported>>

\* A terminal callback of the hub: finish_.
ProbeEnds(b, outcome) ==
  /\ flight[b] # NoProbe
  /\ flight' = [flight EXCEPT ![b] = NoProbe]
  /\ PublishResult(flight[b], outcome)
  /\ dirty' = Told({"result"}, b)
  /\ UNCHANGED <<haVars, link, inbox, lease, reported, leaseEnd>>

\* Mutant: a release is answered as released also when the lease ended before.
AnswerReleased(b, s) == LeaseMsg(s, "ended", "released")

\* Mutant: the release of a lease that ended before is answered as unknown.
AnswerNone(b, s) ==
  IF lease[b].active /\ lease[b].scan = s THEN LeaseMsg(s, "ended", "released")
  ELSE LeaseMsg(s, "none", "unset")

\* What Bus::release publishes.
ReleaseMsg(b, s) ==
  IF lease[b].scan # s THEN LeaseMsg(s, "none", "unset")
  ELSE IF lease[b].active THEN LeaseMsg(s, "ended", "released")
  ELSE LeaseMsg(s, "ended", lease[b].reason)

\* Bus::release
ReleaseArrives(s) ==
  LET b == BusOf[s]
      ends == lease[b].active /\ lease[b].scan = s
  IN /\ link[s] # <<>> /\ Head(link[s]).call = "release"
     /\ link' = [link EXCEPT ![s] = Tail(@)]
     /\ lease' = IF ends THEN [lease EXCEPT ![b] = Ended(b, "released")] ELSE lease
     /\ leaseEnd' = IF ends THEN [leaseEnd EXCEPT ![s] = Noted(s, "released")] ELSE leaseEnd
     /\ PublishLease(b, ReleaseMsg(b, s))
     /\ dirty' = Told({"lease"}, b)
     /\ UNCHANGED <<haVars, inbox, flight, reported>>

\* Bus::loop
LeaseExpires(b, reason) ==
  /\ lease[b].active
  /\ reason = "hard_limit" \/ (reason = "idle" /\ flight[b] = NoProbe)
  /\ lease' = [lease EXCEPT ![b] = Ended(b, reason)]
  /\ leaseEnd' = [leaseEnd EXCEPT ![lease[b].scan] = Noted(lease[b].scan, reason)]
  /\ PublishLease(b, LeaseMsg(lease[b].scan, "ended", reason))
  /\ dirty' = Told({"lease"}, b)
  /\ UNCHANGED <<haVars, link, inbox, flight, reported>>

\* The API server sends the state a sensor has when its batch leaves.
Flush(s, kind) ==
  /\ kind \in dirty[s] /\ Len(inbox[s]) < MaxTransit
  /\ dirty' = [dirty EXCEPT ![s] = @ \ {kind}]
  /\ inbox' = [inbox EXCEPT ![s] =
                 Append(@, [kind |-> kind, msg |-> sensor[kind][Channel(BusOf[s])]])]
  /\ UNCHANGED <<haVars, link, gatewayVars, historyVars>>
------------------------------------------------------------------------------
(* Home Assistant: one Scan.  The operators on r give the next local variables. *)

\* report_lease(UNCONFIRMED), unless the lease is known to have ended.
Unconfirmed(r) ==
  IF r.status = "ended" THEN r ELSE [r EXCEPT !.status = "unconfirmed", !.reason = "unset"]

\* The finally block of _run up to its first await.
Cleanup(r) ==
  LET p == [r EXCEPT !.pending = "none", !.result = NoState]
  IN IF ~r.requested THEN [p EXCEPT !.step = "closing"]
     ELSE IF r.disconnected THEN [Unconfirmed(p) EXCEPT !.step = "closing"]
     ELSE [p EXCEPT !.step = "freeing", !.answer = "waiting"]

\* The top of the attempt loop.
NextAttempt(s, r) == IF s \in cancelled THEN Cleanup(r) ELSE [r EXCEPT !.step = "asking"]

Becomes(s, r) == sess' = [sess EXCEPT ![s] = r]

\* The locals a Scan begins with, and those of one that has returned or died.
Locals(step) ==
  [step |-> step, address |-> 1, attempt |-> 1, pending |-> "none", result |-> NoState,
   requested |-> FALSE, status |-> "none", reason |-> "unset", answer |-> "none",
   answered |-> FALSE, disconnected |-> FALSE]

\* Scans that return or die: their connections tell them nothing more.
Gone(over) ==
  /\ sess' = [s \in Scans |-> IF s \in over THEN Locals("done") ELSE sess[s]]
  /\ cancelled' = cancelled \ over
  /\ inbox' = [s \in Scans |-> IF s \in over THEN <<>> ELSE inbox[s]]
  /\ dirty' = [s \in Scans |-> IF s \in over THEN {} ELSE dirty[s]]
  /\ reported' = [s \in Scans |-> IF s \in over THEN {} ELSE reported[s]]
  /\ leaseEnd' = [s \in Scans |-> IF s \in over THEN "unset" ELSE leaseEnd[s]]

\* The coordinator admits one Scan per Bus.
Admit(s) ==
  /\ sess[s].step = "new"
  /\ \A t \in Scans : Home[t] = Home[s] /\ BusOf[t] = BusOf[s] => sess[t].step \notin Running
  /\ Becomes(s, [sess[s] EXCEPT !.step = "admitted"])
  /\ UNCHANGED <<cancelled, checking, faults, netVars, gatewayVars, historyVars>>

\* run_scan waits for a running check, connects, subscribes and reads the info, or
\* fails or is cancelled on the way.
Connect(s) ==
  /\ sess[s].step = "admitted"
  /\ Home[s] \notin checking
  /\ \A t \in Scans \ {s} : BusOf[t] = BusOf[s] /\ sess[t].step = "done" => link[t] = <<>>
  /\ \/ Gone({s})
     \/ /\ s \notin cancelled
        /\ Becomes(s, [sess[s] EXCEPT !.step = "asking"])
        /\ dirty' = [dirty EXCEPT ![s] =
                       {k \in Kinds : sensor[k][Channel(BusOf[s])] # NoState}]
        /\ UNCHANGED <<cancelled, inbox, historyVars>>
  /\ UNCHANGED <<checking, faults, link, gatewayVars>>

\* Mutant: cancelled() is not read again once the slot is held.
NoSecondLook(s) == FALSE

\* Whether a Scan that was given its slot sends no probe any more.
StopsAtSlot(s) == s \in cancelled

\* Mutant: the release is owed only once a result came back.
NotYetRequested(s) == sess[s].requested

\* lease["requested"]
RequestedAfter(s) == sess[s].requested \/ Pauses[s]

\* The Probe Slot is given to the Scan, and its probe is called.
SendProbe(s) ==
  /\ sess[s].step = "asking" /\ SlotFree(s)
  /\ LET r == [sess[s] EXCEPT !.requested = RequestedAfter(s)]
     IN \/ /\ StopsAtSlot(s)
           /\ Becomes(s, Cleanup(sess[s]))
           /\ UNCHANGED link
        \/ /\ ~StopsAtSlot(s) /\ sess[s].disconnected \* The call raises.
           /\ Becomes(s, Cleanup(r))
           /\ UNCHANGED link
        \/ /\ ~StopsAtSlot(s) /\ ~sess[s].disconnected
           /\ Becomes(s, [r EXCEPT !.step = "probing", !.pending = "waiting"])
           /\ link' = [link EXCEPT ![s] = Append(@, [call |-> "probe", probe |-> Current(s)])]
  /\ UNCHANGED <<cancelled, checking, faults, inbox, dirty, gatewayVars, historyVars>>

\* Mutant: a result is taken by its slave address.
ByAddress(s, result) == result.probe.address = sess[s].address

\* A result is taken only if its id is the one asked for.
Correlated(s, result) == result.probe = Current(s)

\* The result of the probe in flight, for a wait that is not over.
Answers(s, state) == state.kind = "result" /\ Waiting(s) /\ Correlated(s, state.msg)

\* A lease message of this Scan; other Scans' are no evidence.
Tells(s, state) == state.kind = "lease" /\ state.msg.scan = s

\* on_state and on_lease
Receive(s) ==
  LET r == sess[s]
      state == Head(inbox[s])
  IN /\ Connected(s) /\ inbox[s] # <<>>
     /\ inbox' = [inbox EXCEPT ![s] = Tail(@)]
     /\ \/ Answers(s, state) /\ Becomes(s, [r EXCEPT !.pending = state.msg.outcome, !.result = state.msg])
        \/ /\ Tells(s, state)
           /\ Becomes(s, [r EXCEPT
                !.status = state.msg.state, !.reason = state.msg.reason,
                !.answer = IF @ = "waiting" /\ state.msg.state # "active" THEN "set" ELSE @])
        \/ ~Answers(s, state) /\ ~Tells(s, state) /\ UNCHANGED sess
     /\ UNCHANGED <<cancelled, checking, faults, link, dirty, gatewayVars, historyVars>>

\* Mutant: one retry too many.
RetryTooMany(s) == sess[s].attempt <= Retries[s] + 1

\* A probe that timed out is tried again.
RetryLeft(s) == sess[s].attempt <= Retries[s]

\* The probe's wait is over: retry, the address's outcome, or the end of the Scan.
ProbeResumes(s) ==
  LET r == sess[s]
      retry == r.pending = "timeout" /\ RetryLeft(s)
  IN /\ r.step = "probing" /\ r.pending \notin {"none", "waiting"}
     /\ \/ /\ r.pending \in {"lost", "gateway_error"}
           /\ Becomes(s, Cleanup(r))
           /\ UNCHANGED reported
        \/ /\ retry
           /\ Becomes(s, NextAttempt(s, [r EXCEPT !.attempt = @ + 1, !.pending = "none", !.result = NoState]))
           /\ UNCHANGED reported
        \/ /\ r.pending \in {"reply", "timeout"} /\ ~retry
           /\ reported' = [reported EXCEPT ![s] = @ \cup {[address |-> r.address, result |-> r.result]}]
           /\ Becomes(s, IF r.address < Last[s]
                         THEN [r EXCEPT !.step = "pausing", !.pending = "none", !.result = NoState]
                         ELSE Cleanup(r))
     /\ UNCHANGED <<cancelled, checking, faults, netVars, gatewayVars, leaseEnd>>

\* The inter-request delay is over, or cut short by a cancellation.
NextAddress(s) ==
  /\ sess[s].step = "pausing"
  /\ Becomes(s, NextAttempt(s, [sess[s] EXCEPT !.address = @ + 1, !.attempt = 1]))
  /\ UNCHANGED <<cancelled, checking, faults, netVars, gatewayVars, historyVars>>

\* No result within the probe's timeout and its margin.
WaitExpires(s) ==
  /\ sess[s].step = "probing"
  /\ Becomes(s, Cleanup(sess[s]))
  /\ UNCHANGED <<cancelled, checking, faults, netVars, gatewayVars, historyVars>>

\* _release is given the slot and calls the Gateway, or fails at once.
SendRelease(s) ==
  /\ sess[s].step = "freeing" /\ SlotFree(s)
  /\ \/ /\ sess[s].disconnected
        /\ Becomes(s, [Unconfirmed(sess[s]) EXCEPT !.step = "closing"])
        /\ UNCHANGED link
     \/ /\ ~sess[s].disconnected
        /\ Becomes(s, [sess[s] EXCEPT !.step = "releasing"])
        /\ link' = [link EXCEPT ![s] = Append(@, [call |-> "release"])]
  /\ UNCHANGED <<cancelled, checking, faults, inbox, dirty, gatewayVars, historyVars>>

ReleaseAnswered(s) ==
  /\ sess[s].step = "releasing" /\ sess[s].answer = "set"
  /\ Becomes(s, [sess[s] EXCEPT !.step = "closing", !.answered = TRUE])
  /\ UNCHANGED <<cancelled, checking, faults, netVars, gatewayVars, historyVars>>

\* No answer within a second.
ReleaseExpires(s) ==
  /\ sess[s].step = "releasing"
  /\ Becomes(s, [Unconfirmed(sess[s]) EXCEPT !.step = "closing"])
  /\ UNCHANGED <<cancelled, checking, faults, netVars, gatewayVars, historyVars>>

\* _disconnect: after every call arrived, or by force, when the rest may be lost.
Disconnect(s) ==
  /\ sess[s].step = "closing"
  /\ Gone({s})
  /\ \/ link[s] = <<>> /\ UNCHANGED <<link, faults>>
     \/ Fault /\ link' \in {link, [link EXCEPT ![s] = <<>>]}
  /\ UNCHANGED <<checking, gatewayVars>>

\* on_stop, when the connection is lost.
ConnectionLost(s) ==
  /\ Connected(s)
  /\ Fault
  /\ Becomes(s, [sess[s] EXCEPT !.disconnected = TRUE,
                                !.pending = IF @ = "waiting" THEN "lost" ELSE @])
  /\ inbox' = [inbox EXCEPT ![s] = <<>>] /\ dirty' = [dirty EXCEPT ![s] = {}]
  /\ link' \in {link, [link EXCEPT ![s] = <<>>]}
  /\ UNCHANGED <<cancelled, checking, gatewayVars, historyVars>>

\* The coordinator's Cancel, read by cancelled().
Cancel(s) ==
  /\ sess[s].step \in Running
  /\ cancelled' = cancelled \cup {s}
  /\ UNCHANGED <<sess, checking, faults, netVars, gatewayVars, historyVars>>

\* The Scan's task is cancelled: by its deadline, or by shutdown after the grace period.
TaskCancelled(s) ==
  /\ sess[s].step \in Running \ {"closing"}
  /\ Fault
  /\ \/ /\ sess[s].step \in {"asking", "probing", "pausing"}
        /\ Becomes(s, Cleanup(sess[s]))
        /\ UNCHANGED <<cancelled, inbox, dirty, historyVars>>
     \/ /\ sess[s].step \in {"freeing", "releasing"}
        /\ Becomes(s, [sess[s] EXCEPT !.step = "closing"])
        /\ UNCHANGED <<cancelled, inbox, dirty, historyVars>>
     \/ /\ sess[s].step = "admitted"
        /\ Gone({s})
  /\ UNCHANGED <<checking, link, gatewayVars>>
------------------------------------------------------------------------------
(* Home Assistant: the whole instance. *)

\* Mutant: a check refuses only while another check runs.
OnlyChecks(h) == h \notin checking

MayCheck(h) ==
  /\ h \notin checking
  /\ \A s \in Scans : Home[s] = h => sess[s].step \notin Running

CheckBegins(h) ==
  /\ MayCheck(h)
  /\ checking' = checking \cup {h}
  /\ UNCHANGED <<sess, cancelled, faults, netVars, gatewayVars, historyVars>>

CheckEnds(h) ==
  /\ h \in checking
  /\ checking' = checking \ {h}
  /\ UNCHANGED <<sess, cancelled, faults, netVars, gatewayVars, historyVars>>

\* A Home Assistant dies with its Scans and may start again.
Crash(h) ==
  LET dead == {s \in Scans : Home[s] = h /\ sess[s].step \in Running}
  IN /\ Fault
     /\ Gone(dead)
     /\ checking' = checking \ {h}
     /\ \E lost \in SUBSET dead : link' = [s \in Scans |-> IF s \in lost THEN <<>> ELSE link[s]]
     /\ UNCHANGED gatewayVars
------------------------------------------------------------------------------
Init ==
  /\ sess = [s \in Scans |-> Locals("new")]
  /\ cancelled = {} /\ checking = {} /\ faults = 0
  /\ link = [s \in Scans |-> <<>>] /\ inbox = [s \in Scans |-> <<>>]
  /\ dirty = [s \in Scans |-> {}]
  /\ sensor = [k \in Kinds |-> [c \in {Channel(b) : b \in Buses} |-> NoState]]
  /\ lease = [b \in Buses |-> [scan |-> NoScan, active |-> FALSE, reason |-> "unset"]]
  /\ flight = [b \in Buses |-> NoProbe]
  /\ reported = [s \in Scans |-> {}]
  /\ leaseEnd = [s \in Scans |-> "unset"]

GatewayNext ==
  \/ \E s \in Scans : \/ ProbeBusy(s) \/ ReleaseArrives(s)
                      \/ \E accepted \in BOOLEAN : ProbeArrives(s, accepted)
                      \/ \E kind \in Kinds : Flush(s, kind)
  \/ \E b \in Buses : \/ \E outcome \in Outcomes : ProbeEnds(b, outcome)
                      \/ \E reason \in EarlyReasons : LeaseExpires(b, reason)

ScanNext(s) ==
  \/ Admit(s) \/ Connect(s) \/ SendProbe(s) \/ Receive(s) \/ ProbeResumes(s)
  \/ NextAddress(s) \/ WaitExpires(s) \/ SendRelease(s) \/ ReleaseAnswered(s)
  \/ ReleaseExpires(s) \/ Disconnect(s) \/ ConnectionLost(s) \/ Cancel(s) \/ TaskCancelled(s)

Next ==
  \/ GatewayNext
  \/ \E s \in Scans : ScanNext(s)
  \/ \E h \in Homes : CheckBegins(h) \/ CheckEnds(h) \/ Crash(h)

Spec == Init /\ [][Next]_vars

\* The event loop runs what is ready, every wait has its timeout, an asyncio.Lock is
\* handed on in turn, and the Gateway handles the calls it receives.
Fairness ==
  /\ \A s \in Scans :
       /\ WF_vars(Connect(s)) /\ WF_vars(ProbeResumes(s)) /\ WF_vars(NextAddress(s))
       /\ WF_vars(WaitExpires(s)) /\ WF_vars(ReleaseExpires(s)) /\ WF_vars(Disconnect(s))
       /\ SF_vars(SendProbe(s)) /\ SF_vars(SendRelease(s))
       /\ WF_vars(ProbeBusy(s) \/ ReleaseArrives(s) \/ \E accepted \in BOOLEAN : ProbeArrives(s, accepted))
  /\ \A h \in Homes : WF_vars(CheckEnds(h))

FairSpec == Spec /\ Fairness
------------------------------------------------------------------------------
(* Properties. *)

AllLocals ==
  [step : Steps, address : Addresses, attempt : Attempts,
   pending : {"none", "waiting", "lost"} \cup Outcomes, result : Results \cup {NoState},
   requested : BOOLEAN,
   status : {"none", "active", "ended", "unconfirmed"}, reason : EndReasons \cup {"unset"},
   answer : {"none", "waiting", "set"}, answered : BOOLEAN,
   disconnected : BOOLEAN]

TypeOK ==
  /\ sess \in [Scans -> AllLocals]
  /\ cancelled \subseteq Scans /\ checking \subseteq Homes /\ faults \in 0..MaxFaults
  /\ dirty \in [Scans -> SUBSET Kinds]
  /\ \A b \in Buses : /\ lease[b].scan \in Scans \cup {NoScan}
                      /\ flight[b] \in Probes \cup {NoProbe}
                      /\ sensor["result"][Channel(b)] \in Results \cup {NoState}
                      /\ sensor["lease"][Channel(b)] \in LeaseMsgs \cup {NoState}
  /\ reported \in [Scans -> SUBSET [address : Addresses, result : Results]]
  /\ leaseEnd \in [Scans -> EndReasons \cup {"unset"}]

\* What HA reports for an address is the Gateway's result of that Scan's own probe of it,
\* never one that the sensor still shows from an earlier Scan or attempt, and an
\* address has one outcome.
OutcomesAreOwn ==
  \A s \in Scans : \A e, f \in reported[s] :
    /\ e.result.probe.scan = s /\ e.result.probe.address = e.address
    /\ e.address = f.address => e = f

\* The result a Scan waits for is on its way: in a message, or in the sensor's state
\* that the next batch sends.
OnTheWay(s) ==
  \E o \in Outcomes :
    LET result == [probe |-> Current(s), outcome |-> o]
    IN \/ \E i \in 1..Len(inbox[s]) : inbox[s][i].kind = "result" /\ inbox[s][i].msg = result
       \/ "result" \in dirty[s] /\ sensor["result"][Channel(BusOf[s])] = result

\* A batch never loses the result a Scan waits for to another probe that HA waits for
\* as well: only the late result of a probe that was given up can take its place.
ResultsDoNotCollide ==
  [][\A s \in Scans :
       Waiting(s) /\ OnTheWay(s) /\ Waiting(s)' /\ ~OnTheWay(s)' =>
         LET p == sensor'["result"][Channel(BusOf[s])].probe
         IN ~(Waiting(p.scan) /\ p = Current(p.scan))]_vars

\* A cancelled Scan calls no further probe, also when the cancellation came while it
\* was waiting for its Probe Slot.
NoProbeOnceCancelled ==
  [][\A s \in cancelled : Len(link'[s]) > Len(link[s]) =>
       link'[s][Len(link'[s])].call = "release"]_vars

\* A connected Scan returns.
Returns(s) == sess[s].step = "closing" /\ sess'[s].step = "done"

\* While nothing is lost, torn or forced, a Scan that returns leaves no lease behind:
\* its Bus polls again.
NothingHeldAfterReturn ==
  [][\A s \in Scans : Returns(s) /\ faults' = 0 =>
       ~(lease[BusOf[s]].active /\ lease[BusOf[s]].scan = s)]_vars

\* The reason HA reports for the end of a lease is the one for which the Bus ended it.
EndReasonTrue ==
  [][\A s \in Scans : Returns(s) /\ sess[s].status = "ended" => sess[s].reason = leaseEnd[s]]_vars

\* ADR 0007: HA reports that the Gateway ended the lease early, idle, at the hard limit
\* or superseded, once the Gateway has answered the release.
EarlyEndReported ==
  [][\A s \in Scans : Returns(s) /\ sess[s].answered /\ leaseEnd[s] \in EarlyReasons =>
       sess[s].status = "ended" /\ sess[s].reason = leaseEnd[s]]_vars

\* A check and a Scan of one Home Assistant never have the Gateway at the same time: a
\* Scan waits for a running check, and a check is refused while a Scan runs.
ChecksAlone ==
  \A s \in Scans : Home[s] \in checking => sess[s].step \notin Open

\* What a Scan reports is its own: outcomes, the end of its lease, and no check between.
ScansUndisturbed == [](OutcomesAreOwn /\ ChecksAlone) /\ EndReasonTrue

\* Every admitted Scan returns, whatever the Gateway and the connection do: no wait is
\* without an end, and the Probe Slot is handed on.
EveryScanReturns == \A s \in Scans : sess[s].step = "admitted" ~> sess[s].step = "done"
==============================================================================
