---------------------------- MODULE BridgeProofs ----------------------------
(***************************************************************************)
(* Proofs about BridgeSession, for all Scans, Buses, Home Assistants,      *)
(* addresses, retries and faults.                                          *)
(***************************************************************************)
EXTENDS BridgeSession, TLAPS

USE DEF Kinds, EarlyReasons, EndReasons, Outcomes, Open, Running

(* The inductive invariant. *)

Calls == [call : {"probe"}, probe : Probes] \cup [call : {"release"}]
States == [kind : {"result"}, msg : Results] \cup [kind : {"lease"}, msg : LeaseMsgs]
Leases == [scan : Scans \cup {NoScan}, active : BOOLEAN, reason : EndReasons \cup {"unset"}]
Channels == {Channel(b) : b \in Buses}

\* The locals of Scan s: its address and attempt are the request's, the result of its wait
\* is that of the probe it called, it waits only while it is connected, and there is a
\* next address while it pauses.
Fits(s, r) ==
  /\ r \in AllLocals
  /\ r.address \in 1..Last[s] /\ r.attempt \in 1..(Retries[s] + 1)
  /\ r.pending \in Outcomes =>
       /\ r.step = "probing" /\ r.result \in Results
       /\ r.result.probe = [scan |-> s, address |-> r.address, attempt |-> r.attempt]
  /\ r.pending = "waiting" => ~r.disconnected

Sound(s, r) == Fits(s, r) /\ (r.step = "pausing" => r.address < Last[s])

Sessions ==
  /\ sess \in [Scans -> AllLocals]
  /\ \A s \in Scans : Sound(s, sess[s])

\* The bounded state of Home Assistant.
Marks == cancelled \subseteq Scans /\ checking \subseteq Homes /\ faults \in 0..MaxFaults

\* Calls, states, sensors, leases and probes in flight.  A call is its own connection's,
\* a probe is in flight on its Scan's Bus, and what a connection has to send was published.
Wires ==
  /\ link \in [Scans -> Seq(Calls)] /\ inbox \in [Scans -> Seq(States)]
  /\ dirty \in [Scans -> SUBSET Kinds]
  /\ \A s \in Scans, i \in Nat :
       i \in 1..Len(link[s]) /\ link[s][i].call = "probe" => link[s][i].probe.scan = s

Sensors ==
  /\ sensor = [k \in Kinds |-> sensor[k]]
  /\ sensor["result"] \in [Channels -> Results \cup {NoState}]
  /\ sensor["lease"] \in [Channels -> LeaseMsgs \cup {NoState}]
  /\ \A s \in Scans :
       /\ "result" \in dirty[s] => sensor["result"][Channel(BusOf[s])] \in Results
       /\ "lease" \in dirty[s] => sensor["lease"][Channel(BusOf[s])] \in LeaseMsgs

BusTypes ==
  /\ lease \in [Buses -> Leases] /\ flight \in [Buses -> Probes \cup {NoProbe}]
  /\ \A b \in Buses : /\ lease[b].active => lease[b].scan \in Scans
                      /\ flight[b] # NoProbe => BusOf[flight[b].scan] = b
  /\ leaseEnd \in [Scans -> EndReasons \cup {"unset"}]

\* What a Scan reported is of its own probes, of addresses it has left behind.
Ahead(s, r, done) ==
  /\ \A e \in done : /\ e.address <= r.address
                     /\ r.step \in {"asking", "probing"} => e.address < r.address
  /\ r.step \in {"new", "admitted"} => done = {}

Own(s, done) ==
  /\ done \subseteq [address : Addresses, result : Results]
  /\ \A e \in done : e.result.probe.scan = s /\ e.result.probe.address = e.address
  /\ \A e, f \in done : e.address = f.address => e = f

Reports ==
  /\ reported = [s \in Scans |-> reported[s]]
  /\ \A s \in Scans : Ahead(s, sess[s], reported[s]) /\ Own(s, reported[s])

\* The steps in which a Scan holds its Probe Slot.
Holding == {"probing", "releasing"}

\* A Probe Slot has one holder.
OneHolder ==
  \A s, t \in Scans :
    Slot(s) = Slot(t) /\ sess[s].step \in Holding /\ sess[t].step \in Holding => s = t

HeldBy(s) == lease[BusOf[s]].active /\ lease[BusOf[s]].scan = s

\* While nothing was lost: a Scan that holds a lease, or may still get one, knows that it
\* owes the release, and the release it called is the last of its calls, so that nothing
\* is held once it arrived.
Owed(s, r, calls, held) ==
  /\ ~r.disconnected
  /\ r.step \in {"new", "admitted", "done"} => calls = <<>>
  /\ \A i \in 1..Len(calls) :
       /\ calls[i].call = "release" => i = Len(calls) /\ r.step \in {"releasing", "closing"}
       /\ calls[i].call = "probe" /\ Pauses[s] => r.requested
  /\ r.step \in {"releasing", "closing"} /\ r.requested =>
       \/ calls # <<>> /\ calls[Len(calls)].call = "release"
       \/ calls = <<>> /\ ~held
  /\ held => r.requested /\ r.step \in Open

ReleaseOwed == faults = 0 => \A s \in Scans : Owed(s, sess[s], link[s], HeldBy(s))

Inv ==
  Sessions /\ Marks /\ Wires /\ Sensors /\ BusTypes /\ Reports /\ ChecksAlone /\ OneHolder /\ ReleaseOwed

\* The inductive invariant implies the type invariant.
LEMMA InvTypes == Inv => TypeOK
<1> SUFFICES ASSUME Inv PROVE TypeOK
  OBVIOUS
<1> USE DEF Inv
<1>1. sess \in [Scans -> AllLocals] /\ dirty \in [Scans -> SUBSET Kinds]
  BY DEF Sessions, Wires
<1>2. cancelled \subseteq Scans /\ checking \subseteq Homes /\ faults \in 0..MaxFaults
  BY DEF Marks
<1>3. ASSUME NEW b \in Buses
      PROVE  /\ lease[b].scan \in Scans \cup {NoScan}
             /\ flight[b] \in Probes \cup {NoProbe}
             /\ sensor["result"][Channel(b)] \in Results \cup {NoState}
             /\ sensor["lease"][Channel(b)] \in LeaseMsgs \cup {NoState}
  BY DEF BusTypes, Leases, Sensors, Channels
<1>4. reported \in [Scans -> SUBSET [address : Addresses, result : Results]]
  BY DEF Reports, Own
<1>5. leaseEnd \in [Scans -> EndReasons \cup {"unset"}]
  BY DEF BusTypes
<1>6. QED
  BY <1>1, <1>2, <1>3, <1>4, <1>5 DEF TypeOK
------------------------------------------------------------------------------
(* The locals of one Scan. *)

\* The next address and attempt of a request are among those of all requests.
LEMMA RequestTypes ==
  ASSUME NEW s \in Scans
  PROVE  /\ Last[s] \in Nat \ {0} /\ Retries[s] \in Nat
         /\ 1..Last[s] \subseteq Addresses /\ 1..(Retries[s] + 1) \subseteq Attempts
  BY BridgeAssumption DEF Addresses, Attempts

\* The probe a Scan calls.
LEMMA CurrentType ==
  ASSUME NEW s \in Scans, Sound(s, sess[s])
  PROVE  Current(s) \in Probes /\ Current(s).scan = s /\ Current(s).address = sess[s].address
  BY DEF Sound, Fits, Current, Probes, AllLocals

\* The locals a Scan begins with, and ends with.
LEMMA LocalsSound ==
  ASSUME NEW s \in Scans, NEW step \in {"new", "done"}
  PROVE  Sound(s, Locals(step)) /\ Locals(step).step = step /\ ~Locals(step).disconnected
         /\ Locals(step).requested = FALSE /\ Locals(step).address = 1
<1>1. 1 \in Addresses /\ 1 \in Attempts /\ 1 \in 1..Last[s] /\ 1 \in 1..(Retries[s] + 1)
  BY RequestTypes
<1>2. Locals(step) \in AllLocals
  BY <1>1 DEF Locals, AllLocals, Steps
<1>3. QED
  BY <1>1, <1>2 DEF Locals, Sound, Fits

\* A report of UNCONFIRMED changes nothing but the lease's status.
LEMMA UnconfirmedSound ==
  ASSUME NEW s \in Scans, NEW r, Fits(s, r)
  PROVE  LET u == Unconfirmed(r)
         IN /\ Fits(s, u) /\ u.step = r.step /\ u.address = r.address /\ u.pending = r.pending
            /\ u.requested = r.requested /\ u.disconnected = r.disconnected
<1>1. CASE r.status = "ended"
  BY <1>1 DEF Unconfirmed
<1>2. CASE r.status # "ended"
  <2> DEFINE u == [r EXCEPT !.status = "unconfirmed", !.reason = "unset"]
  <2>1. r \in AllLocals
    BY DEF Sound, Fits
  <2>2. u \in AllLocals
    BY <2>1 DEF AllLocals
  <2>3. /\ u.step = r.step /\ u.address = r.address /\ u.attempt = r.attempt
        /\ u.requested = r.requested /\ u.disconnected = r.disconnected
        /\ u.pending = r.pending /\ u.result = r.result
    BY <2>1 DEF AllLocals
  <2>4. Unconfirmed(r) = u
    BY <1>2 DEF Unconfirmed
  <2>5. QED
    BY <2>2, <2>3, <2>4 DEF Sound, Fits
<1>3. QED
  BY <1>1, <1>2

\* A step of the locals that keeps address, attempt and result.
LEMMA StepSound ==
  ASSUME NEW s \in Scans, NEW r, Fits(s, r), r.pending \notin Outcomes,
         NEW step \in Steps \ {"pausing"}
  PROVE  LET u == [r EXCEPT !.step = step]
         IN /\ Sound(s, u) /\ u.step = step /\ u.address = r.address
            /\ u.requested = r.requested /\ u.disconnected = r.disconnected
  BY DEF Sound, Fits, AllLocals

\* The start of the finally block.
LEMMA CleanupSound ==
  ASSUME NEW s \in Scans, NEW r, Fits(s, r)
  PROVE  LET u == Cleanup(r)
         IN /\ Sound(s, u) /\ u.step \in {"closing", "freeing"} /\ u.address = r.address
            /\ u.requested = r.requested /\ u.disconnected = r.disconnected
            /\ u.step = "closing" => ~r.requested \/ r.disconnected
<1> DEFINE p == [r EXCEPT !.pending = "none", !.result = NoState]
<1>1. /\ Fits(s, p) /\ p.pending = "none" /\ p.step = r.step /\ p.address = r.address
      /\ p.requested = r.requested /\ p.disconnected = r.disconnected
  BY DEF Sound, Fits, AllLocals
<1>2. CASE ~r.requested
  <2>1. Cleanup(r) = [p EXCEPT !.step = "closing"]
    BY <1>2 DEF Cleanup
  <2>2. LET u == [p EXCEPT !.step = "closing"]
        IN /\ Sound(s, u) /\ u.step = "closing" /\ u.address = p.address
           /\ u.requested = p.requested /\ u.disconnected = p.disconnected
    <3> HIDE DEF p
    <3>1. QED
      BY <1>1, StepSound DEF Steps
  <2>3. QED
    BY <1>1, <1>2, <2>1, <2>2
<1>3. CASE r.requested /\ r.disconnected
  <2>1. Cleanup(r) = [Unconfirmed(p) EXCEPT !.step = "closing"]
    BY <1>3 DEF Cleanup
  <2>2. /\ Fits(s, Unconfirmed(p)) /\ Unconfirmed(p).pending = "none"
        /\ Unconfirmed(p).address = r.address
        /\ Unconfirmed(p).requested = r.requested /\ Unconfirmed(p).disconnected = r.disconnected
    BY <1>1, UnconfirmedSound
  <2>3. LET u == [Unconfirmed(p) EXCEPT !.step = "closing"]
        IN /\ Sound(s, u) /\ u.step = "closing" /\ u.address = Unconfirmed(p).address
           /\ u.requested = Unconfirmed(p).requested
           /\ u.disconnected = Unconfirmed(p).disconnected
    <3> HIDE DEF p
    <3>1. QED
      BY <2>2, StepSound DEF Steps
  <2>4. QED
    BY <1>3, <2>1, <2>2, <2>3
<1>4. CASE r.requested /\ ~r.disconnected
  <2>1. Cleanup(r) = [p EXCEPT !.step = "freeing", !.answer = "waiting"]
    BY <1>4 DEF Cleanup
  <2> DEFINE u == [p EXCEPT !.step = "freeing", !.answer = "waiting"]
  <2>2. p \in AllLocals
    BY <1>1 DEF Sound, Fits
  <2>3. /\ u \in AllLocals /\ u.step = "freeing" /\ u.address = p.address /\ u.attempt = p.attempt
        /\ u.requested = p.requested /\ u.disconnected = p.disconnected
        /\ u.pending = p.pending /\ u.result = p.result
    <3> HIDE DEF p, Outcomes, EndReasons
    <3>0. "freeing" \in Steps /\ "waiting" \in {"none", "waiting", "set"}
      BY DEF Steps
    <3>1. u \in AllLocals
      BY <2>2, <3>0 DEF AllLocals
    <3>2. /\ u.step = "freeing" /\ u.address = p.address /\ u.attempt = p.attempt
          /\ u.requested = p.requested /\ u.disconnected = p.disconnected
          /\ u.pending = p.pending /\ u.result = p.result
      BY <2>2 DEF AllLocals
    <3>3. QED
      BY <3>1, <3>2
  <2>4. Sound(s, u)
    <3> HIDE DEF p
    <3>1. QED
      BY <1>1, <2>3 DEF Sound, Fits
  <2>5. QED
    BY <1>1, <1>4, <2>1, <2>3, <2>4
<1>5. QED
  BY <1>2, <1>3, <1>4

\* The top of the attempt loop.
LEMMA NextAttemptSound ==
  ASSUME NEW s \in Scans, NEW r, Fits(s, r), r.pending \notin Outcomes
  PROVE  LET u == NextAttempt(s, r)
         IN /\ Sound(s, u) /\ u.step \in {"asking", "closing", "freeing"} /\ u.address = r.address
            /\ u.requested = r.requested /\ u.disconnected = r.disconnected
            /\ u.step = "closing" => ~r.requested \/ r.disconnected
<1>1. CASE s \in cancelled
  BY <1>1, CleanupSound DEF NextAttempt
<1>2. CASE s \notin cancelled
  BY <1>2, StepSound DEF NextAttempt, Steps
<1>3. QED
  BY <1>1, <1>2
------------------------------------------------------------------------------
(* What a step of one Scan keeps. *)

\* Locals, checks and Probe Slots, when one Scan moves: it opens its connection only
\* without a check, and takes its slot only if it is free.
LEMMA MoveFacts ==
  ASSUME Inv, NEW s \in Scans, NEW r, Becomes(s, r), Sound(s, r), checking' = checking,
         r.step \in Open => sess[s].step \in Open \/ Home[s] \notin checking,
         r.step \in Holding => sess[s].step \in Holding \/ SlotFree(s)
  PROVE  /\ sess'[s] = r /\ \A t \in Scans \ {s} : sess'[t] = sess[t]
         /\ Sessions' /\ ChecksAlone' /\ OneHolder'
<1>1. sess \in [Scans -> AllLocals] /\ sess' = [sess EXCEPT ![s] = r] /\ r \in AllLocals
  BY DEF Inv, Sessions, Becomes, Sound, Fits
<1>2. sess'[s] = r /\ \A t \in Scans \ {s} : sess'[t] = sess[t]
  BY <1>1
<1>3. Sessions'
  <2>1. sess' \in [Scans -> AllLocals]
    BY <1>1
  <2>2. \A t \in Scans : Sound(t, sess[t])
    BY DEF Inv, Sessions
  <2>3. ASSUME NEW t \in Scans PROVE Sound(t, sess'[t])
    <3>1. CASE t = s
      BY <3>1, <1>2
    <3>2. CASE t # s
      <4>1. sess'[t] = sess[t] /\ Sound(t, sess[t])
        BY <3>2, <1>2, <2>2
      <4>2. QED
        BY <4>1
    <3>3. QED
      BY <3>1, <3>2
  <2>4. QED
    BY <2>1, <2>3 DEF Sessions, Sound, Fits
<1>4. ChecksAlone'
  BY <1>2 DEF Inv, ChecksAlone
<1>5. OneHolder'
  <2> SUFFICES ASSUME NEW t \in Scans, NEW u \in Scans, Slot(t) = Slot(u), t # u,
                      sess'[t].step \in Holding, sess'[u].step \in Holding
               PROVE  FALSE
    BY DEF OneHolder, Slot, Channel
  <2>1. \A v \in Scans, w \in Scans :
          Slot(v) = Slot(w) /\ sess[v].step \in Holding /\ sess[w].step \in Holding => v = w
    BY DEF Inv, OneHolder
  <2>2. SlotFree(s) => \A v \in Scans : Slot(v) = Slot(s) => sess[v].step \notin Holding
    BY DEF SlotFree, Holding
  <2>3. QED
    BY <1>2, <2>1, <2>2
<1>6. QED
  BY <1>2, <1>3, <1>4, <1>5

\* Reports, when one Scan moves and reports nothing.
LEMMA ReportsKept ==
  ASSUME Inv, NEW s \in Scans, NEW r, Becomes(s, r), Ahead(s, r, reported[s]), reported' = reported
  PROVE  Reports'
<1>1. sess' = [sess EXCEPT ![s] = r] /\ sess \in [Scans -> AllLocals]
  BY DEF Inv, Sessions, Becomes
<1>2. \A t \in Scans : Ahead(t, sess'[t], reported'[t]) /\ Own(t, reported'[t])
  <2>1. \A t \in Scans : Ahead(t, sess[t], reported[t]) /\ Own(t, reported[t])
    BY DEF Inv, Reports
  <2>2. sess'[s] = r /\ \A t \in Scans \ {s} : sess'[t] = sess[t]
    BY <1>1
  <2>3. \A t \in Scans : Ahead(t, sess'[t], reported[t])
    BY <2>1, <2>2
  <2>4. QED
    BY <2>1, <2>3
<1>3. reported' = [t \in Scans |-> reported'[t]]
  BY DEF Inv, Reports
<1>4. QED
  BY <1>2, <1>3 DEF Reports, Ahead, Own

\* The invariant, when one Scan moves; what it owes is checked for its new locals and
\* the calls it leaves on the way.
LEMMA MoveInv ==
  ASSUME Inv, NEW s \in Scans, NEW r, Becomes(s, r), Sound(s, r),
         r.step \in Open => sess[s].step \in Open \/ Home[s] \notin checking,
         r.step \in Holding => sess[s].step \in Holding \/ SlotFree(s),
         checking' = checking, lease' = lease, Marks', Wires', Sensors', BusTypes', Reports',
         \A t \in Scans \ {s} : link'[t] = link[t],
         faults' = 0 => faults = 0 /\ Owed(s, r, link'[s], HeldBy(s))
  PROVE  Inv'
<1>1. /\ sess'[s] = r /\ \A t \in Scans \ {s} : sess'[t] = sess[t]
      /\ Sessions' /\ ChecksAlone' /\ OneHolder'
  BY MoveFacts
<1>2. ReleaseOwed'
  <2> SUFFICES ASSUME faults' = 0, NEW t \in Scans
               PROVE  Owed(t, sess'[t], link'[t], HeldBy(t)')
    BY DEF ReleaseOwed, Owed
  <2>1. HeldBy(t)' = HeldBy(t)
    BY DEF HeldBy
  <2>2. t # s => Owed(t, sess[t], link[t], HeldBy(t))
    BY DEF Inv, ReleaseOwed
  <2>3. QED
    BY <1>1, <2>1, <2>2
<1>3. QED
  BY <1>1, <1>2 DEF Inv

\* What is not changed keeps its types.
LEMMA UnchangedTypes ==
  ASSUME Inv
  PROVE  /\ UNCHANGED <<link, inbox, dirty>> => Wires'
         /\ UNCHANGED <<sensor, dirty>> => Sensors'
         /\ UNCHANGED <<lease, flight, leaseEnd>> => BusTypes'
         /\ UNCHANGED <<cancelled, checking, faults>> => Marks'
<1>1. UNCHANGED <<link, inbox, dirty>> => Wires'
  BY DEF Inv, Wires
<1>2. UNCHANGED <<sensor, dirty>> => Sensors'
  BY DEF Inv, Sensors
<1>3. UNCHANGED <<lease, flight, leaseEnd>> => BusTypes'
  BY DEF Inv, BusTypes
<1>4. UNCHANGED <<cancelled, checking, faults>> => Marks'
  BY DEF Inv, Marks
<1>5. QED
  BY <1>1, <1>2, <1>3, <1>4

\* Before it releases, a Scan has called no release: what it owes stays as it goes on.
LEMMA OwedGoesOn ==
  ASSUME NEW s \in Scans, NEW q, NEW r, NEW calls, NEW held, Owed(s, q, calls, held),
         q.step \in {"asking", "probing", "pausing", "freeing"},
         r.requested = q.requested, r.disconnected = q.disconnected,
         \/ r.step \in {"asking", "probing", "pausing", "freeing"}
         \/ r.step = "closing" /\ (~r.requested \/ r.disconnected)
  PROVE  Owed(s, r, calls, held)
  BY DEF Owed

\* The end of the release changes nothing that is owed.
LEMMA OwedCloses ==
  ASSUME NEW s \in Scans, NEW q, NEW r, NEW calls, NEW held, Owed(s, q, calls, held),
         q.step = "releasing", r.requested = q.requested, r.disconnected = q.disconnected,
         r.step \in {"releasing", "closing"}
  PROVE  Owed(s, r, calls, held)
  BY DEF Owed

\* Each Scan by itself.
LEMMA InvOf ==
  ASSUME Inv, NEW s \in Scans
  PROVE  /\ sess[s] \in AllLocals /\ Sound(s, sess[s])
         /\ sess[s].step # "probing" => sess[s].pending \notin Outcomes
         /\ Ahead(s, sess[s], reported[s]) /\ Own(s, reported[s])
         /\ faults = 0 => Owed(s, sess[s], link[s], HeldBy(s))
         /\ faults \in Nat /\ link[s] \in Seq(Calls) /\ inbox[s] \in Seq(States)
<1>1. faults \in Nat
  BY BridgeAssumption DEF Inv, Marks
<1>2. sess[s] \in AllLocals /\ Sound(s, sess[s])
  BY DEF Inv, Sessions
<1>3. QED
  BY <1>1, <1>2 DEF Inv, Sessions, Reports, ReleaseOwed, Wires, Sound, Fits
\* A Scan that waits for no result moves to another step.
LEMMA StepOf ==
  ASSUME Inv, NEW s \in Scans, sess[s].step # "probing", NEW step \in Steps \ {"pausing"}
  PROVE  LET u == [sess[s] EXCEPT !.step = step]
         IN /\ Sound(s, u) /\ u.step = step /\ u.address = sess[s].address
            /\ u.requested = sess[s].requested /\ u.disconnected = sess[s].disconnected
<1>1. Fits(s, sess[s]) /\ sess[s].pending \notin Outcomes
  BY InvOf DEF Sound
<1>2. QED
  BY <1>1, StepSound
------------------------------------------------------------------------------
(* The steps of a Scan. *)

\* A Scan that is admitted owes nothing yet: its Bus has no other running Scan.
LEMMA AdmitInv == ASSUME Inv, NEW s \in Scans, Admit(s) PROVE Inv'
<1> DEFINE r == [sess[s] EXCEPT !.step = "admitted"]
<1>1. /\ sess[s].step = "new" /\ Becomes(s, r)
      /\ UNCHANGED <<cancelled, checking, faults, link, inbox, dirty, sensor, lease, flight, reported, leaseEnd>>
  BY DEF Admit, netVars, gatewayVars, historyVars
<1>2. /\ Sound(s, r) /\ r.step = "admitted" /\ r.address = sess[s].address
      /\ r.requested = sess[s].requested /\ r.disconnected = sess[s].disconnected
  <2>1. sess[s].step # "probing" /\ "admitted" \in Steps \ {"pausing"}
    BY <1>1 DEF Steps
  <2>2. QED
    BY <2>1, StepOf
<1> HIDE DEF r
<1>3. Ahead(s, r, reported[s])
  BY <1>1, <1>2, InvOf DEF Ahead
<1>4. faults = 0 => Owed(s, r, link'[s], HeldBy(s))
  BY <1>1, <1>2, InvOf DEF Owed
<1>5. Reports'
  BY <1>1, <1>3, ReportsKept
<1>6. Marks' /\ Wires' /\ Sensors' /\ BusTypes'
  BY <1>1, UnchangedTypes
<1>7. QED
  BY <1>1, <1>2, <1>4, <1>5, <1>6, MoveInv DEF Holding

\* A Scan that goes on, and reports, calls and is sent nothing.
LEMMA GoesOnInv ==
  ASSUME Inv, NEW s \in Scans, NEW r, Becomes(s, r), Sound(s, r), sess[s].step \in Open,
         r.step \in Open, r.step \in Holding => sess[s].step \in Holding,
         Ahead(s, r, reported[s]),
         faults' = 0 => faults = 0 /\ Owed(s, r, link[s], HeldBy(s)),
         UNCHANGED <<checking, link, dirty, sensor, lease, flight, reported, leaseEnd>>,
         Marks', Wires'
  PROVE  Inv'
<1>1. Reports'
  BY ReportsKept
<1>2. Sensors' /\ BusTypes'
  BY UnchangedTypes
<1>3. QED
  BY <1>1, <1>2, MoveInv

\* The finally block is entered from the attempt loop.
LEMMA CleanInv ==
  ASSUME Inv, NEW s \in Scans, sess[s].step \in {"asking", "probing", "pausing"},
         Becomes(s, Cleanup(sess[s])),
         UNCHANGED <<checking, link, dirty, inbox, sensor, lease, flight, reported, leaseEnd>>,
         faults' = faults \/ Fault, Marks'
  PROVE  Inv'
<1> DEFINE r == Cleanup(sess[s])
<1>1. Fits(s, sess[s])
  BY InvOf DEF Sound
<1>2. /\ Sound(s, r) /\ r.step \in {"closing", "freeing"} /\ r.address = sess[s].address
      /\ r.requested = sess[s].requested /\ r.disconnected = sess[s].disconnected
      /\ r.step = "closing" => ~r.requested \/ r.disconnected
  BY <1>1, CleanupSound
<1> HIDE DEF r
<1>3. Ahead(s, r, reported[s])
  BY <1>2, InvOf DEF Ahead
<1>4. faults' = 0 => faults = 0 /\ Owed(s, r, link[s], HeldBy(s))
  BY <1>2, InvOf, OwedGoesOn DEF Fault
<1>5. Wires'
  BY UnchangedTypes
<1>6. Becomes(s, r)
  BY DEF r
<1>7. QED
  BY <1>2, <1>3, <1>4, <1>5, <1>6, GoesOnInv DEF Holding

\* The next address follows on those the Scan reported.
LEMMA NextAddressInv == ASSUME Inv, NEW s \in Scans, NextAddress(s) PROVE Inv'
<1> DEFINE q == [sess[s] EXCEPT !.address = @ + 1, !.attempt = 1]
           r == NextAttempt(s, q)
<1>1. /\ sess[s].step = "pausing" /\ Becomes(s, r)
      /\ UNCHANGED <<cancelled, checking, faults, link, inbox, dirty, sensor, lease, flight, reported, leaseEnd>>
  BY DEF NextAddress, netVars, gatewayVars, historyVars
<1>2. sess[s] \in AllLocals /\ sess[s].address \in 1..Last[s] /\ sess[s].address < Last[s]
  BY <1>1, InvOf DEF Sound, Fits
<1>3. /\ q.address = sess[s].address + 1 /\ q.attempt = 1
      /\ q.requested = sess[s].requested /\ q.disconnected = sess[s].disconnected
  BY <1>2 DEF AllLocals
<1>4. q.address \in 1..Last[s] /\ 1 \in 1..(Retries[s] + 1)
  BY <1>2, <1>3, RequestTypes
<1>5. q.address \in Addresses /\ 1 \in Attempts
  BY <1>4, RequestTypes
<1>6. q \in AllLocals
  BY <1>2, <1>3, <1>5 DEF AllLocals
<1>7. q.pending = sess[s].pending /\ q.pending \notin Outcomes
  BY <1>1, <1>2, InvOf DEF AllLocals
<1> HIDE DEF q
<1>8. Fits(s, q)
  BY <1>3, <1>4, <1>6, <1>7, InvOf DEF Fits, Sound
<1>9. /\ Sound(s, r) /\ r.step \in {"asking", "closing", "freeing"}
      /\ r.address = sess[s].address + 1
      /\ r.requested = sess[s].requested /\ r.disconnected = sess[s].disconnected
      /\ r.step = "closing" => ~r.requested \/ r.disconnected
  BY <1>3, <1>7, <1>8, NextAttemptSound
<1> HIDE DEF r
<1>10. Ahead(s, r, reported[s])
  <2>1. \A e \in reported[s] : e.address \in Nat /\ e.address <= sess[s].address
    BY InvOf DEF Ahead, Own, Addresses
  <2>2. QED
    BY <1>2, <1>9, <2>1 DEF Ahead
<1>11. faults = 0 => Owed(s, r, link[s], HeldBy(s))
  BY <1>1, <1>9, InvOf, OwedGoesOn
<1>12. Marks' /\ Wires'
  BY <1>1, UnchangedTypes
<1>13. QED
  BY <1>1, <1>9, <1>10, <1>11, <1>12, GoesOnInv DEF Holding

\* A Scan that gives its probe up cleans up, and reports nothing.
LEMMA WaitExpiresInv == ASSUME Inv, NEW s \in Scans, WaitExpires(s) PROVE Inv'
<1> DEFINE r == Cleanup(sess[s])
<1>1. /\ sess[s].step = "probing" /\ Becomes(s, r)
      /\ UNCHANGED <<cancelled, checking, faults, link, inbox, dirty, sensor, lease, flight, reported, leaseEnd>>
  BY DEF WaitExpires, netVars, gatewayVars, historyVars
<1>2. Marks'
  BY <1>1, UnchangedTypes
<1>3. QED
  BY <1>1, <1>2, CleanInv

\* The release's answer, or the second that passed without one.
LEMMA ReleaseOverInv ==
  ASSUME Inv, NEW s \in Scans, ReleaseAnswered(s) \/ ReleaseExpires(s)
  PROVE  Inv'
<1>1. /\ sess[s].step = "releasing"
      /\ UNCHANGED <<cancelled, checking, faults, link, inbox, dirty, sensor, lease, flight, reported, leaseEnd>>
  BY DEF ReleaseAnswered, ReleaseExpires, netVars, gatewayVars, historyVars
<1>2. Fits(s, sess[s]) /\ sess[s].pending \notin Outcomes /\ sess[s] \in AllLocals
  BY <1>1, InvOf DEF Sound
<1>3. PICK r : /\ Becomes(s, r) /\ Sound(s, r) /\ r.step = "closing" /\ r.address = sess[s].address
               /\ r.requested = sess[s].requested /\ r.disconnected = sess[s].disconnected
  <2>1. CASE ReleaseAnswered(s)
    <3> DEFINE r == [sess[s] EXCEPT !.step = "closing", !.answered = TRUE]
    <3>1. Becomes(s, r)
      BY <2>1 DEF ReleaseAnswered
    <3>2. r \in AllLocals
      BY <1>2 DEF AllLocals, Steps
    <3>3. /\ r.step = "closing" /\ r.address = sess[s].address /\ r.attempt = sess[s].attempt
          /\ r.requested = sess[s].requested /\ r.disconnected = sess[s].disconnected
          /\ r.pending = sess[s].pending
      BY <1>2 DEF AllLocals
    <3> HIDE DEF r
    <3>4. Sound(s, r)
      BY <1>2, <3>2, <3>3 DEF Sound, Fits
    <3>5. QED
      BY <3>1, <3>3, <3>4
  <2>2. CASE ReleaseExpires(s)
    <3> DEFINE u == Unconfirmed(sess[s])
    <3>1. Becomes(s, [u EXCEPT !.step = "closing"])
      BY <2>2 DEF ReleaseExpires
    <3>2. /\ Fits(s, u) /\ u.address = sess[s].address /\ u.pending \notin Outcomes
          /\ u.requested = sess[s].requested /\ u.disconnected = sess[s].disconnected
      BY <1>2, UnconfirmedSound
    <3> HIDE DEF u
    <3>3. "closing" \in Steps \ {"pausing"}
      BY DEF Steps
    <3>4. LET r == [u EXCEPT !.step = "closing"]
          IN /\ Sound(s, r) /\ r.step = "closing" /\ r.address = u.address
             /\ r.requested = u.requested /\ r.disconnected = u.disconnected
      BY <3>2, <3>3, StepSound
    <3>5. QED
      BY <3>1, <3>2, <3>4
  <2>3. QED
    BY <2>1, <2>2
<1>4. Ahead(s, r, reported[s])
  BY <1>1, <1>3, InvOf DEF Ahead
<1>5. faults = 0 => Owed(s, r, link[s], HeldBy(s))
  BY <1>1, <1>3, InvOf, OwedCloses
<1>6. Marks' /\ Wires'
  BY <1>1, UnchangedTypes
<1>7. QED
  BY <1>1, <1>3, <1>4, <1>5, <1>6, GoesOnInv DEF Holding

\* The locals after a message about the lease.
LEMMA TellType ==
  ASSUME NEW q \in AllLocals, NEW st \in {"none", "active", "ended", "unconfirmed"},
         NEW why \in EndReasons \cup {"unset"}, NEW a \in {"none", "waiting", "set"}
  PROVE  [q EXCEPT !.status = st, !.reason = why, !.answer = a] \in AllLocals
<1> DEFINE u == [q EXCEPT !.status = st, !.reason = why, !.answer = a]
<1> HIDE DEF Outcomes, EndReasons
<1>1. u \in AllLocals
  BY DEF AllLocals
<1>2. QED
  BY <1>1

\* Messages of the Gateway: the result that is waited for, the state of the own lease, or
\* anything else.
LEMMA ReceiveInv == ASSUME Inv, NEW s \in Scans, Receive(s) PROVE Inv'
<1> DEFINE state == Head(inbox[s])
<1>1. /\ sess[s].step \in Open /\ inbox[s] # <<>> /\ inbox' = [inbox EXCEPT ![s] = Tail(@)]
      /\ UNCHANGED <<cancelled, checking, faults, link, dirty, sensor, lease, flight, reported, leaseEnd>>
  BY DEF Receive, Connected, gatewayVars, historyVars
<1>2. sess[s] \in AllLocals /\ Sound(s, sess[s]) /\ inbox[s] \in Seq(States)
  BY InvOf
<1>3. state \in States /\ Tail(inbox[s]) \in Seq(States)
  BY <1>1, <1>2
<1>4. PICK r : /\ Becomes(s, r) /\ Sound(s, r) /\ r.step = sess[s].step /\ r.address = sess[s].address
               /\ r.requested = sess[s].requested /\ r.disconnected = sess[s].disconnected
  <2>1. CASE Answers(s, state) /\ Becomes(s, [sess[s] EXCEPT !.pending = state.msg.outcome, !.result = state.msg])
    <3> DEFINE r == [sess[s] EXCEPT !.pending = state.msg.outcome, !.result = state.msg]
    <3>1. state.msg \in Results /\ sess[s].step = "probing" /\ state.msg.probe = Current(s)
      BY <1>3, <2>1 DEF Answers, Waiting, Correlated, States
    <3>2. state.msg.outcome \in Outcomes
      BY <3>1 DEF Results
    <3>3. r \in AllLocals
      BY <1>2, <3>1, <3>2 DEF AllLocals
    <3>4. /\ r.step = sess[s].step /\ r.address = sess[s].address /\ r.attempt = sess[s].attempt
          /\ r.requested = sess[s].requested /\ r.disconnected = sess[s].disconnected
          /\ r.pending = state.msg.outcome /\ r.result = state.msg
      BY <1>2 DEF AllLocals
    <3>5. Becomes(s, r)
      BY <2>1
    <3> HIDE DEF r, state
    <3>6. Sound(s, r)
      BY <1>2, <3>1, <3>2, <3>3, <3>4 DEF Sound, Fits, Current
    <3>7. QED
      BY <3>4, <3>5, <3>6
  <2>2. CASE /\ Tells(s, state)
             /\ Becomes(s, [sess[s] EXCEPT
                  !.status = state.msg.state, !.reason = state.msg.reason,
                  !.answer = IF @ = "waiting" /\ state.msg.state # "active" THEN "set" ELSE @])
    <3> DEFINE r == [sess[s] EXCEPT
                      !.status = state.msg.state, !.reason = state.msg.reason,
                      !.answer = IF @ = "waiting" /\ state.msg.state # "active" THEN "set" ELSE @]
    <3>1. state.msg \in LeaseMsgs
      BY <1>3, <2>2 DEF Tells, States
    <3>2. /\ state.msg.state \in {"active", "ended", "none"}
          /\ state.msg.reason \in EndReasons \cup {"unset"}
      BY <3>1 DEF LeaseMsgs
    <3>3. Becomes(s, r)
      BY <2>2
    <3> DEFINE a == IF sess[s].answer = "waiting" /\ state.msg.state # "active" THEN "set"
                    ELSE sess[s].answer
               st == state.msg.state
               why == state.msg.reason
    <3>a. a \in {"none", "waiting", "set"}
      BY <1>2 DEF AllLocals
    <3>b. r = [sess[s] EXCEPT !.status = st, !.reason = why, !.answer = a]
      OBVIOUS
    <3>c. st \in {"none", "active", "ended", "unconfirmed"} /\ why \in EndReasons \cup {"unset"}
      BY <3>2
    <3> HIDE DEF state, a, st, why
    <3>4. r \in AllLocals
      <4>1. [sess[s] EXCEPT !.status = st, !.reason = why, !.answer = a] \in AllLocals
        BY <1>2, <3>a, <3>c, TellType
      <4>2. QED
        BY <4>1, <3>b
    <3>5. /\ r.step = sess[s].step /\ r.address = sess[s].address /\ r.attempt = sess[s].attempt
          /\ r.requested = sess[s].requested /\ r.disconnected = sess[s].disconnected
          /\ r.pending = sess[s].pending /\ r.result = sess[s].result
      BY <1>2 DEF AllLocals
    <3> HIDE DEF r
    <3>6. Sound(s, r)
      BY <1>2, <3>4, <3>5 DEF Sound, Fits
    <3>7. QED
      BY <3>3, <3>5, <3>6
  <2>3. CASE UNCHANGED sess
    <3>1. Becomes(s, sess[s])
      BY <2>3 DEF Inv, Sessions, Becomes
    <3>2. QED
      BY <1>2, <3>1
  <2>4. QED
    BY <2>1, <2>2, <2>3 DEF Receive
<1>5. Ahead(s, r, reported[s])
  BY <1>4, InvOf DEF Ahead
<1>6. faults = 0 => Owed(s, r, link[s], HeldBy(s))
  BY <1>1, <1>4, InvOf DEF Owed
<1>7. Marks' /\ Wires'
  <2>1. inbox' \in [Scans -> Seq(States)]
    BY <1>1, <1>3 DEF Inv, Wires
  <2>2. QED
    BY <1>1, <2>1, UnchangedTypes DEF Inv, Wires
<1>8. QED
  BY <1>1, <1>4, <1>5, <1>6, <1>7, GoesOnInv

\* Steps that change the invariant's variables as one Scan's part of them.
LEMMA CancelInv == ASSUME Inv, NEW s \in Scans, Cancel(s) PROVE Inv'
<1>1. /\ cancelled' = cancelled \cup {s}
      /\ UNCHANGED <<sess, checking, faults, link, inbox, dirty, sensor, lease, flight, reported, leaseEnd>>
  BY DEF Cancel, netVars, gatewayVars, historyVars
<1>2. Marks'
  BY <1>1 DEF Inv, Marks
<1>3. Wires' /\ Sensors' /\ BusTypes'
  BY <1>1, UnchangedTypes
<1>4. Sessions' /\ Reports' /\ ChecksAlone' /\ OneHolder' /\ ReleaseOwed'
  BY <1>1 DEF Inv, Sessions, Reports, Ahead, Own, ChecksAlone, OneHolder, ReleaseOwed, HeldBy, Slot, Channel,
             Sound, Fits, Owed
<1>5. QED
  BY <1>2, <1>3, <1>4 DEF Inv

\* The locals of a Scan that called a probe.
LEMMA ProbingType ==
  ASSUME NEW q \in AllLocals
  PROVE  [q EXCEPT !.step = "probing", !.pending = "waiting"] \in AllLocals
  BY DEF AllLocals, Steps

\* The locals of a Scan whose connection was lost.
LEMMA LostType ==
  ASSUME NEW q \in AllLocals, NEW p \in {"none", "waiting", "lost"} \cup Outcomes
  PROVE  [q EXCEPT !.disconnected = TRUE, !.pending = p] \in AllLocals
<1> HIDE DEF Outcomes, EndReasons
<1>1. QED
  BY DEF AllLocals

\* The locals of a Scan that tries a probe again, and of one between two addresses.
LEMMA AttemptType ==
  ASSUME NEW q \in AllLocals, q.attempt + 1 \in Attempts
  PROVE  [q EXCEPT !.attempt = @ + 1, !.pending = "none", !.result = NoState] \in AllLocals
<1> HIDE DEF Outcomes, EndReasons
<1>1. QED
  BY DEF AllLocals

\* The locals after an outcome that was not the last.
LEMMA PausingType ==
  ASSUME NEW q \in AllLocals
  PROVE  [q EXCEPT !.step = "pausing", !.pending = "none", !.result = NoState] \in AllLocals
<1> HIDE DEF Outcomes, EndReasons
<1>1. QED
  BY DEF AllLocals, Steps

\* One more call on its way.
LEMMA CallAdded ==
  ASSUME Inv, NEW s \in Scans, NEW c \in Calls, c.call = "probe" => c.probe.scan = s,
         link' = [link EXCEPT ![s] = Append(@, c)], UNCHANGED <<inbox, dirty>>
  PROVE  Wires' /\ link'[s] = Append(link[s], c) /\ \A t \in Scans \ {s} : link'[t] = link[t]
<1>1. link \in [Scans -> Seq(Calls)]
  BY DEF Inv, Wires
<1>2. link'[s] = Append(link[s], c) /\ \A t \in Scans \ {s} : link'[t] = link[t]
  BY <1>1
<1>3. link' \in [Scans -> Seq(Calls)]
  BY <1>1
<1>4. ASSUME NEW t \in Scans, NEW i \in Nat, i \in 1..Len(link'[t]), link'[t][i].call = "probe"
      PROVE  link'[t][i].probe.scan = t
  <2>1. CASE t = s /\ i = Len(link[s]) + 1
    BY <1>1, <1>2, <1>4, <2>1
  <2>2. CASE t # s \/ i # Len(link[s]) + 1
    <3>1. link'[t][i] = link[t][i] /\ i \in 1..Len(link[t])
      BY <1>1, <1>2, <1>4, <2>2
    <3>2. QED
      BY <1>4, <3>1 DEF Inv, Wires
  <2>3. QED
    BY <2>1, <2>2
<1>5. QED
  BY <1>2, <1>3, <1>4 DEF Inv, Wires

\* The probe is called with the release owed from then on.
LEMMA SendProbeInv == ASSUME Inv, NEW s \in Scans, SendProbe(s) PROVE Inv'
<1> DEFINE q == [sess[s] EXCEPT !.requested = RequestedAfter(s)]
<1>1. /\ sess[s].step = "asking" /\ SlotFree(s)
      /\ UNCHANGED <<cancelled, checking, faults, inbox, dirty, sensor, lease, flight, reported, leaseEnd>>
  BY DEF SendProbe, gatewayVars, historyVars
<1>2. sess[s] \in AllLocals /\ Sound(s, sess[s]) /\ sess[s].pending \notin Outcomes
  BY <1>1, InvOf
<1>3. RequestedAfter(s) \in BOOLEAN /\ RequestedAfter(s) = (sess[s].requested \/ Pauses[s])
  BY <1>2, BridgeAssumption DEF RequestedAfter, AllLocals
<1>4. /\ q \in AllLocals /\ q.step = "asking" /\ q.address = sess[s].address
      /\ q.attempt = sess[s].attempt /\ q.requested = RequestedAfter(s)
      /\ q.disconnected = sess[s].disconnected /\ q.pending = sess[s].pending
  BY <1>1, <1>2, <1>3 DEF AllLocals
<1>5. Marks' /\ Sensors' /\ BusTypes'
  BY <1>1, UnchangedTypes
<1>6. CASE Becomes(s, Cleanup(sess[s])) /\ UNCHANGED link
  BY <1>1, <1>5, <1>6, CleanInv
<1>7. CASE sess[s].disconnected /\ Becomes(s, Cleanup(q)) /\ UNCHANGED link
  <2> DEFINE r == Cleanup(q)
  <2> HIDE DEF q
  <2>1. Fits(s, q)
    BY <1>2, <1>4 DEF Sound, Fits
  <2>2. Sound(s, r) /\ r.step \in {"closing", "freeing"} /\ r.address = sess[s].address
    BY <1>4, <2>1, CleanupSound
  <2>3. Becomes(s, r)
    BY <1>7
  <2> HIDE DEF r
  <2>4. Ahead(s, r, reported[s])
    BY <2>2, InvOf DEF Ahead
  <2>5. faults # 0
    BY <1>7, InvOf DEF Owed
  <2>6. Wires'
    BY <1>1, <1>7, UnchangedTypes
  <2>7. QED
    BY <1>1, <1>5, <1>7, <2>2, <2>3, <2>4, <2>5, <2>6, GoesOnInv DEF Holding
<1>8. CASE /\ ~sess[s].disconnected
           /\ Becomes(s, [q EXCEPT !.step = "probing", !.pending = "waiting"])
           /\ link' = [link EXCEPT ![s] = Append(@, [call |-> "probe", probe |-> Current(s)])]
  <2> DEFINE r == [q EXCEPT !.step = "probing", !.pending = "waiting"]
             c == [call |-> "probe", probe |-> Current(s)]
  <2>1. /\ r.step = "probing" /\ r.address = sess[s].address /\ r.attempt = sess[s].attempt
        /\ r.requested = (sess[s].requested \/ Pauses[s])
        /\ r.disconnected = sess[s].disconnected /\ r.pending = "waiting"
    <3> HIDE DEF q
    <3>1. QED
      BY <1>3, <1>4 DEF AllLocals
  <2>2. r \in AllLocals
    <3> HIDE DEF q, Outcomes, EndReasons
    <3>1. QED
      BY <1>4, ProbingType
  <2>3. Becomes(s, r) /\ link' = [link EXCEPT ![s] = Append(@, c)]
    BY <1>8
  <2>4. c \in Calls /\ c.call = "probe" /\ c.probe.scan = s
    BY <1>2, CurrentType DEF Calls
  <2> HIDE DEF r, c, q
  <2>5. Sound(s, r)
    BY <1>2, <1>8, <2>1, <2>2 DEF Sound, Fits
  <2>6. Wires' /\ link'[s] = Append(link[s], c) /\ \A t \in Scans \ {s} : link'[t] = link[t]
    BY <1>1, <2>3, <2>4, CallAdded
  <2>7. Ahead(s, r, reported[s])
    BY <1>1, <2>1, InvOf DEF Ahead
  <2>8. faults = 0 => Owed(s, r, link'[s], HeldBy(s))
    <3> SUFFICES ASSUME faults = 0 PROVE Owed(s, r, Append(link[s], c), HeldBy(s))
      BY <2>6
    <3> DEFINE l == link[s]
    <3>1. Owed(s, sess[s], l, HeldBy(s)) /\ l \in Seq(Calls) /\ sess[s].step = "asking"
      BY <1>1, InvOf
    <3> HIDE DEF l
    <3>2. /\ ~r.disconnected /\ r.step = "probing" /\ (HeldBy(s) => r.requested)
          /\ Pauses[s] => r.requested
      BY <1>3, <2>1, <3>1 DEF Owed
    <3>3. ASSUME NEW i \in 1..Len(Append(l, c))
          PROVE  Append(l, c)[i].call # "release"
      BY <2>4, <3>1 DEF Owed
    <3>4. QED
      BY <3>2, <3>3 DEF Owed, l
  <2>9. Reports'
    BY <1>1, <2>3, <2>7, ReportsKept
  <2>10. QED
    BY <1>1, <1>5, <2>1, <2>3, <2>5, <2>6, <2>8, <2>9, MoveInv
<1>9. QED
  BY <1>6, <1>7, <1>8 DEF SendProbe

\* The release is called after every probe: it is the last call.
LEMMA SendReleaseInv == ASSUME Inv, NEW s \in Scans, SendRelease(s) PROVE Inv'
<1>1. /\ sess[s].step = "freeing" /\ SlotFree(s)
      /\ UNCHANGED <<cancelled, checking, faults, inbox, dirty, sensor, lease, flight, reported, leaseEnd>>
  BY DEF SendRelease, gatewayVars, historyVars
<1>2. Fits(s, sess[s]) /\ sess[s].pending \notin Outcomes
  BY <1>1, InvOf DEF Sound
<1>3. Marks' /\ Sensors' /\ BusTypes'
  BY <1>1, UnchangedTypes
<1>4. CASE /\ sess[s].disconnected /\ UNCHANGED link
           /\ Becomes(s, [Unconfirmed(sess[s]) EXCEPT !.step = "closing"])
  <2> DEFINE u == Unconfirmed(sess[s])
             r == [u EXCEPT !.step = "closing"]
  <2>1. Fits(s, u) /\ u.address = sess[s].address /\ u.pending \notin Outcomes
    BY <1>2, UnconfirmedSound
  <2>2. Becomes(s, r)
    BY <1>4
  <2> HIDE DEF u
  <2>3. "closing" \in Steps \ {"pausing"}
    BY DEF Steps
  <2>4. Sound(s, r) /\ r.step = "closing" /\ r.address = u.address
    BY <2>1, <2>3, StepSound
  <2> HIDE DEF r
  <2>5. Ahead(s, r, reported[s])
    BY <2>1, <2>4, InvOf DEF Ahead
  <2>6. faults # 0
    BY <1>4, InvOf DEF Owed
  <2>7. Wires'
    BY <1>1, <1>4, UnchangedTypes
  <2>8. QED
    BY <1>1, <1>3, <1>4, <2>2, <2>4, <2>5, <2>6, <2>7, GoesOnInv DEF Holding
<1>5. CASE /\ Becomes(s, [sess[s] EXCEPT !.step = "releasing"])
           /\ link' = [link EXCEPT ![s] = Append(@, [call |-> "release"])]
  <2> DEFINE r == [sess[s] EXCEPT !.step = "releasing"]
             c == [call |-> "release"]
  <2>1. Becomes(s, r) /\ link' = [link EXCEPT ![s] = Append(@, c)]
    BY <1>5
  <2>2. c \in Calls /\ c.call = "release"
    BY DEF Calls
  <2>3. "releasing" \in Steps \ {"pausing"}
    BY DEF Steps
  <2>4. /\ Sound(s, r) /\ r.step = "releasing" /\ r.address = sess[s].address
        /\ r.requested = sess[s].requested /\ r.disconnected = sess[s].disconnected
    BY <1>1, <2>3, StepOf
  <2> HIDE DEF r, c
  <2>5. Wires' /\ link'[s] = Append(link[s], c) /\ \A t \in Scans \ {s} : link'[t] = link[t]
    BY <1>1, <2>1, <2>2, CallAdded
  <2>6. Ahead(s, r, reported[s])
    BY <1>1, <2>4, InvOf DEF Ahead
  <2>7. faults = 0 => Owed(s, r, link'[s], HeldBy(s))
    <3> SUFFICES ASSUME faults = 0 PROVE Owed(s, r, Append(link[s], c), HeldBy(s))
      BY <2>5
    <3>1. Owed(s, sess[s], link[s], HeldBy(s)) /\ link[s] \in Seq(Calls)
      BY InvOf
    <3>2. QED
      BY <1>1, <2>2, <2>4, <3>1 DEF Owed
  <2>8. Reports'
    BY <1>1, <2>1, <2>6, ReportsKept
  <2>9. QED
    BY <1>1, <1>3, <2>1, <2>4, <2>5, <2>7, <2>8, MoveInv
<1>6. QED
  BY <1>4, <1>5 DEF SendRelease

\* The wait of a probe is over.
LEMMA ProbeResumesInv == ASSUME Inv, NEW s \in Scans, ProbeResumes(s) PROVE Inv'
<1> DEFINE q == sess[s]
<1>1. /\ q.step = "probing"
      /\ UNCHANGED <<cancelled, checking, faults, link, inbox, dirty, sensor, lease, flight, leaseEnd>>
  BY DEF ProbeResumes, netVars, gatewayVars
<1>2. q \in AllLocals /\ Sound(s, q) /\ Fits(s, q)
  BY InvOf DEF Sound
<1>3. Marks' /\ Wires' /\ Sensors' /\ BusTypes'
  BY <1>1, UnchangedTypes
<1>4. CASE Becomes(s, Cleanup(q)) /\ UNCHANGED reported
  BY <1>1, <1>3, <1>4, CleanInv
<1>5. ASSUME RetryLeft(s), UNCHANGED reported,
             Becomes(s, NextAttempt(s, [q EXCEPT !.attempt = @ + 1, !.pending = "none", !.result = NoState]))
      PROVE  Inv'
  <2> DEFINE p == [q EXCEPT !.attempt = @ + 1, !.pending = "none", !.result = NoState]
             r == NextAttempt(s, p)
  <2>1. /\ p.step = "probing" /\ p.address = q.address /\ p.attempt = q.attempt + 1 /\ p.pending = "none"
        /\ p.requested = q.requested /\ p.disconnected = q.disconnected
    BY <1>1, <1>2 DEF AllLocals
  <2>2. p.attempt \in 1..(Retries[s] + 1) /\ p.attempt \in Attempts
    BY <1>2, <1>5, <2>1, RequestTypes DEF RetryLeft, Fits
  <2>3. p \in AllLocals
    BY <1>2, <2>1, <2>2, AttemptType
  <2>4. Becomes(s, r)
    BY <1>5
  <2> HIDE DEF p
  <2>5. Fits(s, p) /\ p.pending \notin Outcomes
    BY <1>2, <2>1, <2>2, <2>3 DEF Fits
  <2>6. /\ Sound(s, r) /\ r.step \in {"asking", "closing", "freeing"} /\ r.address = q.address
        /\ r.requested = q.requested /\ r.disconnected = q.disconnected
        /\ r.step = "closing" => ~r.requested \/ r.disconnected
    BY <2>1, <2>5, NextAttemptSound
  <2> HIDE DEF r
  <2>7. Ahead(s, r, reported[s])
    BY <1>1, <2>6, InvOf DEF Ahead
  <2>8. faults = 0 => Owed(s, r, link[s], HeldBy(s))
    BY <1>1, <2>6, InvOf, OwedGoesOn
  <2>9. QED
    BY <1>1, <1>3, <1>5, <2>4, <2>6, <2>7, <2>8, GoesOnInv DEF Holding
<1>6. ASSUME q.pending \in {"reply", "timeout"},
             reported' = [reported EXCEPT ![s] = @ \cup {[address |-> q.address, result |-> q.result]}],
             Becomes(s, IF q.address < Last[s]
                        THEN [q EXCEPT !.step = "pausing", !.pending = "none", !.result = NoState]
                        ELSE Cleanup(q))
      PROVE  Inv'
  <2>1. PICK r : /\ Becomes(s, r) /\ Sound(s, r) /\ r.step \in {"pausing", "closing", "freeing"}
                 /\ r.address = q.address /\ r.requested = q.requested /\ r.disconnected = q.disconnected
                 /\ r.step = "closing" => ~r.requested \/ r.disconnected
    <3>1. CASE q.address < Last[s]
      <4> DEFINE r == [q EXCEPT !.step = "pausing", !.pending = "none", !.result = NoState]
      <4>1. /\ r.step = "pausing" /\ r.address = q.address /\ r.attempt = q.attempt /\ r.pending = "none"
            /\ r.requested = q.requested /\ r.disconnected = q.disconnected
        BY <1>2 DEF AllLocals
      <4>2. r \in AllLocals
        BY <1>2, PausingType
      <4>3. Becomes(s, r)
        BY <1>6, <3>1
      <4> HIDE DEF r
      <4>4. Sound(s, r)
        BY <1>2, <3>1, <4>1, <4>2 DEF Sound, Fits
      <4>5. QED
        BY <4>1, <4>3, <4>4
    <3>2. CASE ~(q.address < Last[s])
      <4>1. Becomes(s, Cleanup(q))
        BY <1>6, <3>2
      <4>2. QED
        BY <1>2, <4>1, CleanupSound
    <3>3. QED
      BY <3>1, <3>2
  <2> DEFINE new == [address |-> q.address, result |-> q.result]
  <2>2. /\ new \in [address : Addresses, result : Results]
        /\ new.address = q.address /\ new.result.probe.scan = s /\ new.result.probe.address = q.address
    BY <1>2, <1>6 DEF Fits, AllLocals
  <2>3. /\ reported[s] \subseteq [address : Addresses, result : Results]
        /\ \A e \in reported[s] : /\ e.result.probe.scan = s /\ e.result.probe.address = e.address
                                  /\ e.address < q.address
        /\ \A e, f \in reported[s] : e.address = f.address => e = f
    BY <1>1, InvOf DEF Ahead, Own
  <2>4. sess'[s] = r /\ \A t \in Scans \ {s} : sess'[t] = sess[t]
    BY <2>1 DEF Inv, Sessions, Becomes
  <2>5. reported'[s] = reported[s] \cup {new} /\ \A t \in Scans \ {s} : reported'[t] = reported[t]
    BY <1>6 DEF Inv, Reports
  <2> HIDE DEF new
  <2>6. q.address \in Nat
    BY <1>2 DEF Fits
  <2>7. Own(s, reported[s] \cup {new})
    BY <2>2, <2>3, <2>6 DEF Own, Addresses
  <2>8. Ahead(s, r, reported[s] \cup {new})
    <3>1. \A e \in reported[s] \cup {new} : e.address <= q.address
      BY <2>2, <2>3, <2>6 DEF Addresses
    <3>2. QED
      BY <2>1, <3>1 DEF Ahead
  <2>9. Reports'
    <3>1. \A t \in Scans : Ahead(t, sess'[t], reported'[t]) /\ Own(t, reported'[t])
      <4>1. \A t \in Scans : Ahead(t, sess[t], reported[t]) /\ Own(t, reported[t])
        BY InvOf
      <4>2. QED
        BY <2>4, <2>5, <2>7, <2>8, <4>1
    <3>2. reported' = [t \in Scans |-> reported'[t]]
      BY <1>6 DEF Inv, Reports
    <3>3. QED
      BY <3>1, <3>2 DEF Reports, Ahead, Own
  <2>10. faults = 0 => Owed(s, r, link'[s], HeldBy(s))
    BY <1>1, <2>1, InvOf, OwedGoesOn
  <2>11. QED
    BY <1>1, <1>3, <2>1, <2>9, <2>10, MoveInv DEF Holding
<1>7. QED
  BY <1>4, <1>5, <1>6 DEF ProbeResumes
------------------------------------------------------------------------------
(* Scans that return or die, and what is lost. *)

\* Connections that lose their states, calls or both.
LEMMA LostWires ==
  ASSUME Inv, link' = [t \in Scans |-> link'[t]], inbox' = [t \in Scans |-> inbox'[t]],
         dirty' = [t \in Scans |-> dirty'[t]], UNCHANGED sensor,
         \A t \in Scans : /\ link'[t] \in {link[t], <<>>} /\ inbox'[t] \in {inbox[t], <<>>}
                          /\ dirty'[t] \in {dirty[t], {}}
  PROVE  Wires' /\ Sensors'
<1>1. \A t \in Scans : link'[t] \in Seq(Calls) /\ inbox'[t] \in Seq(States) /\ dirty'[t] \in SUBSET Kinds
  <2> TAKE t \in Scans
  <2>1. link[t] \in Seq(Calls) /\ inbox[t] \in Seq(States) /\ dirty[t] \in SUBSET Kinds
    BY DEF Inv, Wires
  <2>2. <<>> \in Seq(Calls) /\ <<>> \in Seq(States) /\ {} \in SUBSET Kinds
    OBVIOUS
  <2>3. QED
    BY <2>1, <2>2
<1>2. ASSUME NEW t \in Scans, NEW i \in Nat, i \in 1..Len(link'[t]), link'[t][i].call = "probe"
      PROVE  link'[t][i].probe.scan = t
  <2>1. link'[t] # <<>>
    BY <1>2
  <2>2. link'[t] = link[t]
    BY <2>1
  <2>3. QED
    BY <1>2, <2>2 DEF Inv, Wires
<1>3. Wires'
  <2>1. link' \in [Scans -> Seq(Calls)] /\ inbox' \in [Scans -> Seq(States)]
    BY <1>1
  <2>2. dirty' \in [Scans -> SUBSET Kinds]
    BY <1>1
  <2>3. QED
    BY <1>2, <2>1, <2>2 DEF Wires
<1>4. Sensors'
  BY DEF Inv, Sensors
<1>5. QED
  BY <1>3, <1>4

\* Scans that are over start nothing, hold nothing and are told nothing.  What they owed
\* matters while nothing was lost.
LEMMA GoneInv ==
  ASSUME Inv, NEW over \in SUBSET Scans, Gone(over), checking' \subseteq checking,
         UNCHANGED <<sensor, lease, flight>>, faults' \in 0..MaxFaults,
         link' = [t \in Scans |-> link'[t]],
         \A t \in Scans : link'[t] \in {link[t], <<>>},
         faults' = 0 => /\ faults = 0 /\ \A t \in Scans : link'[t] = link[t]
                        /\ \A t \in over : link[t] = <<>> /\ ~HeldBy(t)
  PROVE  Inv'
<1>1. /\ \A t \in over : sess'[t] = Locals("done") /\ reported'[t] = {}
      /\ \A t \in Scans \ over : sess'[t] = sess[t] /\ reported'[t] = reported[t]
      /\ sess' = [t \in Scans |-> sess'[t]] /\ reported' = [t \in Scans |-> reported'[t]]
      /\ leaseEnd' = [t \in Scans |-> leaseEnd'[t]]
      /\ inbox' = [t \in Scans |-> inbox'[t]] /\ dirty' = [t \in Scans |-> dirty'[t]]
      /\ \A t \in Scans : /\ inbox'[t] \in {inbox[t], <<>>} /\ dirty'[t] \in {dirty[t], {}}
                          /\ leaseEnd'[t] \in {leaseEnd[t], "unset"}
      /\ cancelled' \subseteq cancelled
  BY DEF Gone
<1>2. \A t \in Scans : /\ Sound(t, Locals("done")) /\ Locals("done").step = "done"
                       /\ ~Locals("done").disconnected /\ Locals("done").requested = FALSE
  BY LocalsSound
<1>3. \A t \in Scans : Sound(t, sess[t]) /\ Ahead(t, sess[t], reported[t]) /\ Own(t, reported[t])
  BY InvOf
<1>4. \A t \in Scans : sess'[t] = sess[t] \/ sess'[t].step = "done"
  BY <1>1, <1>2
<1>5. Sessions'
  <2>1. \A t \in Scans : Sound(t, sess'[t])
    BY <1>1, <1>2, <1>3
  <2>2. \A t \in Scans : sess'[t] \in AllLocals
    BY <2>1 DEF Sound, Fits
  <2>3. sess' \in [Scans -> AllLocals]
    BY <1>1, <2>2
  <2>4. QED
    BY <2>1, <2>3 DEF Sessions, Sound, Fits
<1>6. Reports'
  <2>1. ASSUME NEW t \in Scans PROVE Ahead(t, sess'[t], reported'[t]) /\ Own(t, reported'[t])
    <3>1. CASE t \in over
      BY <1>1, <3>1 DEF Ahead, Own
    <3>2. CASE t \notin over
      BY <1>1, <1>3, <3>2
    <3>3. QED
      BY <3>1, <3>2
  <2>2. QED
    BY <1>1, <2>1 DEF Reports, Ahead, Own
<1>7. Marks'
  BY <1>1 DEF Inv, Marks
<1>8. Wires' /\ Sensors'
  BY <1>1, LostWires
<1>9. BusTypes'
  <2>1. leaseEnd' \in [Scans -> EndReasons \cup {"unset"}]
    BY <1>1 DEF Inv, BusTypes
  <2>2. QED
    BY <2>1 DEF Inv, BusTypes
<1>10. ChecksAlone' /\ OneHolder'
  <2>1. ChecksAlone'
    BY <1>4 DEF Inv, ChecksAlone
  <2>2. OneHolder'
    BY <1>4 DEF Inv, OneHolder, Holding, Slot, Channel
  <2>3. QED
    BY <2>1, <2>2
<1>11. ReleaseOwed'
  <2> SUFFICES ASSUME faults' = 0, NEW t \in Scans
               PROVE  Owed(t, sess'[t], link'[t], HeldBy(t)')
    BY DEF ReleaseOwed, Owed
  <2>1. HeldBy(t)' = HeldBy(t) /\ link'[t] = link[t]
    BY DEF HeldBy
  <2>2. CASE t \in over
    BY <1>1, <1>2, <2>1, <2>2 DEF Owed
  <2>3. CASE t \notin over
    BY <1>1, <2>1, <2>3, InvOf
  <2>4. QED
    BY <2>2, <2>3
<1>12. QED
  BY <1>5, <1>6, <1>7, <1>8, <1>9, <1>10, <1>11 DEF Inv

\* A Scan connects, or fails on the way.
LEMMA ConnectInv == ASSUME Inv, NEW s \in Scans, Connect(s) PROVE Inv'
<1>1. /\ sess[s].step = "admitted" /\ Home[s] \notin checking
      /\ UNCHANGED <<checking, faults, link, sensor, lease, flight>>
  BY DEF Connect, gatewayVars
<1>2. faults = 0 => link[s] = <<>> /\ ~HeldBy(s)
  BY <1>1, InvOf DEF Owed
<1>3. CASE Gone({s})
  <2>1. link = [t \in Scans |-> link[t]] /\ faults \in 0..MaxFaults
    BY DEF Inv, Wires, Marks
  <2>2. QED
    BY <1>1, <1>2, <1>3, <2>1, GoneInv
<1>4. CASE /\ Becomes(s, [sess[s] EXCEPT !.step = "asking"])
           /\ dirty' = [dirty EXCEPT ![s] = {k \in Kinds : sensor[k][Channel(BusOf[s])] # NoState}]
           /\ UNCHANGED <<cancelled, inbox, historyVars>>
  <2> DEFINE r == [sess[s] EXCEPT !.step = "asking"]
             seen == {k \in Kinds : sensor[k][Channel(BusOf[s])] # NoState}
  <2>1. "asking" \in Steps \ {"pausing"}
    BY DEF Steps
  <2>2. /\ Sound(s, r) /\ r.step = "asking" /\ r.address = sess[s].address
        /\ r.requested = sess[s].requested /\ r.disconnected = sess[s].disconnected
    BY <1>1, <2>1, StepOf
  <2>3. Becomes(s, r) /\ UNCHANGED <<cancelled, inbox, reported, leaseEnd>>
    BY <1>4 DEF historyVars
  <2> HIDE DEF r
  <2>4. reported[s] = {}
    BY <1>1, InvOf DEF Ahead
  <2>5. Reports'
    BY <2>2, <2>3, <2>4, ReportsKept DEF Ahead
  <2>6. faults = 0 => Owed(s, r, link[s], HeldBy(s))
    BY <1>1, <1>2, <2>2, InvOf DEF Owed
  <2>7. dirty' = [dirty EXCEPT ![s] = seen] /\ seen \subseteq Kinds
    BY <1>4
  <2>8. Channel(BusOf[s]) \in Channels
    BY BridgeAssumption DEF Channels
  <2>9. /\ "result" \in seen => sensor["result"][Channel(BusOf[s])] \in Results
        /\ "lease" \in seen => sensor["lease"][Channel(BusOf[s])] \in LeaseMsgs
    BY <2>8 DEF Inv, Sensors
  <2> HIDE DEF seen
  <2>10. Wires'
    BY <1>1, <2>3, <2>7 DEF Inv, Wires
  <2>11. Sensors'
    <3>1. dirty'[s] = seen /\ \A t \in Scans \ {s} : dirty'[t] = dirty[t]
      BY <2>7 DEF Inv, Wires
    <3>2. QED
      BY <1>1, <2>9, <3>1 DEF Inv, Sensors, Channel
  <2>12. Marks' /\ BusTypes'
    BY <1>1, <2>3, UnchangedTypes
  <2>13. QED
    BY <1>1, <2>2, <2>3, <2>5, <2>6, <2>10, <2>11, <2>12, MoveInv DEF Holding
<1>5. QED
  BY <1>3, <1>4 DEF Connect

\* _disconnect, with every call arrived while nothing was lost.
LEMMA DisconnectInv == ASSUME Inv, NEW s \in Scans, Disconnect(s) PROVE Inv'
<1>1. /\ sess[s].step = "closing" /\ Gone({s}) /\ UNCHANGED <<checking, sensor, lease, flight>>
      /\ \/ link[s] = <<>> /\ UNCHANGED <<link, faults>>
         \/ Fault /\ link' \in {link, [link EXCEPT ![s] = <<>>]}
  BY DEF Disconnect, gatewayVars
<1>2. faults \in 0..MaxFaults /\ MaxFaults \in Nat /\ link \in [Scans -> Seq(Calls)]
  BY BridgeAssumption DEF Inv, Marks, Wires
<1>3. faults' \in 0..MaxFaults /\ (faults' = 0 => faults = 0 /\ link[s] = <<>> /\ link' = link)
  BY <1>1, <1>2 DEF Fault
<1>4. link' = [t \in Scans |-> link'[t]] /\ \A t \in Scans : link'[t] \in {link[t], <<>>}
  BY <1>1, <1>2
<1>5. faults' = 0 => ~HeldBy(s)
  BY <1>1, <1>3, InvOf DEF Owed
<1>6. QED
  BY <1>1, <1>3, <1>4, <1>5, GoneInv

\* on_stop
LEMMA ConnectionLostInv == ASSUME Inv, NEW s \in Scans, ConnectionLost(s) PROVE Inv'
<1> DEFINE p == IF sess[s].pending = "waiting" THEN "lost" ELSE sess[s].pending
           r == [sess[s] EXCEPT !.disconnected = TRUE, !.pending = p]
<1>1. /\ sess[s].step \in Open /\ Fault /\ Becomes(s, r)
      /\ inbox' = [inbox EXCEPT ![s] = <<>>] /\ dirty' = [dirty EXCEPT ![s] = {}]
      /\ link' \in {link, [link EXCEPT ![s] = <<>>]}
      /\ UNCHANGED <<cancelled, checking, sensor, lease, flight, reported, leaseEnd>>
  BY DEF ConnectionLost, Connected, gatewayVars, historyVars
<1>2. sess[s] \in AllLocals /\ Sound(s, sess[s])
  BY InvOf
<1>3. /\ p \in {"none", "waiting", "lost"} \cup Outcomes /\ p # "waiting"
      /\ p \in Outcomes => p = sess[s].pending
  BY <1>2 DEF AllLocals
<1> HIDE DEF p
<1>4. r \in AllLocals
  BY <1>2, <1>3, LostType
<1>5. /\ r.step = sess[s].step /\ r.address = sess[s].address /\ r.attempt = sess[s].attempt
      /\ r.pending = p /\ r.result = sess[s].result
  BY <1>2 DEF AllLocals
<1> HIDE DEF r
<1>6. Sound(s, r)
  BY <1>2, <1>3, <1>4, <1>5 DEF Sound, Fits
<1>7. Reports'
  <2>1. Ahead(s, r, reported[s])
    BY <1>5, InvOf DEF Ahead
  <2>2. QED
    BY <1>1, <2>1, ReportsKept
<1>8. faults \in 0..MaxFaults /\ MaxFaults \in Nat
  BY BridgeAssumption DEF Inv, Marks
<1>9. faults' # 0 /\ Marks'
  BY <1>1, <1>8 DEF Fault, Inv, Marks
<1>10. Wires' /\ Sensors' /\ \A t \in Scans \ {s} : link'[t] = link[t]
  <2>1. /\ link \in [Scans -> Seq(Calls)] /\ inbox \in [Scans -> Seq(States)]
        /\ dirty \in [Scans -> SUBSET Kinds]
    BY DEF Inv, Wires
  <2>2. /\ link' = [t \in Scans |-> link'[t]] /\ inbox' = [t \in Scans |-> inbox'[t]]
        /\ dirty' = [t \in Scans |-> dirty'[t]]
    BY <1>1, <2>1
  <2>3. \A t \in Scans : /\ link'[t] \in {link[t], <<>>} /\ inbox'[t] \in {inbox[t], <<>>}
                         /\ dirty'[t] \in {dirty[t], {}}
    BY <1>1, <2>1
  <2>4. \A t \in Scans \ {s} : link'[t] = link[t]
    BY <1>1, <2>1
  <2>5. QED
    BY <1>1, <2>2, <2>3, <2>4, LostWires
<1>11. BusTypes'
  BY <1>1, UnchangedTypes
<1>12. QED
  BY <1>1, <1>5, <1>6, <1>7, <1>9, <1>10, <1>11, MoveInv

\* The task's cancellation: into the finally block, out of the release, or before it began.
LEMMA TaskCancelledInv == ASSUME Inv, NEW s \in Scans, TaskCancelled(s) PROVE Inv'
<1>1. Fault /\ UNCHANGED <<checking, link, sensor, lease, flight>>
  BY DEF TaskCancelled, gatewayVars
<1>2. faults \in 0..MaxFaults /\ MaxFaults \in Nat
  BY BridgeAssumption DEF Inv, Marks
<1>3. faults' \in 0..MaxFaults /\ faults' # 0
  BY <1>1, <1>2 DEF Fault
<1>4. CASE /\ sess[s].step \in {"asking", "probing", "pausing"} /\ Becomes(s, Cleanup(sess[s]))
           /\ UNCHANGED <<cancelled, inbox, dirty, reported, leaseEnd>>
  <2>1. Marks'
    BY <1>1, <1>3, <1>4 DEF Inv, Marks
  <2>2. QED
    BY <1>1, <1>4, <2>1, CleanInv
<1>5. CASE /\ sess[s].step \in {"freeing", "releasing"} /\ Becomes(s, [sess[s] EXCEPT !.step = "closing"])
           /\ UNCHANGED <<cancelled, inbox, dirty, reported, leaseEnd>>
  <2> DEFINE r == [sess[s] EXCEPT !.step = "closing"]
  <2>1. "closing" \in Steps \ {"pausing"} /\ sess[s].step # "probing"
    BY <1>5 DEF Steps
  <2>2. Sound(s, r) /\ r.step = "closing" /\ r.address = sess[s].address
    BY <2>1, StepOf
  <2>3. Becomes(s, r)
    BY <1>5
  <2> HIDE DEF r
  <2>4. Ahead(s, r, reported[s])
    BY <2>2, InvOf DEF Ahead
  <2>5. Wires'
    BY <1>1, <1>5, UnchangedTypes
  <2>6. Marks'
    BY <1>1, <1>3, <1>5 DEF Inv, Marks
  <2>7. QED
    BY <1>1, <1>3, <1>5, <2>2, <2>3, <2>4, <2>5, <2>6, GoesOnInv DEF Holding
<1>6. CASE Gone({s})
  <2>1. link = [t \in Scans |-> link[t]]
    BY DEF Inv, Wires
  <2>2. QED
    BY <1>1, <1>3, <1>6, <2>1, GoneInv
<1>7. QED
  BY <1>4, <1>5, <1>6 DEF TaskCancelled, historyVars

\* A check begins and ends.
LEMMA CheckInv == ASSUME Inv, NEW h \in Homes, CheckBegins(h) \/ CheckEnds(h) PROVE Inv'
<1>1. UNCHANGED <<sess, cancelled, faults, link, inbox, dirty, sensor, lease, flight, reported, leaseEnd>>
  BY DEF CheckBegins, CheckEnds, netVars, gatewayVars, historyVars
<1>2. checking' \subseteq Homes
  BY DEF CheckBegins, CheckEnds, Inv, Marks
<1>3. Marks' /\ Wires' /\ Sensors' /\ BusTypes'
  <2>1. Marks'
    BY <1>1, <1>2 DEF Inv, Marks
  <2>2. QED
    BY <1>1, <2>1, UnchangedTypes
<1>4. ChecksAlone'
  BY <1>1 DEF CheckBegins, CheckEnds, MayCheck, Inv, ChecksAlone
<1>5. Sessions' /\ Reports' /\ OneHolder' /\ ReleaseOwed'
  BY <1>1 DEF Inv, Sessions, Reports, Ahead, Own, OneHolder, ReleaseOwed, HeldBy, Slot, Channel, Sound, Fits, Owed
<1>6. QED
  BY <1>3, <1>4, <1>5 DEF Inv

\* The end of a Home Assistant.
LEMMA CrashInv == ASSUME Inv, NEW h \in Homes, Crash(h) PROVE Inv'
<1> DEFINE dead == {s \in Scans : Home[s] = h /\ sess[s].step \in Running}
<1>1. /\ Fault /\ Gone(dead) /\ checking' \subseteq checking /\ UNCHANGED <<sensor, lease, flight>>
      /\ \E lost \in SUBSET dead : link' = [s \in Scans |-> IF s \in lost THEN <<>> ELSE link[s]]
  BY DEF Crash, gatewayVars
<1>2. faults \in 0..MaxFaults /\ MaxFaults \in Nat
  BY BridgeAssumption DEF Inv, Marks
<1>3. faults' \in 0..MaxFaults /\ faults' # 0
  BY <1>1, <1>2 DEF Fault
<1>4. link' = [t \in Scans |-> link'[t]] /\ \A t \in Scans : link'[t] \in {link[t], <<>>}
  BY <1>1
<1>5. dead \in SUBSET Scans
  OBVIOUS
<1> HIDE DEF dead
<1>6. QED
  BY <1>1, <1>3, <1>4, <1>5, GoneInv
------------------------------------------------------------------------------
(* The Gateway and the network. *)

\* The invariant, when only the Gateway or the network acts.
LEMMA GatewayInv ==
  ASSUME Inv, UNCHANGED <<sess, cancelled, checking, faults, reported>>,
         Wires', Sensors', BusTypes',
         \A s \in Scans : faults = 0 => Owed(s, sess[s], link'[s], HeldBy(s)')
  PROVE  Inv'
<1>1. Marks'
  BY UnchangedTypes
<1>2. Sessions' /\ Reports' /\ ChecksAlone' /\ OneHolder'
  BY DEF Inv, Sessions, Reports, Ahead, Own, ChecksAlone, OneHolder, Slot, Channel, Sound, Fits
<1>3. ReleaseOwed'
  BY DEF ReleaseOwed, Owed
<1>4. QED
  BY <1>1, <1>2, <1>3 DEF Inv

\* What is owed, when nothing moves but that leases may end.
LEMMA OwedLess ==
  ASSUME Inv, NEW s \in Scans, faults = 0, NEW held, held => HeldBy(s)
  PROVE  Owed(s, sess[s], link[s], held)
  BY InvOf DEF Owed

\* The first call of a connection is taken.
LEMMA CallTaken ==
  ASSUME Inv, NEW s \in Scans, link[s] # <<>>, link' = [link EXCEPT ![s] = Tail(@)],
         UNCHANGED inbox, dirty' \in [Scans -> SUBSET Kinds]
  PROVE  /\ Wires' /\ link'[s] = Tail(link[s]) /\ \A t \in Scans \ {s} : link'[t] = link[t]
         /\ Head(link[s]).call = "probe" =>
              Head(link[s]).probe \in Probes /\ Head(link[s]).probe.scan = s
<1>1. link \in [Scans -> Seq(Calls)]
  BY DEF Inv, Wires
<1>2. \A t \in Scans, i \in Nat :
        i \in 1..Len(link[t]) /\ link[t][i].call = "probe" => link[t][i].probe.scan = t
  BY DEF Inv, Wires
<1>3. link'[s] = Tail(link[s]) /\ \A t \in Scans \ {s} : link'[t] = link[t]
  BY <1>1
<1>4. link' \in [Scans -> Seq(Calls)]
  BY <1>1
<1>5. ASSUME NEW t \in Scans, NEW i \in Nat, i \in 1..Len(link'[t]), link'[t][i].call = "probe"
      PROVE  link'[t][i].probe.scan = t
  <2>1. CASE t = s
    <3>1. link'[s][i] = link[s][i + 1] /\ i + 1 \in 1..Len(link[s])
      BY <1>1, <1>3, <1>5, <2>1
    <3>2. QED
      BY <1>2, <1>5, <2>1, <3>1
  <2>2. CASE t # s
    BY <1>2, <1>3, <1>5, <2>2
  <2>3. QED
    BY <2>1, <2>2
<1>6. Head(link[s]) = link[s][1] /\ 1 \in 1..Len(link[s]) /\ link[s][1] \in Calls
  BY <1>1
<1>7. Head(link[s]).call = "probe" => Head(link[s]).probe \in Probes /\ Head(link[s]).probe.scan = s
  BY <1>2, <1>6 DEF Calls
<1>8. Wires'
  BY <1>4, <1>5 DEF Inv, Wires
<1>9. QED
  BY <1>3, <1>7, <1>8

\* What is owed, once a probe arrived: a lease may begin, for a Scan that knows it.
LEMMA OwedProbe ==
  ASSUME Inv, NEW s \in Scans, faults = 0, link[s] # <<>>, Head(link[s]).call = "probe",
         NEW held, held => HeldBy(s) \/ Pauses[s]
  PROVE  Owed(s, sess[s], Tail(link[s]), held)
<1> DEFINE l == link[s]
           r == sess[s]
<1>1. l \in Seq(Calls) /\ l # <<>> /\ Owed(s, r, l, HeldBy(s)) /\ r.step \in Steps
  BY InvOf DEF AllLocals
<1>2. l[1].call = "probe" /\ 1 \in 1..Len(l) /\ Len(l) \in Nat
  <2>1. Head(l).call = "probe"
    OBVIOUS
  <2> HIDE DEF l
  <2>2. QED
    BY <1>1, <2>1
<1>3. ~r.disconnected /\ r.step \in Open /\ (Pauses[s] => r.requested)
  BY <1>1, <1>2 DEF Owed, Steps
<1> HIDE DEF l, r
<1>4. /\ Tail(l) \in Seq(Calls) /\ Len(Tail(l)) = Len(l) - 1
      /\ \A i \in 1..Len(Tail(l)) : Tail(l)[i] = l[i + 1] /\ i + 1 \in 1..Len(l)
  BY <1>1
<1>5. ASSUME NEW i \in 1..Len(Tail(l))
      PROVE  /\ Tail(l)[i].call = "release" => i = Len(Tail(l)) /\ r.step \in {"releasing", "closing"}
             /\ Tail(l)[i].call = "probe" /\ Pauses[s] => r.requested
  <2>1. Tail(l)[i] = l[i + 1] /\ i + 1 \in 1..Len(l)
    BY <1>4
  <2>2. l[i + 1].call = "release" => i + 1 = Len(l) /\ r.step \in {"releasing", "closing"}
    BY <1>1, <2>1 DEF Owed
  <2>3. i \in Nat /\ (i + 1 = Len(l) => i = Len(Tail(l)))
    <3> DEFINE n == Len(l)
               m == Len(Tail(l))
    <3>1. n \in Nat /\ m = n - 1 /\ i \in 1..m
      BY <1>2, <1>4
    <3> HIDE DEF n, m
    <3>2. i \in Nat /\ (i + 1 = n => i = m)
      BY <3>1
    <3>3. QED
      BY <3>2 DEF n, m
  <2>4. Tail(l)[i].call = "release" => i = Len(Tail(l)) /\ r.step \in {"releasing", "closing"}
    BY <2>1, <2>2, <2>3
  <2>5. Pauses[s] => r.requested
    BY <1>3
  <2>6. QED
    BY <2>4, <2>5
<1>6. ASSUME r.step \in {"releasing", "closing"}, r.requested
      PROVE  Tail(l) # <<>> /\ Tail(l)[Len(Tail(l))].call = "release"
  <2>1. l[Len(l)].call = "release"
    BY <1>1, <1>6 DEF Owed
  <2>2. Len(l) # 1
    BY <1>2, <2>1
  <2>3. Len(Tail(l)) \in 1..Len(Tail(l)) /\ Len(Tail(l)) + 1 = Len(l)
    BY <1>2, <1>4, <2>2
  <2>4. QED
    BY <1>4, <2>1, <2>3
<1>7. held => r.requested
  <2>1. HeldBy(s) => r.requested
    BY <1>1 DEF Owed
  <2>2. QED
    BY <1>3, <2>1
<1>8. Owed(s, r, Tail(l), held)
  BY <1>3, <1>5, <1>6, <1>7 DEF Owed
<1>9. QED
  BY <1>8 DEF l, r

\* What is owed, once the release arrived: nothing.
LEMMA OwedRelease ==
  ASSUME Inv, NEW s \in Scans, faults = 0, link[s] # <<>>, Head(link[s]).call = "release"
  PROVE  Owed(s, sess[s], Tail(link[s]), FALSE)
<1>1. link[s] \in Seq(Calls) /\ Owed(s, sess[s], link[s], HeldBy(s))
  BY InvOf
<1>2. link[s][1].call = "release" /\ 1 \in 1..Len(link[s])
  BY <1>1
<1>3. Len(link[s]) = 1 /\ sess[s].step \in {"releasing", "closing"} /\ ~sess[s].disconnected
  BY <1>1, <1>2 DEF Owed
<1> DEFINE rest == Tail(link[s])
<1>4. rest = <<>> /\ 1..Len(rest) = {}
  <2>1. rest \in Seq(Calls) /\ Len(rest) = 0
    BY <1>1, <1>3
  <2> HIDE DEF rest
  <2>2. 1..0 = {} /\ rest = <<>>
    BY <2>1
  <2>3. QED
    BY <2>1, <2>2
<1> HIDE DEF rest
<1>5. Owed(s, sess[s], rest, FALSE)
  <2>1. sess[s].step \notin {"new", "admitted", "done"}
    BY <1>3
  <2>2. \A i \in 1..Len(rest) : FALSE
    BY <1>4
  <2>3. QED
    BY <1>3, <1>4, <2>1, <2>2, Zenon DEF Owed
<1>6. QED
  BY <1>5, Zenon DEF rest

\* Sensors, after messages of Bus b were published and its readers were told.
LEMMA Published ==
  ASSUME Inv, NEW b \in Buses, NEW kinds \in SUBSET Kinds, dirty' = Told(kinds, b),
         sensor' = [k \in Kinds |-> sensor'[k]], NEW x, NEW m,
         sensor'["result"] = [sensor["result"] EXCEPT ![Channel(b)] = x],
         sensor'["lease"] = [sensor["lease"] EXCEPT ![Channel(b)] = m],
         x \in Results \/ (x = sensor["result"][Channel(b)] /\ "result" \notin kinds),
         m \in LeaseMsgs \/ (m = sensor["lease"][Channel(b)] /\ "lease" \notin kinds)
  PROVE  Sensors' /\ dirty' \in [Scans -> SUBSET Kinds]
<1>1. /\ sensor["result"] \in [Channels -> Results \cup {NoState}]
      /\ sensor["lease"] \in [Channels -> LeaseMsgs \cup {NoState}]
      /\ Channel(b) \in Channels /\ \A t \in Scans : Channel(BusOf[t]) \in Channels
  BY BridgeAssumption DEF Inv, Sensors, Channels
<1>2. /\ sensor'["result"] \in [Channels -> Results \cup {NoState}]
      /\ sensor'["lease"] \in [Channels -> LeaseMsgs \cup {NoState}]
  BY <1>1
<1>3. dirty \in [Scans -> SUBSET Kinds]
  BY DEF Inv, Wires
<1>4. \A t \in Scans : dirty'[t] = IF Connected(t) /\ Channel(BusOf[t]) = Channel(b)
                                   THEN dirty[t] \cup kinds ELSE dirty[t]
  BY DEF Told
<1>5. dirty' \in [Scans -> SUBSET Kinds]
  BY <1>3 DEF Told
<1>6. ASSUME NEW t \in Scans, "result" \in dirty'[t]
      PROVE  sensor'["result"][Channel(BusOf[t])] \in Results
  <2>1. "result" \in dirty[t] => sensor["result"][Channel(BusOf[t])] \in Results
    BY DEF Inv, Sensors
  <2>2. CASE Channel(BusOf[t]) = Channel(b)
    <3>1. sensor'["result"][Channel(BusOf[t])] = x
      BY <1>1, <2>2
    <3>2. QED
      BY <1>4, <1>6, <2>1, <2>2, <3>1
  <2>3. CASE Channel(BusOf[t]) # Channel(b)
    <3>1. sensor'["result"][Channel(BusOf[t])] = sensor["result"][Channel(BusOf[t])]
      BY <1>1, <2>3
    <3>2. QED
      BY <1>4, <1>6, <2>1, <2>3, <3>1
  <2>4. QED
    BY <2>2, <2>3
<1>7. ASSUME NEW t \in Scans, "lease" \in dirty'[t]
      PROVE  sensor'["lease"][Channel(BusOf[t])] \in LeaseMsgs
  <2>1. "lease" \in dirty[t] => sensor["lease"][Channel(BusOf[t])] \in LeaseMsgs
    BY DEF Inv, Sensors
  <2>2. CASE Channel(BusOf[t]) = Channel(b)
    <3>1. sensor'["lease"][Channel(BusOf[t])] = m
      BY <1>1, <2>2
    <3>2. QED
      BY <1>4, <1>7, <2>1, <2>2, <3>1
  <2>3. CASE Channel(BusOf[t]) # Channel(b)
    <3>1. sensor'["lease"][Channel(BusOf[t])] = sensor["lease"][Channel(BusOf[t])]
      BY <1>1, <2>3
    <3>2. QED
      BY <1>4, <1>7, <2>1, <2>3, <3>1
  <2>4. QED
    BY <2>2, <2>3
<1>8. QED
  BY <1>2, <1>5, <1>6, <1>7 DEF Sensors, Channel

\* A result of Bus b is published, and nothing else.
LEMMA ResultPublished ==
  ASSUME Inv, NEW b \in Buses, dirty' = Told({"result"}, b), NEW p \in Probes, BusOf[p.scan] = b,
         NEW outcome \in Outcomes, PublishResult(p, outcome)
  PROVE  /\ Sensors' /\ dirty' \in [Scans -> SUBSET Kinds]
         /\ sensor'["result"][Channel(b)] = [probe |-> p, outcome |-> outcome]
<1> DEFINE x == [probe |-> p, outcome |-> outcome]
           m == sensor["lease"][Channel(b)]
<1>1. sensor' = [sensor EXCEPT !["result"][Channel(b)] = x] /\ x \in Results
  BY DEF PublishResult, Results
<1>2. /\ sensor = [k \in Kinds |-> sensor[k]] /\ Channel(b) \in Channels
      /\ sensor["result"] \in [Channels -> Results \cup {NoState}]
      /\ sensor["lease"] \in [Channels -> LeaseMsgs \cup {NoState}]
  BY DEF Inv, Sensors, Channels
<1> HIDE DEF x
<1>3. /\ sensor' = [k \in Kinds |-> sensor'[k]]
      /\ sensor'["result"] = [sensor["result"] EXCEPT ![Channel(b)] = x]
      /\ sensor'["lease"] = sensor["lease"]
  BY <1>1, <1>2
<1>4. sensor["lease"] = [sensor["lease"] EXCEPT ![Channel(b)] = m]
  BY <1>2
<1>5. Sensors' /\ dirty' \in [Scans -> SUBSET Kinds]
  <2> HIDE DEF m
  <2>1. {"result"} \in SUBSET Kinds /\ "lease" \notin {"result"}
    OBVIOUS
  <2>2. m = sensor["lease"][Channel(b)]
    BY DEF m
  <2>3. /\ x \in Results \/ (x = sensor["result"][Channel(b)] /\ "result" \notin {"result"})
        /\ m \in LeaseMsgs \/ (m = sensor["lease"][Channel(b)] /\ "lease" \notin {"result"})
    BY <1>1, <2>1, <2>2
  <2>4. sensor'["lease"] = [sensor["lease"] EXCEPT ![Channel(b)] = m]
    BY <1>3, <1>4
  <2>5. QED
    BY <1>3, <2>1, <2>3, <2>4, Published
<1>6. QED
  BY <1>1, <1>2, <1>3, <1>5 DEF x

\* A lease message of Bus b is published, and nothing else.
LEMMA LeasePublished ==
  ASSUME Inv, NEW b \in Buses, dirty' = Told({"lease"}, b), NEW m \in LeaseMsgs, PublishLease(b, m)
  PROVE  Sensors' /\ dirty' \in [Scans -> SUBSET Kinds] /\ sensor'["result"] = sensor["result"]
<1> DEFINE x == sensor["result"][Channel(b)]
<1>1. sensor' = [sensor EXCEPT !["lease"][Channel(b)] = m]
  BY DEF PublishLease
<1>2. /\ sensor = [k \in Kinds |-> sensor[k]] /\ Channel(b) \in Channels
      /\ sensor["result"] \in [Channels -> Results \cup {NoState}]
      /\ sensor["lease"] \in [Channels -> LeaseMsgs \cup {NoState}]
  BY DEF Inv, Sensors, Channels
<1>3. /\ sensor' = [k \in Kinds |-> sensor'[k]] /\ sensor'["result"] = sensor["result"]
      /\ sensor'["lease"] = [sensor["lease"] EXCEPT ![Channel(b)] = m]
  BY <1>1, <1>2
<1>4. sensor["result"] = [sensor["result"] EXCEPT ![Channel(b)] = x]
  BY <1>2
<1>5. Sensors' /\ dirty' \in [Scans -> SUBSET Kinds]
  <2>1. {"lease"} \in SUBSET Kinds /\ "result" \notin {"lease"} /\ x = sensor["result"][Channel(b)]
    OBVIOUS
  <2> HIDE DEF x
  <2>2. /\ x \in Results \/ (x = sensor["result"][Channel(b)] /\ "result" \notin {"lease"})
        /\ m \in LeaseMsgs \/ (m = sensor["lease"][Channel(b)] /\ "lease" \notin {"lease"})
    BY <2>1
  <2>3. sensor'["result"] = [sensor["result"] EXCEPT ![Channel(b)] = x]
    BY <1>3, <1>4
  <2>4. QED
    BY <1>3, <2>1, <2>2, <2>3, Published
<1>6. QED
  BY <1>3, <1>5

\* A probe the Bus refuses takes no lease.
LEMMA ProbeBusyInv == ASSUME Inv, NEW s \in Scans, ProbeBusy(s) PROVE Inv'
<1> DEFINE p == Head(link[s]).probe
<1>1. /\ link[s] # <<>> /\ Head(link[s]).call = "probe" /\ link' = [link EXCEPT ![s] = Tail(@)]
      /\ PublishResult(p, "gateway_error") /\ dirty' = Told({"result"}, BusOf[s])
      /\ UNCHANGED <<sess, cancelled, checking, faults, inbox, lease, flight, reported, leaseEnd>>
  BY DEF ProbeBusy, haVars
<1>2. dirty' \in [Scans -> SUBSET Kinds]
  <2>1. dirty \in [Scans -> SUBSET Kinds]
    BY DEF Inv, Wires
  <2>2. QED
    BY <1>1, <2>1 DEF Told
<1>3. /\ Wires' /\ link'[s] = Tail(link[s]) /\ \A t \in Scans \ {s} : link'[t] = link[t]
      /\ p \in Probes /\ p.scan = s
  BY <1>1, <1>2, CallTaken
<1> HIDE DEF p
<1>4. Sensors'
  BY <1>1, <1>3, ResultPublished, BridgeAssumption
<1>5. BusTypes'
  BY <1>1, UnchangedTypes
<1>6. ASSUME NEW t \in Scans, faults = 0 PROVE Owed(t, sess[t], link'[t], HeldBy(t)')
  <2>1. HeldBy(t)' = HeldBy(t)
    BY <1>1 DEF HeldBy
  <2>2. CASE t = s
    BY <1>1, <1>3, <1>6, <2>1, <2>2, OwedProbe
  <2>3. CASE t # s
    BY <1>3, <1>6, <2>1, <2>3, InvOf
  <2>4. QED
    BY <2>2, <2>3
<1>7. QED
  BY <1>1, <1>3, <1>4, <1>5, <1>6, GatewayInv

\* The end of a probe is published on its own Bus's sensor.
LEMMA ProbeEndsInv ==
  ASSUME Inv, NEW b \in Buses, NEW outcome \in Outcomes, ProbeEnds(b, outcome)
  PROVE  Inv'
<1>1. /\ flight[b] # NoProbe /\ flight' = [flight EXCEPT ![b] = NoProbe]
      /\ PublishResult(flight[b], outcome) /\ dirty' = Told({"result"}, b)
      /\ UNCHANGED <<sess, cancelled, checking, faults, link, inbox, lease, reported, leaseEnd>>
  BY DEF ProbeEnds, haVars
<1>2. flight[b] \in Probes /\ BusOf[flight[b].scan] = b
  BY <1>1 DEF Inv, BusTypes
<1>3. Sensors' /\ dirty' \in [Scans -> SUBSET Kinds]
  BY <1>1, <1>2, ResultPublished
<1>4. Wires'
  BY <1>1, <1>3 DEF Inv, Wires
<1>5. BusTypes'
  <2>1. flight \in [Buses -> Probes \cup {NoProbe}]
    BY DEF Inv, BusTypes
  <2>2. flight' \in [Buses -> Probes \cup {NoProbe}]
    BY <1>1, <2>1
  <2>3. \A c \in Buses : flight'[c] = flight[c] \/ flight'[c] = NoProbe
    BY <1>1, <2>1
  <2>4. QED
    BY <1>1, <2>2, <2>3 DEF Inv, BusTypes
<1>6. ASSUME NEW t \in Scans, faults = 0 PROVE Owed(t, sess[t], link'[t], HeldBy(t)')
  <2>1. HeldBy(t)' = HeldBy(t)
    BY <1>1 DEF HeldBy
  <2>2. QED
    BY <1>1, <1>6, <2>1, InvOf
<1>7. QED
  BY <1>1, <1>3, <1>4, <1>5, <1>6, GatewayInv

\* The lease after a probe: none is taken from another Scan but by one that pauses.
LEMMA LeaseForFacts ==
  ASSUME Inv, NEW s \in Scans
  PROVE  LET b == BusOf[s]
         IN /\ LeaseFor(b, s) \in Leases
            /\ LeaseFor(b, s).active => LeaseFor(b, s).scan \in Scans
            /\ LeaseForPublishes(b, s) => LeaseForMsg(b, s) \in LeaseMsgs
            /\ \A t \in Scans : LeaseFor(b, s).active /\ LeaseFor(b, s).scan = t =>
                 (lease[b].active /\ lease[b].scan = t) \/ (t = s /\ Pauses[s])
<1> DEFINE b == BusOf[s]
<1>1. b \in Buses /\ lease[b] \in Leases /\ (lease[b].active => lease[b].scan \in Scans)
  BY BridgeAssumption DEF Inv, BusTypes
<1> HIDE DEF b
<1>2. CASE Begins(b, s)
  <2>1. LeaseFor(b, s) = [scan |-> s, active |-> TRUE, reason |-> "unset"]
    BY <1>2 DEF LeaseFor
  <2>2. LeaseForMsg(b, s) \in LeaseMsgs
    BY <1>2 DEF LeaseForMsg, LeaseMsg, LeaseMsgs
  <2>3. QED
    BY <1>2, <2>1, <2>2 DEF Leases, Begins, b
<1>3. CASE ~Begins(b, s) /\ Supersedes(b, s)
  <2>1. LeaseFor(b, s) = [lease[b] EXCEPT !.active = FALSE, !.reason = "superseded"]
    BY <1>3 DEF LeaseFor, Ended
  <2>2. LeaseFor(b, s) \in Leases /\ ~LeaseFor(b, s).active
    BY <1>1, <2>1 DEF Leases
  <2>3. LeaseForMsg(b, s) \in LeaseMsgs
    BY <1>1, <1>3 DEF LeaseForMsg, LeaseMsg, LeaseMsgs, Supersedes
  <2>4. QED
    BY <2>2, <2>3 DEF b
<1>4. CASE ~Begins(b, s) /\ ~Supersedes(b, s)
  <2>1. LeaseFor(b, s) = lease[b] /\ ~LeaseForPublishes(b, s)
    BY <1>4 DEF LeaseFor, LeaseForPublishes
  <2>2. QED
    BY <1>1, <2>1 DEF b
<1>5. QED
  BY <1>2, <1>3, <1>4

\* A probe that arrives begins a lease only for a Scan that owes the release.
LEMMA ProbeArrivesInv ==
  ASSUME Inv, NEW s \in Scans, NEW accepted \in BOOLEAN, ProbeArrives(s, accepted)
  PROVE  Inv'
<1> DEFINE b == BusOf[s]
           p == Head(link[s]).probe
           tells == LeaseForPublishes(b, s)
           x == IF accepted THEN sensor["result"][Channel(b)]
                ELSE [probe |-> p, outcome |-> "gateway_error"]
           m == IF tells THEN LeaseForMsg(b, s) ELSE sensor["lease"][Channel(b)]
           kinds == (IF tells THEN {"lease"} ELSE {}) \cup (IF accepted THEN {} ELSE {"result"})
           f == IF accepted THEN p ELSE NoProbe
<1>1. /\ link[s] # <<>> /\ Head(link[s]).call = "probe" /\ link' = [link EXCEPT ![s] = Tail(@)]
      /\ lease' = [lease EXCEPT ![b] = LeaseFor(b, s)]
      /\ leaseEnd' = LeaseEndAfter(b, s) /\ flight' = [flight EXCEPT ![b] = f]
      /\ sensor' = [sensor EXCEPT
            !["lease"][Channel(b)] = IF tells THEN LeaseForMsg(b, s) ELSE @,
            !["result"][Channel(b)] = IF accepted THEN @ ELSE [probe |-> p, outcome |-> "gateway_error"]]
      /\ dirty' = Told(kinds, b)
      /\ UNCHANGED <<sess, cancelled, checking, faults, inbox, reported>>
  BY DEF ProbeArrives, haVars
<1>2. b \in Buses
  BY BridgeAssumption
<1>3. dirty' \in [Scans -> SUBSET Kinds]
  <2>1. dirty \in [Scans -> SUBSET Kinds] /\ kinds \subseteq Kinds
    BY DEF Inv, Wires
  <2> HIDE DEF kinds
  <2>2. QED
    BY <1>1, <2>1 DEF Told
<1>4. /\ Wires' /\ link'[s] = Tail(link[s]) /\ \A t \in Scans \ {s} : link'[t] = link[t]
      /\ p \in Probes /\ p.scan = s
  BY <1>1, <1>3, CallTaken
<1>5. /\ LeaseFor(b, s) \in Leases
      /\ LeaseFor(b, s).active => LeaseFor(b, s).scan \in Scans
      /\ tells => LeaseForMsg(b, s) \in LeaseMsgs
      /\ \A t \in Scans : LeaseFor(b, s).active /\ LeaseFor(b, s).scan = t =>
           (lease[b].active /\ lease[b].scan = t) \/ (t = s /\ Pauses[s])
  BY LeaseForFacts
<1>6. Sensors'
  <2>1. x \in Results \/ (x = sensor["result"][Channel(b)] /\ "result" \notin kinds)
    <3>1. CASE accepted
      BY <3>1
    <3>2. CASE ~accepted
      <4> DEFINE y == [probe |-> p, outcome |-> "gateway_error"]
      <4>1. x = y
        BY <3>2
      <4>2. y \in Results
        <5> HIDE DEF p
        <5>1. QED
          BY <1>4 DEF Results
      <4>3. QED
        BY <4>1, <4>2
    <3>3. QED
      BY <3>1, <3>2
  <2>2. m \in LeaseMsgs \/ (m = sensor["lease"][Channel(b)] /\ "lease" \notin kinds)
    BY <1>5
  <2>3. /\ sensor = [k \in Kinds |-> sensor[k]] /\ Channel(b) \in Channels
        /\ sensor["result"] \in [Channels -> Results \cup {NoState}]
        /\ sensor["lease"] \in [Channels -> LeaseMsgs \cup {NoState}]
    BY <1>2 DEF Inv, Sensors, Channels
  <2>4. sensor' = [sensor EXCEPT !["lease"][Channel(b)] = m, !["result"][Channel(b)] = x]
    BY <1>1, <2>3
  <2>5. kinds \in SUBSET Kinds /\ dirty' = Told(kinds, b)
    BY <1>1
  <2> HIDE DEF x, m, kinds, b, tells, p
  <2>6. /\ sensor' = [k \in Kinds |-> sensor'[k]]
        /\ sensor'["result"] = [sensor["result"] EXCEPT ![Channel(b)] = x]
        /\ sensor'["lease"] = [sensor["lease"] EXCEPT ![Channel(b)] = m]
    BY <2>3, <2>4
  <2>7. QED
    BY <1>2, <2>1, <2>2, <2>5, <2>6, Published
<1>7. BusTypes'
  <2>1. /\ lease \in [Buses -> Leases] /\ flight \in [Buses -> Probes \cup {NoProbe}]
        /\ \A c \in Buses : /\ lease[c].active => lease[c].scan \in Scans
                            /\ flight[c] # NoProbe => BusOf[flight[c].scan] = c
        /\ leaseEnd \in [Scans -> EndReasons \cup {"unset"}]
    BY DEF Inv, BusTypes
  <2>2. lease' \in [Buses -> Leases] /\ \A c \in Buses : lease'[c].active => lease'[c].scan \in Scans
    BY <1>1, <1>5, <2>1
  <2>3. f \in Probes \cup {NoProbe} /\ (f # NoProbe => BusOf[f.scan] = b)
    BY <1>4
  <2>4. flight' \in [Buses -> Probes \cup {NoProbe}]
        /\ \A c \in Buses : flight'[c] # NoProbe => BusOf[flight'[c].scan] = c
    <3> HIDE DEF f
    <3>1. QED
      BY <1>1, <2>1, <2>3
  <2>5. leaseEnd' \in [Scans -> EndReasons \cup {"unset"}]
    BY <1>1, <2>1 DEF LeaseEndAfter, Noted
  <2>6. QED
    BY <2>2, <2>4, <2>5 DEF BusTypes
<1>8. ASSUME NEW t \in Scans, faults = 0 PROVE Owed(t, sess[t], link'[t], HeldBy(t)')
  <2>1. HeldBy(t)' => HeldBy(t) \/ (t = s /\ Pauses[s])
    <3>1. lease \in [Buses -> Leases] /\ BusOf[t] \in Buses
      BY BridgeAssumption DEF Inv, BusTypes
    <3>2. CASE BusOf[t] = b
      <4>1. lease'[BusOf[t]] = LeaseFor(b, s)
        BY <1>1, <3>1, <3>2
      <4>2. QED
        BY <1>5, <3>2, <4>1 DEF HeldBy
    <3>3. CASE BusOf[t] # b
      <4>1. lease'[BusOf[t]] = lease[BusOf[t]]
        BY <1>1, <3>1, <3>3
      <4>2. QED
        BY <4>1 DEF HeldBy
    <3>4. QED
      BY <3>2, <3>3
  <2>2. CASE t = s
    BY <1>1, <1>4, <1>8, <2>1, <2>2, OwedProbe
  <2>3. CASE t # s
    BY <1>4, <1>8, <2>1, <2>3, OwedLess
  <2>4. QED
    BY <2>2, <2>3
<1>9. QED
  BY <1>1, <1>4, <1>6, <1>7, <1>8, GatewayInv

\* A lease that ends keeps its Scan.
LEMMA EndedFacts ==
  ASSUME Inv, NEW b \in Buses, NEW reason \in EndReasons, lease' = [lease EXCEPT ![b] = Ended(b, reason)],
         UNCHANGED flight, leaseEnd' \in [Scans -> EndReasons \cup {"unset"}]
  PROVE  BusTypes' /\ \A t \in Scans : HeldBy(t)' => HeldBy(t) /\ BusOf[t] # b
<1>1. lease \in [Buses -> Leases] /\ lease[b] \in Leases
  BY DEF Inv, BusTypes
<1>2. Ended(b, reason) \in Leases /\ ~Ended(b, reason).active
  BY <1>1 DEF Ended, Leases
<1> HIDE DEF EndReasons
<1>3. /\ lease'[b] = Ended(b, reason) /\ \A c \in Buses \ {b} : lease'[c] = lease[c]
      /\ lease' \in [Buses -> Leases]
  BY <1>1, <1>2
<1>4. BusTypes'
  BY <1>2, <1>3 DEF Inv, BusTypes
<1>5. ASSUME NEW t \in Scans, HeldBy(t)' PROVE HeldBy(t) /\ BusOf[t] # b
  <2>1. BusOf[t] \in Buses
    BY BridgeAssumption
  <2>2. BusOf[t] # b
    BY <1>2, <1>3, <1>5 DEF HeldBy
  <2>3. QED
    BY <1>3, <1>5, <2>1, <2>2 DEF HeldBy
<1>6. QED
  BY <1>4, <1>5

\* A lease that expires is held by nobody, so no Scan owes more than before.
LEMMA LeaseExpiresInv ==
  ASSUME Inv, NEW b \in Buses, NEW reason \in EarlyReasons, LeaseExpires(b, reason)
  PROVE  Inv'
<1>1. /\ lease[b].active /\ lease' = [lease EXCEPT ![b] = Ended(b, reason)]
      /\ leaseEnd' = [leaseEnd EXCEPT ![lease[b].scan] = Noted(lease[b].scan, reason)]
      /\ PublishLease(b, LeaseMsg(lease[b].scan, "ended", reason)) /\ dirty' = Told({"lease"}, b)
      /\ UNCHANGED <<sess, cancelled, checking, faults, link, inbox, flight, reported>>
  BY DEF LeaseExpires, haVars
<1>2. lease[b].scan \in Scans /\ reason \in EndReasons
  BY <1>1 DEF Inv, BusTypes
<1>3. LeaseMsg(lease[b].scan, "ended", reason) \in LeaseMsgs
  BY <1>2 DEF LeaseMsg, LeaseMsgs
<1>4. leaseEnd' \in [Scans -> EndReasons \cup {"unset"}]
  <2>1. leaseEnd \in [Scans -> EndReasons \cup {"unset"}]
    BY DEF Inv, BusTypes
  <2>2. Noted(lease[b].scan, reason) \in EndReasons \cup {"unset"}
    BY <1>2 DEF Noted
  <2> HIDE DEF EndReasons
  <2>3. QED
    BY <1>1, <2>1, <2>2
<1>5. Sensors' /\ dirty' \in [Scans -> SUBSET Kinds]
  BY <1>1, <1>3, LeasePublished
<1>6. Wires'
  BY <1>1, <1>5 DEF Inv, Wires
<1>7. BusTypes' /\ \A t \in Scans : HeldBy(t)' => HeldBy(t)
  BY <1>1, <1>2, <1>4, EndedFacts
<1>8. ASSUME NEW t \in Scans, faults = 0 PROVE Owed(t, sess[t], link'[t], HeldBy(t)')
  BY <1>1, <1>7, <1>8, OwedLess
<1>9. QED
  BY <1>1, <1>5, <1>6, <1>7, <1>8, GatewayInv

\* The release that arrives is the last call, and leaves nothing held.
LEMMA ReleaseArrivesInv == ASSUME Inv, NEW s \in Scans, ReleaseArrives(s) PROVE Inv'
<1> DEFINE b == BusOf[s]
           ends == lease[b].active /\ lease[b].scan = s
<1>1. /\ link[s] # <<>> /\ Head(link[s]).call = "release" /\ link' = [link EXCEPT ![s] = Tail(@)]
      /\ lease' = IF ends THEN [lease EXCEPT ![b] = Ended(b, "released")] ELSE lease
      /\ leaseEnd' = IF ends THEN [leaseEnd EXCEPT ![s] = Noted(s, "released")] ELSE leaseEnd
      /\ PublishLease(b, ReleaseMsg(b, s)) /\ dirty' = Told({"lease"}, b)
      /\ UNCHANGED <<sess, cancelled, checking, faults, inbox, flight, reported>>
  BY DEF ReleaseArrives, haVars
<1>2. b \in Buses /\ lease[b] \in Leases
  BY BridgeAssumption DEF Inv, BusTypes
<1>3. ReleaseMsg(b, s) \in LeaseMsgs
  BY <1>2 DEF ReleaseMsg, LeaseMsg, LeaseMsgs, Leases
<1>4. Sensors' /\ dirty' \in [Scans -> SUBSET Kinds]
  BY <1>1, <1>2, <1>3, LeasePublished
<1>5. Wires' /\ link'[s] = Tail(link[s]) /\ \A t \in Scans \ {s} : link'[t] = link[t]
  BY <1>1, <1>4, CallTaken
<1>6. leaseEnd' \in [Scans -> EndReasons \cup {"unset"}]
  <2>1. leaseEnd \in [Scans -> EndReasons \cup {"unset"}]
    BY DEF Inv, BusTypes
  <2>2. Noted(s, "released") \in EndReasons \cup {"unset"}
    BY DEF Noted
  <2> HIDE DEF EndReasons, ends
  <2>3. QED
    BY <1>1, <2>1, <2>2
<1>7. BusTypes' /\ ~HeldBy(s)' /\ \A t \in Scans : HeldBy(t)' => HeldBy(t)
  <2>1. CASE ends
    <3>1. "released" \in EndReasons
      OBVIOUS
    <3>2. lease' = [lease EXCEPT ![b] = Ended(b, "released")]
      BY <1>1, <2>1
    <3>3. UNCHANGED flight
      BY <1>1
    <3>4. BusTypes' /\ \A t \in Scans : HeldBy(t)' => HeldBy(t) /\ BusOf[t] # b
      <4> HIDE DEF b
      <4>1. QED
        BY <1>2, <1>6, <3>1, <3>2, <3>3, EndedFacts
    <3>5. QED
      BY <3>4
  <2>2. CASE ~ends
    <3>1. UNCHANGED <<lease, leaseEnd, flight>>
      BY <1>1, <2>2
    <3>2. BusTypes'
      BY <3>1, UnchangedTypes
    <3>3. \A t \in Scans : HeldBy(t)' = HeldBy(t)
      BY <3>1 DEF HeldBy
    <3>4. ~HeldBy(s)
      BY <2>2 DEF HeldBy
    <3>5. QED
      BY <3>2, <3>3, <3>4
  <2>3. QED
    BY <2>1, <2>2
<1>8. ASSUME NEW t \in Scans, faults = 0 PROVE Owed(t, sess[t], link'[t], HeldBy(t)')
  <2>1. CASE t = s
    <3>1. Owed(s, sess[s], Tail(link[s]), FALSE)
      BY <1>1, <1>8, OwedRelease
    <3>2. Owed(s, sess[s], Tail(link[s]), HeldBy(s)')
      BY <1>7, <3>1 DEF Owed
    <3>3. QED
      BY <1>5, <2>1, <3>2
  <2>2. CASE t # s
    BY <1>5, <1>7, <1>8, <2>2, OwedLess
  <2>3. QED
    BY <2>1, <2>2
<1>9. QED
  BY <1>1, <1>4, <1>5, <1>7, <1>8, GatewayInv

\* A batch that leaves carries only states that were published.
LEMMA FlushInv == ASSUME Inv, NEW s \in Scans, NEW kind \in Kinds, Flush(s, kind) PROVE Inv'
<1> DEFINE state == [kind |-> kind, msg |-> sensor[kind][Channel(BusOf[s])]]
<1>1. /\ kind \in dirty[s] /\ dirty' = [dirty EXCEPT ![s] = @ \ {kind}]
      /\ inbox' = [inbox EXCEPT ![s] = Append(@, state)]
      /\ UNCHANGED <<sess, cancelled, checking, faults, link, sensor, lease, flight, reported, leaseEnd>>
  BY DEF Flush, haVars, gatewayVars, historyVars
<1>2. /\ kind = "result" => sensor[kind][Channel(BusOf[s])] \in Results
      /\ kind = "lease" => sensor[kind][Channel(BusOf[s])] \in LeaseMsgs
  BY <1>1 DEF Inv, Sensors
<1>3. state \in States
  BY <1>2 DEF States
<1> HIDE DEF state
<1>4. inbox \in [Scans -> Seq(States)] /\ dirty \in [Scans -> SUBSET Kinds]
  BY DEF Inv, Wires
<1>5. inbox' \in [Scans -> Seq(States)]
  BY <1>1, <1>3, <1>4
<1>6. dirty' \in [Scans -> SUBSET Kinds] /\ \A t \in Scans : dirty'[t] \subseteq dirty[t]
  BY <1>1, <1>4
<1>7. Wires'
  BY <1>1, <1>5, <1>6 DEF Inv, Wires
<1>8. Sensors'
  BY <1>1, <1>6 DEF Inv, Sensors
<1>9. BusTypes'
  BY <1>1, UnchangedTypes
<1>10. ASSUME NEW t \in Scans, faults = 0 PROVE Owed(t, sess[t], link'[t], HeldBy(t)')
  <2>1. HeldBy(t)' = HeldBy(t)
    BY <1>1 DEF HeldBy
  <2>2. QED
    BY <1>1, <1>10, <2>1, InvOf
<1>11. QED
  BY <1>1, <1>7, <1>8, <1>9, <1>10, GatewayInv
------------------------------------------------------------------------------
(* Theorems. *)

\* The initial state satisfies the invariant.
LEMMA InitInv == Init => Inv
<1> SUFFICES ASSUME Init PROVE Inv
  OBVIOUS
<1> USE DEF Init
<1>1. \A s \in Scans : /\ Sound(s, Locals("new")) /\ Locals("new").step = "new"
                       /\ ~Locals("new").disconnected /\ Locals("new").requested = FALSE
  BY LocalsSound
<1>2. \A s \in Scans : sess[s] = Locals("new") /\ link[s] = <<>> /\ dirty[s] = {} /\ reported[s] = {}
  OBVIOUS
<1>3. Sessions
  <2>1. sess \in [Scans -> AllLocals]
    BY <1>1 DEF Sound, Fits
  <2>2. QED
    BY <1>1, <1>2, <2>1 DEF Sessions
<1>4. Marks
  BY BridgeAssumption DEF Marks
<1>5. Wires
  <2>1. <<>> \in Seq(Calls) /\ <<>> \in Seq(States)
    OBVIOUS
  <2>2. link \in [Scans -> Seq(Calls)] /\ inbox \in [Scans -> Seq(States)]
    BY <2>1
  <2>3. dirty \in [Scans -> SUBSET Kinds]
    OBVIOUS
  <2>4. \A s \in Scans, i \in Nat : i \notin 1..Len(link[s])
    BY <1>2
  <2>5. QED
    BY <2>2, <2>3, <2>4 DEF Wires
<1>6. Sensors
  <2>1. \A s \in Scans : "result" \notin dirty[s] /\ "lease" \notin dirty[s]
    BY <1>2
  <2>2. /\ sensor = [k \in Kinds |-> sensor[k]]
        /\ sensor["result"] \in [Channels -> Results \cup {NoState}]
        /\ sensor["lease"] \in [Channels -> LeaseMsgs \cup {NoState}]
    BY DEF Channels
  <2>3. QED
    BY <2>1, <2>2 DEF Sensors
<1>7. BusTypes
  BY DEF BusTypes, Leases
<1>8. Reports
  BY <1>2 DEF Reports, Ahead, Own
<1>9. ChecksAlone
  BY DEF ChecksAlone
<1>10. OneHolder
  BY <1>1, <1>2 DEF OneHolder, Holding
<1>11. ReleaseOwed
  <2>1. ASSUME NEW s \in Scans PROVE Owed(s, sess[s], link[s], HeldBy(s))
    <3>1. ~HeldBy(s)
      BY BridgeAssumption DEF HeldBy
    <3>2. \A i \in 1..Len(link[s]) : FALSE
      BY <1>2
    <3>3. QED
      BY <1>1, <1>2, <3>1, <3>2 DEF Owed
  <2>2. QED
    BY <2>1 DEF ReleaseOwed
<1>12. QED
  BY <1>3, <1>4, <1>5, <1>6, <1>7, <1>8, <1>9, <1>10, <1>11 DEF Inv

\* Every step keeps it.
LEMMA StepInv == Inv /\ [Next]_vars => Inv'
<1> SUFFICES ASSUME Inv, [Next]_vars PROVE Inv'
  OBVIOUS
<1>1. ASSUME NEW s \in Scans, ScanNext(s) PROVE Inv'
  BY <1>1, AdmitInv, ConnectInv, SendProbeInv, ReceiveInv, ProbeResumesInv, NextAddressInv, WaitExpiresInv,
     SendReleaseInv, ReleaseOverInv, DisconnectInv, ConnectionLostInv, CancelInv, TaskCancelledInv DEF ScanNext
<1>2. CASE GatewayNext
  BY <1>2, ProbeBusyInv, ReleaseArrivesInv, ProbeArrivesInv, FlushInv, ProbeEndsInv, LeaseExpiresInv
     DEF GatewayNext
<1>3. ASSUME NEW h \in Homes, CheckBegins(h) \/ CheckEnds(h) \/ Crash(h) PROVE Inv'
  BY <1>3, CheckInv, CrashInv
<1>4. CASE UNCHANGED vars
  <2>1. UNCHANGED <<sess, cancelled, checking, faults, link, inbox, dirty, sensor, lease, flight, reported, leaseEnd>>
    BY <1>4 DEF vars, haVars, netVars, gatewayVars, historyVars
  <2>2. Wires' /\ Sensors' /\ BusTypes'
    BY <2>1, UnchangedTypes
  <2>3. \A s \in Scans : faults = 0 => Owed(s, sess[s], link'[s], HeldBy(s)')
    BY <2>1, InvOf DEF HeldBy
  <2>4. QED
    BY <2>1, <2>2, <2>3, GatewayInv
<1>5. QED
  BY <1>1, <1>2, <1>3, <1>4 DEF Next

\* The inductive invariant holds in every reachable state.
THEOREM InvHolds == Spec => []Inv
  BY InitInv, StepInv, PTL DEF Spec

\* Type correctness.
THEOREM TypeCorrect == Spec => []TypeOK
  BY InvTypes, InvHolds, PTL

\* What a Scan reports is the result of its own probe, one for each address, and no check
\* has the Gateway while a Scan of its Home Assistant does.
THEOREM ReportsHold == Spec => [](OutcomesAreOwn /\ ChecksAlone)
<1>1. Inv => OutcomesAreOwn /\ ChecksAlone
  <2> SUFFICES ASSUME Inv PROVE OutcomesAreOwn
    BY DEF Inv
  <2>1. \A s \in Scans : Own(s, reported[s])
    BY InvOf
  <2>2. QED
    BY <2>1 DEF OutcomesAreOwn, Own
<1>2. QED
  BY <1>1, InvHolds, PTL

\* No step of a Scan changes a lease: what changes it is a call that arrives, or time.
LEMMA LeaseIsTheBuss ==
  ASSUME [Next]_vars, lease' # lease
  PROVE  sess' = sess
<1>1. \A s \in Scans : ~ScanNext(s)
  BY DEF ScanNext, Admit, Connect, SendProbe, Receive, ProbeResumes, NextAddress, WaitExpires, SendRelease,
     ReleaseAnswered, ReleaseExpires, Disconnect, ConnectionLost, Cancel, TaskCancelled, netVars, gatewayVars
<1>2. \A h \in Homes : ~(CheckBegins(h) \/ CheckEnds(h) \/ Crash(h))
  BY DEF CheckBegins, CheckEnds, Crash, gatewayVars
<1>3. GatewayNext
  BY <1>1, <1>2 DEF Next, vars, gatewayVars
<1>4. QED
  BY <1>3 DEF GatewayNext, ProbeBusy, ReleaseArrives, ProbeArrives, Flush, ProbeEnds, LeaseExpires, haVars,
                  gatewayVars

\* While nothing was lost, a Scan that returns leaves no lease behind: its release has
\* arrived, or no probe of it began one.
THEOREM NothingHeldHolds == Spec => NothingHeldAfterReturn
<1> DEFINE Left == \A s \in Scans : Returns(s) /\ faults' = 0 =>
                     ~(lease[BusOf[s]].active /\ lease[BusOf[s]].scan = s)
<1>1. ASSUME Inv, [Next]_vars PROVE Left
  <2> SUFFICES ASSUME NEW s \in Scans, Returns(s), faults' = 0 PROVE ~HeldBy(s)
    BY DEF HeldBy
  <2>1. Inv'
    BY <1>1, StepInv
  <2>2. sess'[s].step = "done" /\ sess' # sess
    BY DEF Returns
  <2>3. Owed(s, sess'[s], link'[s], HeldBy(s)')
    BY <2>1 DEF Inv, ReleaseOwed, Owed
  <2>4. ~HeldBy(s)'
    BY <2>2, <2>3 DEF Owed
  <2>5. lease' = lease
    BY <1>1, <2>2, LeaseIsTheBuss
  <2>6. QED
    BY <2>4, <2>5 DEF HeldBy
<1>2. Inv /\ [Next]_vars => [Left]_vars
  BY <1>1
<1>3. QED
  BY <1>2, InvHolds, PTL DEF Spec, NothingHeldAfterReturn

\* A call is added by SendProbe and SendRelease alone.
LEMMA CallsGrow ==
  ASSUME Inv, [Next]_vars, NEW s \in Scans, Len(link'[s]) > Len(link[s])
  PROVE  SendProbe(s) \/ SendRelease(s)
<1>1. link \in [Scans -> Seq(Calls)] /\ link[s] \in Seq(Calls)
  BY DEF Inv, Wires
<1>2. Len(link[s]) \in Nat /\ Len(<<>>) = 0
  BY <1>1
<1>3. link'[s] # link[s] /\ link'[s] # <<>>
  BY <1>2
<1>4. ~(\E t \in Scans : link[t] # <<>> /\ link' = [link EXCEPT ![t] = Tail(@)])
  <2> SUFFICES ASSUME NEW t \in Scans, link[t] # <<>>, link' = [link EXCEPT ![t] = Tail(@)] PROVE FALSE
    OBVIOUS
  <2>1. CASE t = s
    <3>1. link'[s] = Tail(link[s]) /\ Len(Tail(link[s])) = Len(link[s]) - 1
      BY <1>1, <2>1
    <3>2. QED
      BY <1>2, <3>1
  <2>2. CASE t # s
    BY <1>1, <1>3, <2>2
  <2>3. QED
    BY <2>1, <2>2
<1>5. ~GatewayNext
  BY <1>3, <1>4 DEF GatewayNext, ProbeBusy, ReleaseArrives, ProbeArrives, Flush, ProbeEnds, LeaseExpires
<1>6. \A h \in Homes : ~(CheckBegins(h) \/ CheckEnds(h) \/ Crash(h))
  BY <1>1, <1>3 DEF CheckBegins, CheckEnds, Crash, netVars
<1>7. PICK t \in Scans : ScanNext(t)
  BY <1>3, <1>5, <1>6 DEF Next, vars, netVars
<1>8. link' # link /\ link' # [link EXCEPT ![t] = <<>>]
  BY <1>1, <1>3
<1>9. SendProbe(t) \/ SendRelease(t)
  BY <1>7, <1>8 DEF ScanNext, Admit, Connect, Receive, ProbeResumes, NextAddress, WaitExpires,
     ReleaseAnswered, ReleaseExpires, Disconnect, ConnectionLost, Cancel, TaskCancelled, netVars
<1>10. t = s
  <2>1. \E c : link' = [link EXCEPT ![t] = Append(@, c)]
    BY <1>8, <1>9 DEF SendProbe, SendRelease
  <2>2. QED
    BY <1>1, <1>3, <2>1
<1>11. QED
  BY <1>9, <1>10

\* A cancelled Scan calls no further probe: it looks again once it has its Probe Slot.
THEOREM NoProbeHolds == Spec => NoProbeOnceCancelled
<1> DEFINE Only == \A s \in cancelled : Len(link'[s]) > Len(link[s]) =>
                     link'[s][Len(link'[s])].call = "release"
<1>1. ASSUME Inv, [Next]_vars PROVE Only
  <2> SUFFICES ASSUME NEW s \in cancelled, Len(link'[s]) > Len(link[s])
               PROVE  link'[s][Len(link'[s])].call = "release"
    OBVIOUS
  <2>1. s \in Scans /\ link \in [Scans -> Seq(Calls)]
    BY <1>1 DEF Inv, Marks, Wires
  <2>2. SendProbe(s) \/ SendRelease(s)
    BY <1>1, <2>1, CallsGrow
  <2>3. link' # link
    BY <2>1
  <2>4. ~SendProbe(s)
    BY <2>3 DEF SendProbe, StopsAtSlot
  <2>5. link' = [link EXCEPT ![s] = Append(@, [call |-> "release"])]
    BY <2>2, <2>3, <2>4 DEF SendRelease
  <2> DEFINE c == [call |-> "release"]
  <2>6. c \in Calls /\ c.call = "release"
    BY DEF Calls
  <2> HIDE DEF c
  <2>7. link'[s] = Append(link[s], c) /\ link[s] \in Seq(Calls)
    BY <2>1, <2>5 DEF c
  <2>8. Append(link[s], c)[Len(Append(link[s], c))] = c
    BY <2>6, <2>7
  <2>9. QED
    BY <2>6, <2>7, <2>8
<1>2. Inv /\ [Next]_vars => [Only]_vars
  BY <1>1
<1>3. QED
  BY <1>2, InvHolds, PTL DEF Spec, NoProbeOnceCancelled
------------------------------------------------------------------------------
(* A batch loses no result that is waited for. *)

\* A result on its way stays there, unless it is received, its connection is lost, or
\* another is published.
LEMMA StaysOnTheWay ==
  ASSUME NEW s \in Scans, OnTheWay(s), Current(s)' = Current(s), inbox'[s] = inbox[s],
         "result" \in dirty[s] => "result" \in dirty'[s],
         sensor'["result"][Channel(BusOf[s])] = sensor["result"][Channel(BusOf[s])]
  PROVE  OnTheWay(s)'
<1>1. PICK o \in Outcomes :
        LET result == [probe |-> Current(s), outcome |-> o]
        IN \/ \E i \in 1..Len(inbox[s]) : inbox[s][i].kind = "result" /\ inbox[s][i].msg = result
           \/ "result" \in dirty[s] /\ sensor["result"][Channel(BusOf[s])] = result
  BY DEF OnTheWay
<1> HIDE DEF Outcomes
<1>2. \E q \in Outcomes :
        LET result == [probe |-> Current(s)', outcome |-> q]
        IN \/ \E i \in 1..Len(inbox'[s]) : inbox'[s][i].kind = "result" /\ inbox'[s][i].msg = result
           \/ "result" \in dirty'[s] /\ sensor'["result"][Channel(BusOf[s])] = result
  BY <1>1
<1>3. QED
  BY <1>2 DEF OnTheWay, Channel, Outcomes

\* Told forgets nothing.
LEMMA ToldMore ==
  ASSUME NEW s \in Scans, NEW b, NEW kinds, dirty' = Told(kinds, b)
  PROVE  /\ dirty[s] \subseteq dirty'[s]
         /\ Connected(s) /\ Channel(BusOf[s]) = Channel(b) => kinds \subseteq dirty'[s]
  BY DEF Told

\* The Scans that read one sensor belong to one Home Assistant.  Probe Slots are a Home
\* Assistant's own, so the results of two may replace each other on one sensor.
SensorsOwn ==
  \A t, u \in Scans : Channel(BusOf[t]) = Channel(BusOf[u]) => Home[t] = Home[u]

\* A result is published for probe p on the sensor that Scan s reads: unless s waits for
\* just that, nobody with its Probe Slot waits for p.
LEMMA NoOtherWaits ==
  ASSUME Inv, SensorsOwn, NEW s \in Scans, Waiting(s), Waiting(s)',
         Current(s)' = Current(s), NEW b \in Buses, NEW p \in Probes, BusOf[p.scan] = b,
         Channel(BusOf[s]) = Channel(b), Connected(s) => "result" \in dirty'[s], NEW o \in Outcomes,
         sensor'["result"][Channel(b)] = [probe |-> p, outcome |-> o], ~OnTheWay(s)'
  PROVE  ~(Waiting(p.scan) /\ p = Current(p.scan))
<1> SUFFICES ASSUME Waiting(p.scan), p = Current(p.scan) PROVE FALSE
  OBVIOUS
<1>1. p.scan \in Scans
  BY DEF Probes
<1>2. Slot(p.scan) = Slot(s)
  BY <1>1 DEF Slot, SensorsOwn
<1>3. p.scan = s
  BY <1>1, <1>2 DEF Inv, OneHolder, Holding, Waiting
<1>4. Connected(s)
  BY InvOf DEF Sound, Fits, Waiting, Connected
<1>5. "result" \in dirty'[s]
  BY <1>4
<1>6. sensor'["result"][Channel(BusOf[s])] = [probe |-> Current(s)', outcome |-> o]
  BY <1>3
<1>7. OnTheWay(s)'
  BY <1>5, <1>6 DEF OnTheWay, Channel
<1>8. QED
  BY <1>7

\* A step of another Scan touches neither the locals of Scan s nor what is sent to it.
LEMMA OtherScan ==
  ASSUME Inv, NEW s \in Scans, NEW t \in Scans \ {s}, ScanNext(t)
  PROVE  sess'[s] = sess[s] /\ inbox'[s] = inbox[s] /\ dirty'[s] = dirty[s] /\ sensor' = sensor
<1>1. sess \in [Scans -> AllLocals] /\ inbox \in [Scans -> Seq(States)] /\ dirty \in [Scans -> SUBSET Kinds]
  BY DEF Inv, Sessions, Wires
<1>2. Gone({t}) => sess'[s] = sess[s] /\ inbox'[s] = inbox[s] /\ dirty'[s] = dirty[s]
  BY DEF Gone
<1>3. \A r : Becomes(t, r) => sess'[s] = sess[s]
  BY <1>1 DEF Becomes
<1>4. sensor' = sensor
  BY DEF ScanNext, Admit, Connect, SendProbe, Receive, ProbeResumes, NextAddress, WaitExpires, SendRelease,
     ReleaseAnswered, ReleaseExpires, Disconnect, ConnectionLost, Cancel, TaskCancelled, gatewayVars
<1>5. CASE Admit(t) \/ SendProbe(t) \/ ProbeResumes(t) \/ NextAddress(t) \/ WaitExpires(t)
           \/ SendRelease(t) \/ ReleaseAnswered(t) \/ ReleaseExpires(t) \/ Cancel(t)
  BY <1>3, <1>4, <1>5 DEF Admit, SendProbe, ProbeResumes, NextAddress, WaitExpires, SendRelease,
     ReleaseAnswered, ReleaseExpires, Cancel, netVars
<1>6. CASE Receive(t)
  BY <1>1, <1>3, <1>4, <1>6 DEF Receive
<1>7. CASE Connect(t) \/ Disconnect(t)
  BY <1>1, <1>2, <1>3, <1>4, <1>7 DEF Connect, Disconnect
<1>8. CASE ConnectionLost(t)
  BY <1>1, <1>3, <1>4, <1>8 DEF ConnectionLost
<1>9. CASE TaskCancelled(t)
  BY <1>2, <1>3, <1>4, <1>9 DEF TaskCancelled
<1>10. QED
  BY <1>5, <1>6, <1>7, <1>8, <1>9 DEF ScanNext

\* A step of a Scan that waits, and still waits after it, loses nothing it waits for.
LEMMA OwnStep ==
  ASSUME Inv, NEW s \in Scans, ScanNext(s), Waiting(s), Waiting(s)', OnTheWay(s)
  PROVE  OnTheWay(s)'
<1>1. /\ sess \in [Scans -> AllLocals] /\ sess[s] \in AllLocals /\ inbox[s] \in Seq(States)
      /\ inbox \in [Scans -> Seq(States)]
  BY DEF Inv, Sessions, Wires
<1>2. sess[s].step = "probing" /\ sess[s].pending = "waiting"
  BY DEF Waiting
<1>3. sess'[s].step = "probing" /\ sess'[s].pending = "waiting"
  BY DEF Waiting
<1>4. Receive(s) \/ Cancel(s)
  <2>1. ~(Admit(s) \/ Connect(s) \/ SendProbe(s) \/ ProbeResumes(s) \/ NextAddress(s) \/ SendRelease(s)
           \/ ReleaseAnswered(s) \/ ReleaseExpires(s) \/ Disconnect(s))
    BY <1>2 DEF Admit, Connect, SendProbe, ProbeResumes, NextAddress, SendRelease, ReleaseAnswered,
       ReleaseExpires, Disconnect
  <2>2. ~Becomes(s, Cleanup(sess[s]))
    <3>1. Cleanup(sess[s]).step # "probing"
      BY InvOf, CleanupSound DEF Sound
    <3>2. QED
      BY <1>1, <1>3, <3>1 DEF Becomes
  <2>3. ~(WaitExpires(s) \/ TaskCancelled(s))
    BY <1>2, <2>2 DEF WaitExpires, TaskCancelled
  <2>4. ~ConnectionLost(s)
    <3> SUFFICES ASSUME ConnectionLost(s) PROVE FALSE
      OBVIOUS
    <3>1. sess'[s].pending = "lost"
      BY <1>1, <1>2 DEF ConnectionLost, Becomes, AllLocals
    <3>2. QED
      BY <1>3, <3>1
  <2>5. QED
    BY <2>1, <2>3, <2>4 DEF ScanNext
<1>5. CASE Cancel(s)
  <2>1. UNCHANGED <<sess, inbox, dirty, sensor>>
    BY <1>5 DEF Cancel, netVars, gatewayVars
  <2>2. Current(s)' = Current(s)
    BY <2>1 DEF Current
  <2>3. QED
    BY <2>1, <2>2, StaysOnTheWay
<1>6. CASE Receive(s)
  <2> DEFINE state == Head(inbox[s])
  <2>1. /\ inbox[s] # <<>> /\ inbox' = [inbox EXCEPT ![s] = Tail(@)] /\ UNCHANGED <<dirty, sensor>>
    BY <1>6 DEF Receive, gatewayVars
  <2>2. ~Answers(s, state)
    <3> SUFFICES ASSUME Answers(s, state) PROVE FALSE
      OBVIOUS
    <3>1. state \in States
      BY <1>1, <2>1
    <3>2. state.msg \in Results
      BY <3>1 DEF Answers, States
    <3>3. state.msg.outcome \in Outcomes /\ state.kind = "result"
      BY <3>2 DEF Results, Answers
    <3>4. Becomes(s, [sess[s] EXCEPT !.pending = state.msg.outcome, !.result = state.msg])
      BY <1>6, <3>3 DEF Receive, Tells
    <3>5. sess'[s].pending = state.msg.outcome
      BY <1>1, <3>4 DEF Becomes, AllLocals
    <3>6. QED
      BY <1>3, <3>3, <3>5
  <2>3. Current(s)' = Current(s)
    <3>1. sess'[s].address = sess[s].address /\ sess'[s].attempt = sess[s].attempt
      <4> DEFINE a == IF sess[s].answer = "waiting" /\ state.msg.state # "active" THEN "set"
                      ELSE sess[s].answer
                 st == state.msg.state
                 why == state.msg.reason
      <4>1. \/ sess' = sess
            \/ sess' = [sess EXCEPT ![s] = [sess[s] EXCEPT !.status = st, !.reason = why, !.answer = a]]
        BY <1>6, <2>2 DEF Receive, Becomes
      <4> HIDE DEF a, st, why
      <4> DEFINE q == sess[s]
                 r == [q EXCEPT !.status = st, !.reason = why, !.answer = a]
      <4>2. q \in AllLocals
        BY <1>1
      <4>3. r.address = q.address /\ r.attempt = q.attempt
        <5> HIDE DEF q
        <5>1. QED
          BY <4>2 DEF AllLocals
      <4>4. sess'[s] = sess[s] \/ sess'[s] = r
        BY <1>1, <4>1
      <4> HIDE DEF r
      <4>5. QED
        BY <4>3, <4>4
    <3>2. QED
      BY <3>1 DEF Current
  <2>4. PICK o \in Outcomes :
          LET result == [probe |-> Current(s), outcome |-> o]
          IN \/ \E i \in 1..Len(inbox[s]) : inbox[s][i].kind = "result" /\ inbox[s][i].msg = result
             \/ "result" \in dirty[s] /\ sensor["result"][Channel(BusOf[s])] = result
    BY DEF OnTheWay
  <2> DEFINE result == [probe |-> Current(s), outcome |-> o]
  <2>5. CASE "result" \in dirty[s] /\ sensor["result"][Channel(BusOf[s])] = result
    BY <2>1, <2>3, <2>5 DEF OnTheWay, Channel
  <2>6. ASSUME NEW i \in 1..Len(inbox[s]), inbox[s][i].kind = "result", inbox[s][i].msg = result
        PROVE  OnTheWay(s)'
    <3>1. state = inbox[s][1] /\ result.probe = Current(s)
      BY <1>1, <2>1
    <3> HIDE DEF result
    <3>2. i # 1
      BY <1>2, <2>2, <2>6, <3>1 DEF Answers, Correlated, Waiting
    <3>3. inbox'[s] = Tail(inbox[s])
      BY <1>1, <2>1
    <3>4. i - 1 \in 1..Len(inbox'[s]) /\ inbox'[s][i - 1] = inbox[s][i]
      BY <1>1, <2>1, <3>2, <3>3
    <3>5. inbox'[s][i - 1].kind = "result" /\ inbox'[s][i - 1].msg = [probe |-> Current(s)', outcome |-> o]
      BY <2>3, <2>6, <3>4 DEF result
    <3>6. \E j \in 1..Len(inbox'[s]) :
            inbox'[s][j].kind = "result" /\ inbox'[s][j].msg = [probe |-> Current(s)', outcome |-> o]
      BY <3>4, <3>5
    <3>7. QED
      BY <3>6 DEF OnTheWay
  <2>7. QED
    BY <2>4, <2>5, <2>6
<1>7. QED
  BY <1>4, <1>5, <1>6

\* Results published for Bus b, and the Scan that waits for p: two Scans that wait for
\* results of one sensor would hold one Probe Slot.
LEMMA ResultStep ==
  ASSUME Inv, SensorsOwn, NEW s \in Scans,
         Waiting(s), OnTheWay(s), Waiting(s)', ~OnTheWay(s)',
         UNCHANGED <<sess, inbox>>, NEW b \in Buses, NEW p \in Probes, BusOf[p.scan] = b,
         NEW o \in Outcomes, NEW kinds, "result" \in kinds, dirty' = Told(kinds, b),
         sensor'["result"] = [sensor["result"] EXCEPT ![Channel(b)] = [probe |-> p, outcome |-> o]]
  PROVE  LET q == sensor'["result"][Channel(BusOf[s])].probe
         IN ~(Waiting(q.scan) /\ q = Current(q.scan))
<1>1. Current(s)' = Current(s)
  BY DEF Current
<1>2. sensor'["result"][Channel(b)] = [probe |-> p, outcome |-> o]
  BY DEF Inv, Sensors, Channels
<1> HIDE DEF Outcomes
<1>3. CASE Channel(BusOf[s]) = Channel(b)
  <2>1. Connected(s) => "result" \in dirty'[s]
    BY <1>3, ToldMore
  <2>2. ~(Waiting(p.scan) /\ p = Current(p.scan))
    BY <1>1, <1>2, <1>3, <2>1, NoOtherWaits
  <2>3. QED
    BY <1>2, <1>3, <2>2
<1>4. CASE Channel(BusOf[s]) # Channel(b)
  <2>1. sensor["result"] \in [Channels -> Results \cup {NoState}] /\ "result" \in DOMAIN sensor
    BY DEF Inv, Sensors
  <2>2. sensor'["result"][Channel(BusOf[s])] = sensor["result"][Channel(BusOf[s])]
    BY <1>4, <2>1 DEF Channels
  <2>3. "result" \in dirty[s] => "result" \in dirty'[s]
    BY ToldMore
  <2>4. FALSE
    BY <1>1, <2>2, <2>3, StaysOnTheWay
  <2>5. QED
    BY <2>4
<1>5. QED
  BY <1>3, <1>4

\* A step that publishes no result and tells connections more, not less.
LEMMA QuietStep ==
  ASSUME NEW s \in Scans, OnTheWay(s), UNCHANGED <<sess, inbox>>, dirty[s] \subseteq dirty'[s],
         sensor'["result"] = sensor["result"]
  PROVE  OnTheWay(s)'
<1>1. Current(s)' = Current(s)
  BY DEF Current
<1>2. QED
  BY <1>1, StaysOnTheWay

\* A state that leaves in a batch is on its way.
LEMMA FlushStep ==
  ASSUME Inv, NEW s \in Scans, OnTheWay(s), NEW t \in Scans, NEW kind \in Kinds, Flush(t, kind)
  PROVE  OnTheWay(s)'
<1> DEFINE state == [kind |-> kind, msg |-> sensor[kind][Channel(BusOf[t])]]
<1>1. /\ dirty' = [dirty EXCEPT ![t] = @ \ {kind}] /\ inbox' = [inbox EXCEPT ![t] = Append(@, state)]
      /\ UNCHANGED <<sess, sensor>> /\ kind \in dirty[t]
  BY DEF Flush, haVars, gatewayVars
<1>2. /\ inbox \in [Scans -> Seq(States)] /\ inbox[s] \in Seq(States)
      /\ dirty \in [Scans -> SUBSET Kinds]
  BY DEF Inv, Wires
<1>3. Current(s)' = Current(s)
  BY <1>1 DEF Current
<1>4. CASE t # s
  <2>1. inbox'[s] = inbox[s] /\ dirty'[s] = dirty[s]
    BY <1>1, <1>2, <1>4
  <2>2. QED
    BY <1>1, <1>3, <2>1, StaysOnTheWay
<1>5. CASE t = s
  <2>1. PICK o \in Outcomes :
          LET result == [probe |-> Current(s), outcome |-> o]
          IN \/ \E i \in 1..Len(inbox[s]) : inbox[s][i].kind = "result" /\ inbox[s][i].msg = result
             \/ "result" \in dirty[s] /\ sensor["result"][Channel(BusOf[s])] = result
    BY DEF OnTheWay
  <2> DEFINE result == [probe |-> Current(s), outcome |-> o]
  <2>2. state \in States
    <3>1. /\ kind = "result" => sensor[kind][Channel(BusOf[t])] \in Results
          /\ kind = "lease" => sensor[kind][Channel(BusOf[t])] \in LeaseMsgs
      BY <1>1 DEF Inv, Sensors
    <3>2. QED
      BY <3>1 DEF States
  <2>3. state.kind = kind /\ state.msg = sensor[kind][Channel(BusOf[s])]
    BY <1>5
  <2> HIDE DEF result, state
  <2>4. inbox'[s] = Append(inbox[s], state) /\ dirty'[s] = dirty[s] \ {kind}
    BY <1>1, <1>2, <1>5
  <2>5. /\ Len(inbox'[s]) = Len(inbox[s]) + 1 /\ Len(inbox[s]) \in Nat
        /\ \A i \in 1..Len(inbox[s]) : i \in 1..Len(inbox'[s]) /\ inbox'[s][i] = inbox[s][i]
        /\ inbox'[s][Len(inbox[s]) + 1] = state /\ Len(inbox[s]) + 1 \in 1..Len(inbox'[s])
    BY <1>2, <2>2, <2>4
  <2>6. result = [probe |-> Current(s)', outcome |-> o]
    BY <1>3 DEF result
  <2>7. \/ \E i \in 1..Len(inbox'[s]) : inbox'[s][i].kind = "result" /\ inbox'[s][i].msg = result
        \/ "result" \in dirty'[s] /\ sensor'["result"][Channel(BusOf[s])] = result
    <3>1. CASE \E i \in 1..Len(inbox[s]) : inbox[s][i].kind = "result" /\ inbox[s][i].msg = result
      BY <2>5, <3>1
    <3>2. CASE "result" \in dirty[s] /\ sensor["result"][Channel(BusOf[s])] = result /\ kind = "result"
      BY <2>3, <2>5, <3>2
    <3>3. CASE "result" \in dirty[s] /\ sensor["result"][Channel(BusOf[s])] = result /\ kind # "result"
      BY <1>1, <2>4, <3>3
    <3>4. QED
      BY <2>1, <3>1, <3>2, <3>3 DEF result
  <2>8. QED
    BY <2>6, <2>7 DEF OnTheWay, Channel
<1>6. QED
  BY <1>4, <1>5

\* If the Scans of a sensor are of one Home Assistant, a batch loses the result that a Scan
\* waits for only to the late result of a probe that was given up.
THEOREM ResultsHold ==
  ASSUME SensorsOwn
  PROVE  Spec => ResultsDoNotCollide
<1> DEFINE Apart ==
      \A s \in Scans :
        Waiting(s) /\ OnTheWay(s) /\ Waiting(s)' /\ ~OnTheWay(s)' =>
          LET p == sensor'["result"][Channel(BusOf[s])].probe
          IN ~(Waiting(p.scan) /\ p = Current(p.scan))
<1>1. ASSUME Inv, [Next]_vars PROVE Apart
  <2> SUFFICES ASSUME NEW s \in Scans, Waiting(s), OnTheWay(s), Waiting(s)', ~OnTheWay(s)'
               PROVE  LET p == sensor'["result"][Channel(BusOf[s])].probe
                      IN ~(Waiting(p.scan) /\ p = Current(p.scan))
    BY DEF Channel
  <2> USE <1>1
  <2>1. \A t \in Scans : ~ScanNext(t)
    <3> SUFFICES ASSUME NEW t \in Scans, ScanNext(t) PROVE FALSE
      OBVIOUS
    <3>1. CASE t = s
      BY <3>1, OwnStep
    <3>2. CASE t # s
      <4>1. sess'[s] = sess[s] /\ inbox'[s] = inbox[s] /\ dirty'[s] = dirty[s] /\ sensor' = sensor
        BY <3>2, OtherScan
      <4>2. Current(s)' = Current(s)
        BY <4>1 DEF Current
      <4>3. QED
        BY <4>1, <4>2, StaysOnTheWay
    <3>3. QED
      BY <3>1, <3>2
  <2>2. \A h \in Homes : ~(CheckBegins(h) \/ CheckEnds(h) \/ Crash(h))
    <3> SUFFICES ASSUME NEW h \in Homes, CheckBegins(h) \/ CheckEnds(h) \/ Crash(h) PROVE FALSE
      OBVIOUS
    <3>1. sess'[s] = sess[s] /\ inbox'[s] = inbox[s] /\ dirty'[s] = dirty[s] /\ sensor' = sensor
      <4>1. CASE CheckBegins(h) \/ CheckEnds(h)
        BY <4>1 DEF CheckBegins, CheckEnds, netVars, gatewayVars
      <4>2. CASE Crash(h)
        <5> DEFINE dead == {t \in Scans : Home[t] = h /\ sess[t].step \in Running}
        <5>1. Gone(dead) /\ sensor' = sensor
          BY <4>2 DEF Crash, gatewayVars
        <5>2. Locals("done").step = "done"
          BY LocalsSound
        <5> HIDE DEF dead
        <5>3. s \notin dead
          BY <5>1, <5>2 DEF Gone, Waiting
        <5>4. QED
          BY <5>1, <5>3 DEF Gone
      <4>3. QED
        BY <4>1, <4>2
    <3>2. Current(s)' = Current(s)
      BY <3>1 DEF Current
    <3>3. QED
      BY <3>1, <3>2, StaysOnTheWay
  <2>3. ~(UNCHANGED vars)
    BY QuietStep DEF vars, haVars, netVars, gatewayVars
  <2>4. GatewayNext
    BY <2>1, <2>2, <2>3 DEF Next
  <2>5. ~(\E t \in Scans, kind \in Kinds : Flush(t, kind))
    BY FlushStep
  <2>6. ~(\E t \in Scans : ReleaseArrives(t))
    <3> SUFFICES ASSUME NEW t \in Scans, ReleaseArrives(t) PROVE FALSE
      OBVIOUS
    <3>1. /\ UNCHANGED <<sess, inbox>> /\ dirty' = Told({"lease"}, BusOf[t])
          /\ sensor' = [sensor EXCEPT !["lease"][Channel(BusOf[t])] = ReleaseMsg(BusOf[t], t)]
      BY DEF ReleaseArrives, haVars, PublishLease
    <3>2. sensor'["result"] = sensor["result"]
      BY <3>1 DEF Inv, Sensors
    <3>3. QED
      BY <3>1, <3>2, ToldMore, QuietStep
  <2>7. ~(\E b \in Buses, reason \in EarlyReasons : LeaseExpires(b, reason))
    <3> SUFFICES ASSUME NEW b \in Buses, NEW reason \in EarlyReasons, LeaseExpires(b, reason) PROVE FALSE
      OBVIOUS
    <3> DEFINE msg == LeaseMsg(lease[b].scan, "ended", reason)
    <3>1. /\ UNCHANGED <<sess, inbox>> /\ dirty' = Told({"lease"}, b)
          /\ sensor' = [sensor EXCEPT !["lease"][Channel(b)] = msg]
      BY DEF LeaseExpires, haVars, PublishLease
    <3> HIDE DEF msg
    <3>2. sensor'["result"] = sensor["result"]
      BY <3>1 DEF Inv, Sensors
    <3>3. QED
      BY <3>1, <3>2, ToldMore, QuietStep
  <2>8. ASSUME NEW t \in Scans, ProbeArrives(t, TRUE) PROVE FALSE
    <3>1. UNCHANGED <<sess, inbox>> /\ \E kinds : dirty' = Told(kinds, BusOf[t])
      BY <2>8 DEF ProbeArrives, haVars
    <3>2. \E m : sensor' = [sensor EXCEPT !["lease"][Channel(BusOf[t])] = m,
                                          !["result"][Channel(BusOf[t])] = @]
      BY <2>8 DEF ProbeArrives
    <3>3. sensor'["result"] = sensor["result"]
      BY <3>2 DEF Inv, Sensors
    <3>4. dirty[s] \subseteq dirty'[s]
      BY <3>1, ToldMore
    <3>5. QED
      BY <3>1, <3>3, <3>4, QuietStep
  <2>9. ASSUME NEW t \in Scans, ProbeBusy(t)
        PROVE  LET p == sensor'["result"][Channel(BusOf[s])].probe
               IN ~(Waiting(p.scan) /\ p = Current(p.scan))
    <3> DEFINE p == Head(link[t]).probe
    <3>1. /\ link[t] # <<>> /\ Head(link[t]).call = "probe" /\ link' = [link EXCEPT ![t] = Tail(@)]
          /\ PublishResult(p, "gateway_error") /\ dirty' = Told({"result"}, BusOf[t])
          /\ UNCHANGED <<sess, inbox>>
      BY <2>9 DEF ProbeBusy, haVars
    <3>2. dirty' \in [Scans -> SUBSET Kinds]
      BY <3>1 DEF Told, Inv, Wires
    <3>3. p \in Probes /\ p.scan = t
      BY <3>1, <3>2, CallTaken
    <3>4. sensor' = [sensor EXCEPT !["result"][Channel(BusOf[t])] = [probe |-> p, outcome |-> "gateway_error"]]
      BY <3>1, <3>3 DEF PublishResult
    <3> HIDE DEF p
    <3>5. sensor'["result"] = [sensor["result"] EXCEPT ![Channel(BusOf[t])] = [probe |-> p, outcome |-> "gateway_error"]]
      BY <3>4 DEF Inv, Sensors
    <3>6. QED
      BY <3>1, <3>3, <3>5, ResultStep, BridgeAssumption
  <2>10. ASSUME NEW t \in Scans, ProbeArrives(t, FALSE)
         PROVE  LET p == sensor'["result"][Channel(BusOf[s])].probe
                IN ~(Waiting(p.scan) /\ p = Current(p.scan))
    <3> DEFINE p == Head(link[t]).probe
               lease1 == IF LeaseForPublishes(BusOf[t], t) THEN LeaseForMsg(BusOf[t], t)
                         ELSE sensor["lease"][Channel(BusOf[t])]
               kinds == (IF LeaseForPublishes(BusOf[t], t) THEN {"lease"} ELSE {}) \cup {"result"}
    <3>1. /\ link[t] # <<>> /\ Head(link[t]).call = "probe" /\ link' = [link EXCEPT ![t] = Tail(@)]
          /\ dirty' = Told(kinds, BusOf[t]) /\ UNCHANGED <<sess, inbox>>
      BY <2>10 DEF ProbeArrives, haVars
    <3>2. dirty' \in [Scans -> SUBSET Kinds]
      BY <3>1 DEF Told, Inv, Wires
    <3>3. p \in Probes /\ p.scan = t
      BY <3>1, <3>2, CallTaken
    <3>4. sensor' = [sensor EXCEPT !["lease"][Channel(BusOf[t])] = lease1,
                                   !["result"][Channel(BusOf[t])] = [probe |-> p, outcome |-> "gateway_error"]]
      BY <2>10 DEF ProbeArrives, Inv, Sensors
    <3>5. "result" \in kinds
      OBVIOUS
    <3> HIDE DEF p, lease1, kinds
    <3>6. sensor'["result"] = [sensor["result"] EXCEPT ![Channel(BusOf[t])] = [probe |-> p, outcome |-> "gateway_error"]]
      BY <3>4 DEF Inv, Sensors
    <3>7. QED
      BY <3>1, <3>3, <3>5, <3>6, ResultStep, BridgeAssumption
  <2>11. ASSUME NEW b \in Buses, NEW o \in Outcomes, ProbeEnds(b, o)
         PROVE  LET p == sensor'["result"][Channel(BusOf[s])].probe
                IN ~(Waiting(p.scan) /\ p = Current(p.scan))
    <3> DEFINE p == flight[b]
    <3>1. /\ p # NoProbe /\ PublishResult(p, o) /\ dirty' = Told({"result"}, b)
          /\ UNCHANGED <<sess, inbox>>
      BY <2>11 DEF ProbeEnds, haVars
    <3>2. p \in Probes /\ BusOf[p.scan] = b
      BY <3>1 DEF Inv, BusTypes
    <3> HIDE DEF p
    <3>3. sensor' = [sensor EXCEPT !["result"][Channel(b)] = [probe |-> p, outcome |-> o]]
      BY <3>1, <3>2 DEF PublishResult
    <3>4. sensor'["result"] = [sensor["result"] EXCEPT ![Channel(b)] = [probe |-> p, outcome |-> o]]
      BY <3>3 DEF Inv, Sensors
    <3> HIDE DEF Outcomes
    <3>5. QED
      BY <2>11, <3>1, <3>2, <3>4, ResultStep
  <2>12. QED
    <3>1. \/ \E t \in Scans : ProbeBusy(t)
          \/ \E t \in Scans : ProbeArrives(t, FALSE)
          \/ \E b \in Buses, o \in Outcomes : ProbeEnds(b, o)
      BY <2>4, <2>5, <2>6, <2>7, <2>8 DEF GatewayNext
    <3>2. QED
      BY <3>1, <2>9, <2>10, <2>11
<1>2. Inv /\ [Next]_vars => [Apart]_vars
  BY <1>1
<1>3. QED
  BY <1>2, InvHolds, PTL DEF Spec, ResultsDoNotCollide
------------------------------------------------------------------------------
(* The end of a lease, as Home Assistant hears of it.                          *)

\* The Scans of a Bus belong to one Home Assistant: its coordinator runs one at a time.
\* Without it a second one can supersede a lease unseen (run bridge_superseded).
Solo == \A s, t \in Scans : BusOf[s] = BusOf[t] => Home[s] = Home[t]

\* The steps after the release was called.
Past == {"releasing", "closing"}

\* The release found no lease of Scan s, and no call of it is left to begin one.
Unleased(s, r, calls, l) == l.scan # s /\ calls = <<>> /\ r.step \in Past

About(s, m) == m \in LeaseMsgs /\ m.scan = s

\* A message about the lease of Scan s that tells of its end says how it ended, and one
\* that the Bus does not know it is true.
True(s, r, calls, m, l, e) ==
  /\ m.state = "ended" => m.reason = e /\ e # "unset"
  /\ m.state = "none" => Unleased(s, r, calls, l)

LastCall(r, calls) ==
  \A i \in 1..Len(calls) : calls[i].call = "release" => i = Len(calls) /\ r.step \in Past

KnownEnd(s, l, e) ==
  /\ l.scan = s => e = l.reason /\ (l.active <=> e = "unset")
  /\ l.scan # s => e = "unset"

TrueSensor(s, r, calls, m, l, e) ==
  About(s, m) => True(s, r, calls, m, l, e) /\ (m.state = "active" => e = "unset")

TrueBox(s, r, calls, box, l, e) ==
  /\ \A i \in 1..Len(box) : Tells(s, box[i]) => True(s, r, calls, box[i].msg, l, e)
  /\ \A i, j \in 1..Len(box) : i < j /\ Tells(s, box[i]) /\ Tells(s, box[j]) =>
       ~(box[i].msg.state = "ended" /\ box[j].msg.state = "active")

TrueLocals(s, r, calls, box, l, e) ==
  /\ r.status = "ended" =>
       /\ r.reason = e /\ e # "unset"
       /\ \A i \in 1..Len(box) : Tells(s, box[i]) => box[i].msg.state # "active"
  /\ r.answer = "set" => r.status = "ended" \/ Unleased(s, r, calls, l)
  /\ r.answered => r.step = "closing" /\ r.answer = "set"

\* A connected Scan: its locals r, the calls and states on their way, the lease message of
\* its sensor, the lease of its Bus, and how its own lease ended.
Honest(s, r, calls, box, m, l, e) ==
  /\ LastCall(r, calls) /\ KnownEnd(s, l, e) /\ TrueSensor(s, r, calls, m, l, e)
  /\ TrueBox(s, r, calls, box, l, e) /\ TrueLocals(s, r, calls, box, l, e)

Shown(s) == sensor["lease"][Channel(BusOf[s])]

HonestScan(s) ==
  Honest(s, sess[s], link[s], inbox[s], Shown(s), lease[BusOf[s]], leaseEnd[s])

\* Nobody has heard of a Scan that has not connected yet.
Unheard(s) ==
  /\ link[s] = <<>> /\ inbox[s] = <<>> /\ dirty[s] = {} /\ leaseEnd[s] = "unset"
  /\ sess[s].status = "none" /\ sess[s].answer = "none" /\ ~sess[s].answered
  /\ \A b \in Buses : lease[b].scan # s /\ ~About(s, sensor["lease"][Channel(b)])

\* A connected Scan has its Bus to itself: what was called for others has arrived.
Alone(s) ==
  \A t \in Scans \ {s} : BusOf[t] = BusOf[s] => link[t] = <<>> /\ sess[t].step \notin Running

OneRuns ==
  \A s, t \in Scans :
    BusOf[s] = BusOf[t] /\ sess[s].step \in Running /\ sess[t].step \in Running => s = t

OnBus == \A b \in Buses : lease[b].scan \in Scans => BusOf[lease[b].scan] = b

Heard ==
  /\ OneRuns /\ OnBus
  /\ \A s \in Scans : /\ sess[s].step \in {"new", "admitted"} => Unheard(s)
                      /\ sess[s].step \in Open => Alone(s) /\ HonestScan(s)

\* The first states: nobody has connected.
LEMMA HeardInit == Init => Heard
<1> SUFFICES ASSUME Init PROVE Heard
  OBVIOUS
<1> USE DEF Init
<1>1. Locals("new").step = "new" /\ Locals("new").status = "none" /\ Locals("new").answer = "none"
      /\ ~Locals("new").answered
  BY DEF Locals
<1>2. \A s \in Scans : sess[s].step = "new"
  BY <1>1
<1>3. OneRuns
  BY <1>2 DEF OneRuns
<1>4. OnBus /\ \A b \in Buses : lease[b].scan \notin Scans
  BY BridgeAssumption DEF OnBus
<1>5. \A b \in Buses : sensor["lease"][Channel(b)] = NoState
  OBVIOUS
<1>6. NoState \notin LeaseMsgs
  BY DEF NoState, LeaseMsgs
<1>7. \A s \in Scans : Unheard(s)
  BY <1>1, <1>4, <1>5, <1>6 DEF Unheard, About
<1>8. QED
  BY <1>2, <1>3, <1>4, <1>7 DEF Heard

\* Calls that arrive, and connections that are lost, leave the others alone.
LEMMA AloneKept ==
  ASSUME NEW s \in Scans, Alone(s),
         \A t \in Scans \ {s} : /\ link[t] = <<>> => link'[t] = <<>>
                                /\ sess'[t].step \in Running => sess[t].step \in Running
  PROVE  Alone(s)'
  BY DEF Alone

\* The parts of Home Assistant that no Scan's step touches.
LEMMA UnheardKept ==
  ASSUME NEW s \in Scans, Unheard(s), UNCHANGED <<sensor, lease>>, sess'[s].status = sess[s].status,
         sess'[s].answer = sess[s].answer, sess'[s].answered = sess[s].answered,
         link'[s] = link[s], inbox'[s] = inbox[s], dirty'[s] = dirty[s], leaseEnd'[s] = leaseEnd[s]
  PROVE  Unheard(s)'
  BY DEF Unheard, Channel

\* How the locals of a connected Scan change without a message: an end it knows stays
\* known, and no answer appears.
Later(q, r) ==
  /\ q.step \in Past => r.step \in Past
  /\ r.status = "ended" <=> q.status = "ended"
  /\ r.status = "ended" => r.reason = q.reason
  /\ r.answer = "set" => q.answer = "set"
  /\ r.answered => r.step = "closing" /\ r.answer = "set"

\* The calls of a Scan after one step of it: the release is called once.
CallsAfter(r, calls, next) ==
  \/ next \in {calls, <<>>}
  \/ /\ r.step \notin Past
     /\ \E c \in Calls : next = Append(calls, c) /\ (c.call = "release" => r.step = "freeing")

\* A step of a Scan's own leaves what it knows true.
LEMMA HonestMoves ==
  ASSUME NEW s \in Scans, NEW q, NEW r, NEW calls \in Seq(Calls), NEW next \in Seq(Calls), NEW box, NEW rest,
         NEW m, NEW l, NEW e, Honest(s, q, calls, box, m, l, e), Later(q, r),
         rest = box \/ rest = <<>>, CallsAfter(q, calls, next),
         q.step = "freeing" /\ next \notin {calls, <<>>} => r.step \in Past
  PROVE  Honest(s, r, next, rest, m, l, e)
<1> USE DEF Honest
<1>1. Unleased(s, q, calls, l) => Unleased(s, r, next, l)
  BY DEF Unleased, CallsAfter, Later, Past
<1>2. \A i \in 1..Len(rest) : i \in 1..Len(box) /\ rest[i] = box[i]
  OBVIOUS
<1>3. LastCall(r, next)
  <2>1. CASE next \in {calls, <<>>}
    BY <2>1 DEF LastCall, Later
  <2>2. CASE next \notin {calls, <<>>}
    <3>1. PICK c \in Calls : next = Append(calls, c) /\ (c.call = "release" => q.step = "freeing")
      BY <2>2 DEF CallsAfter
    <3>2. q.step \notin Past
      BY <2>2 DEF CallsAfter
    <3>3. \A i \in 1..Len(calls) : calls[i].call # "release"
      BY <3>2 DEF LastCall
    <3>4. c.call = "release" => r.step \in Past
      BY <2>2, <3>1
    <3>5. ASSUME NEW i \in 1..Len(next)
          PROVE  (i = Len(next) /\ next[i] = c) \/ (i \in 1..Len(calls) /\ next[i] = calls[i])
      BY <3>1
    <3>6. QED
      BY <3>3, <3>4, <3>5 DEF LastCall
  <2>3. QED
    BY <2>1, <2>2
<1>4. TrueSensor(s, r, next, m, l, e)
  BY <1>1 DEF TrueSensor, True
<1>5. TrueBox(s, r, next, rest, l, e)
  BY <1>1, <1>2 DEF TrueBox, True
<1>6. TrueLocals(s, r, next, rest, l, e)
  BY <1>1, <1>2 DEF TrueLocals, Later
<1>7. QED
  BY <1>3, <1>4, <1>5, <1>6

\* A connected Scan moves: it alone changes, and the Gateway does not.
LEMMA HeardAlone ==
  ASSUME Inv, Heard, NEW s \in Scans, NEW r, Becomes(s, r), sess[s].step \in Open, r.step \in Open,
         UNCHANGED <<sensor, lease, leaseEnd>>,
         \A t \in Scans \ {s} : link'[t] = link[t] /\ inbox'[t] = inbox[t] /\ dirty'[t] = dirty[t],
         Honest(s, r, link'[s], inbox'[s], Shown(s), lease[BusOf[s]], leaseEnd[s])
  PROVE  Heard'
<1>1. sess'[s] = r /\ \A t \in Scans \ {s} : sess'[t] = sess[t]
  BY DEF Becomes, Inv, Sessions
<1>2. OneRuns' /\ OnBus'
  BY <1>1 DEF Heard, OneRuns, OnBus
<1>3. ASSUME NEW t \in Scans, sess'[t].step \in {"new", "admitted"} PROVE Unheard(t)'
  <2>1. t # s
    BY <1>1, <1>3
  <2>2. Unheard(t)
    BY <1>1, <1>3, <2>1 DEF Heard
  <2>3. QED
    BY <1>1, <2>1, <2>2, UnheardKept
<1>4. ASSUME NEW t \in Scans, sess'[t].step \in Open PROVE Alone(t)' /\ HonestScan(t)'
  <2>1. sess[t].step \in Open /\ Alone(t) /\ HonestScan(t)
    BY <1>1, <1>4 DEF Heard
  <2>2. CASE t = s
    <3>1. Alone(t)'
      BY <1>1, <2>1, <2>2, AloneKept
    <3>2. Shown(s)' = Shown(s)
      BY DEF Shown, Channel
    <3>3. QED
      BY <1>1, <2>2, <3>1, <3>2 DEF HonestScan
  <2>3. CASE t # s
    <3>1. BusOf[t] # BusOf[s]
      BY <2>1, <2>3 DEF Alone
    <3>2. Alone(t)'
      BY <1>1, <2>1, <2>3, <3>1 DEF Alone
    <3>3. Shown(t)' = Shown(t)
      BY DEF Shown, Channel
    <3>4. QED
      BY <1>1, <2>1, <2>3, <3>2, <3>3 DEF HonestScan
  <2>4. QED
    BY <2>2, <2>3
<1>5. QED
  BY <1>2, <1>3, <1>4 DEF Heard

\* Its own step tells it nothing.
LEMMA HeardMoves ==
  ASSUME Inv, Heard, NEW s \in Scans, NEW r, Becomes(s, r), sess[s].step \in Open, r.step \in Open,
         Later(sess[s], r), UNCHANGED <<sensor, lease, leaseEnd>>,
         \A t \in Scans \ {s} : link'[t] = link[t] /\ inbox'[t] = inbox[t] /\ dirty'[t] = dirty[t],
         link'[s] \in Seq(Calls), inbox'[s] = inbox[s] \/ inbox'[s] = <<>>,
         CallsAfter(sess[s], link[s], link'[s]),
         sess[s].step = "freeing" /\ link'[s] \notin {link[s], <<>>} => r.step \in Past
  PROVE  Heard'
<1>1. link[s] \in Seq(Calls)
  BY InvOf
<1>2. Honest(s, sess[s], link[s], inbox[s], Shown(s), lease[BusOf[s]], leaseEnd[s])
  BY DEF Heard, HonestScan
<1>3. Honest(s, r, link'[s], inbox'[s], Shown(s), lease[BusOf[s]], leaseEnd[s])
  BY <1>1, <1>2, HonestMoves
<1>4. QED
  BY <1>3, HeardAlone

\* Locals that agree on what the Scan heard of its lease.
SameNews(q, r) ==
  r.status = q.status /\ r.reason = q.reason /\ r.answer = q.answer /\ r.answered = q.answered

\* UNCONFIRMED is reported only of a lease that is not known to have ended.
LEMMA UnconfirmedNews ==
  ASSUME NEW r \in AllLocals
  PROVE  LET u == Unconfirmed(r)
         IN /\ u \in AllLocals /\ u.step = r.step /\ u.answer = r.answer /\ u.answered = r.answered
            /\ u.status = "ended" <=> r.status = "ended"
            /\ u.status = "ended" => u.reason = r.reason
<1>1. CASE r.status = "ended"
  BY <1>1 DEF Unconfirmed
<1>2. CASE r.status # "ended"
  <2> DEFINE u == [r EXCEPT !.status = "unconfirmed", !.reason = "unset"]
  <2>1. u \in AllLocals
    BY DEF AllLocals
  <2>2. u.step = r.step /\ u.answer = r.answer /\ u.answered = r.answered /\ u.status = "unconfirmed"
    BY DEF AllLocals
  <2>3. Unconfirmed(r) = u
    BY <1>2 DEF Unconfirmed
  <2>4. QED
    BY <1>2, <2>1, <2>2, <2>3
<1>3. QED
  BY <1>1, <1>2

\* The finally block keeps what the Scan heard of its lease.
LEMMA CleanupNews ==
  ASSUME NEW q \in AllLocals, NEW r \in AllLocals, SameNews(q, r), q.step \notin Past, ~q.answered
  PROVE  Later(q, Cleanup(r)) /\ Cleanup(r).step \in {"closing", "freeing"}
<1> DEFINE p == [r EXCEPT !.pending = "none", !.result = NoState]
<1>1. p \in AllLocals
  BY DEF AllLocals
<1>2. SameNews(q, p)
  BY DEF SameNews, AllLocals
<1>3. p.requested = r.requested /\ p.disconnected = r.disconnected
  BY DEF AllLocals
<1>4. Cleanup(r) = IF ~r.requested THEN [p EXCEPT !.step = "closing"]
                   ELSE IF r.disconnected THEN [Unconfirmed(p) EXCEPT !.step = "closing"]
                   ELSE [p EXCEPT !.step = "freeing", !.answer = "waiting"]
  BY DEF Cleanup
<1> HIDE DEF p
<1>5. CASE ~r.requested
  <2> DEFINE u == [p EXCEPT !.step = "closing"]
  <2>1. u.step = "closing" /\ SameNews(p, u)
    BY <1>1 DEF AllLocals, SameNews
  <2>2. QED
    BY <1>2, <1>4, <1>5, <2>1 DEF Later, SameNews
<1>6. CASE r.requested /\ r.disconnected
  <2> DEFINE v == Unconfirmed(p)
             u == [v EXCEPT !.step = "closing"]
  <2>1. /\ v \in AllLocals /\ v.answer = p.answer /\ v.answered = p.answered
        /\ v.status = "ended" <=> p.status = "ended"
        /\ v.status = "ended" => v.reason = p.reason
    BY <1>1, UnconfirmedNews
  <2> HIDE DEF v
  <2>2. u.step = "closing" /\ SameNews(v, u)
    BY <2>1 DEF AllLocals, SameNews
  <2> HIDE DEF u
  <2>3. Cleanup(r) = u
    BY <1>4, <1>6 DEF u, v
  <2>4. QED
    BY <1>2, <2>1, <2>2, <2>3 DEF Later, SameNews
<1>7. CASE r.requested /\ ~r.disconnected
  <2> DEFINE u == [p EXCEPT !.step = "freeing", !.answer = "waiting"]
  <2>1. u.step = "freeing" /\ u.status = p.status /\ u.reason = p.reason /\ u.answer = "waiting"
        /\ u.answered = p.answered
    BY <1>1 DEF AllLocals
  <2>2. Cleanup(r) = u
    BY <1>4, <1>7
  <2> HIDE DEF u
  <2>3. QED
    BY <1>2, <2>1, <2>2 DEF Later, SameNews
<1>8. QED
  BY <1>5, <1>6, <1>7

\* The next attempt, or the finally block of a Scan that was cancelled.
LEMMA NextAttemptNews ==
  ASSUME NEW s \in Scans, NEW q \in AllLocals, NEW r \in AllLocals, SameNews(q, r), q.step \notin Past, ~q.answered
  PROVE  Later(q, NextAttempt(s, r)) /\ NextAttempt(s, r).step \in {"asking", "closing", "freeing"}
<1>1. CASE s \in cancelled
  BY <1>1, CleanupNews DEF NextAttempt
<1>2. CASE s \notin cancelled
  <2> DEFINE u == [r EXCEPT !.step = "asking"]
  <2>1. u.step = "asking" /\ SameNews(r, u)
    BY DEF AllLocals, SameNews
  <2>2. QED
    BY <1>2, <2>1 DEF NextAttempt, Later, SameNews
<1>3. QED
  BY <1>1, <1>2

\* What a connected Scan has heard, before its release.
LEMMA HeardOf ==
  ASSUME Inv, Heard, NEW s \in Scans, sess[s].step \in Open
  PROVE  /\ HonestScan(s) /\ Alone(s) /\ sess[s] \in AllLocals
         /\ link[s] \in Seq(Calls) /\ inbox[s] \in Seq(States)
         /\ sess[s].answered => sess[s].step = "closing" /\ sess[s].answer = "set"
  BY InvOf DEF Heard, HonestScan, Honest, TrueLocals

\* A move without calls.
LEMMA HeardGoesOn ==
  ASSUME Inv, Heard, NEW s \in Scans, NEW r, Becomes(s, r), sess[s].step \in Open, r.step \in Open,
         Later(sess[s], r), UNCHANGED <<link, inbox, dirty, sensor, lease, leaseEnd>>
  PROVE  Heard'
<1>1. link'[s] \in Seq(Calls)
  BY HeardOf
<1>2. CallsAfter(sess[s], link[s], link'[s])
  BY DEF CallsAfter
<1>3. QED
  BY <1>1, <1>2, HeardMoves

\* The pause between addresses, and the wait for a result, tell nothing of the lease.
LEMMA NextAddressHeard == ASSUME Inv, Heard, NEW s \in Scans, NextAddress(s) PROVE Heard'
<1> DEFINE q == [sess[s] EXCEPT !.address = @ + 1, !.attempt = 1]
           r == NextAttempt(s, q)
<1>1. /\ sess[s].step = "pausing" /\ Becomes(s, r)
      /\ UNCHANGED <<link, inbox, dirty, sensor, lease, leaseEnd>>
  BY DEF NextAddress, netVars, gatewayVars, historyVars
<1>2. sess[s] \in AllLocals /\ sess[s].address \in 1..Last[s] /\ sess[s].address < Last[s]
  BY <1>1, InvOf DEF Sound, Fits
<1>3. ~sess[s].answered /\ sess[s].step \notin Past
  BY <1>1, HeardOf DEF Past
<1>4. sess[s].address + 1 \in 1..Last[s] /\ 1 \in 1..(Retries[s] + 1)
  BY <1>2, RequestTypes
<1>5. sess[s].address + 1 \in Addresses /\ 1 \in Attempts
  BY <1>4, RequestTypes
<1>6. q \in AllLocals /\ SameNews(sess[s], q)
  BY <1>2, <1>5 DEF AllLocals, SameNews
<1> HIDE DEF q
<1>7. Later(sess[s], r) /\ r.step \in {"asking", "closing", "freeing"}
  BY <1>2, <1>3, <1>6, NextAttemptNews
<1> HIDE DEF r
<1>8. QED
  BY <1>1, <1>7, HeardGoesOn

\* The finally block, entered from the attempt loop.
LEMMA CleanHeard ==
  ASSUME Inv, Heard, NEW s \in Scans, sess[s].step \in {"asking", "probing", "pausing"},
         NEW q \in AllLocals, SameNews(sess[s], q), Becomes(s, Cleanup(q)),
         UNCHANGED <<link, inbox, dirty, sensor, lease, leaseEnd>>
  PROVE  Heard'
<1>1. sess[s] \in AllLocals /\ ~sess[s].answered /\ sess[s].step \notin Past
  BY HeardOf DEF Past
<1>2. Later(sess[s], Cleanup(q)) /\ Cleanup(q).step \in {"closing", "freeing"}
  BY <1>1, CleanupNews
<1>3. QED
  BY <1>2, HeardGoesOn

\* A probe that is given up: the finally block.
LEMMA WaitExpiresHeard == ASSUME Inv, Heard, NEW s \in Scans, WaitExpires(s) PROVE Heard'
<1>1. /\ sess[s].step = "probing" /\ Becomes(s, Cleanup(sess[s]))
      /\ UNCHANGED <<link, inbox, dirty, sensor, lease, leaseEnd>>
  BY DEF WaitExpires, netVars, gatewayVars, historyVars
<1>2. sess[s] \in AllLocals /\ SameNews(sess[s], sess[s])
  BY InvOf DEF SameNews
<1>3. QED
  BY <1>1, <1>2, CleanHeard

\* The release is answered when an answer is there, and else unconfirmed.
LEMMA ReleaseOverHeard ==
  ASSUME Inv, Heard, NEW s \in Scans, ReleaseAnswered(s) \/ ReleaseExpires(s)
  PROVE  Heard'
<1>1. /\ sess[s].step = "releasing"
      /\ UNCHANGED <<link, inbox, dirty, sensor, lease, leaseEnd>>
  BY DEF ReleaseAnswered, ReleaseExpires, netVars, gatewayVars, historyVars
<1>2. sess[s] \in AllLocals /\ ~sess[s].answered
  BY <1>1, HeardOf
<1>3. CASE ReleaseAnswered(s)
  <2> DEFINE r == [sess[s] EXCEPT !.step = "closing", !.answered = TRUE]
  <2>1. Becomes(s, r) /\ sess[s].answer = "set"
    BY <1>3 DEF ReleaseAnswered
  <2>2. /\ r.step = "closing" /\ r.status = sess[s].status /\ r.reason = sess[s].reason
        /\ r.answer = sess[s].answer
    BY <1>2 DEF AllLocals
  <2> HIDE DEF r
  <2>3. Later(sess[s], r)
    BY <2>1, <2>2 DEF Later, Past
  <2>4. QED
    BY <1>1, <2>1, <2>2, <2>3, HeardGoesOn
<1>4. CASE ReleaseExpires(s)
  <2> DEFINE u == Unconfirmed(sess[s])
             r == [u EXCEPT !.step = "closing"]
  <2>1. Becomes(s, r)
    BY <1>4 DEF ReleaseExpires
  <2>2. /\ u \in AllLocals /\ u.answer = sess[s].answer /\ u.answered = sess[s].answered
        /\ u.status = "ended" <=> sess[s].status = "ended"
        /\ u.status = "ended" => u.reason = sess[s].reason
    BY <1>2, UnconfirmedNews
  <2> HIDE DEF u
  <2>3. r.step = "closing" /\ SameNews(u, r)
    BY <2>2 DEF AllLocals, SameNews
  <2> HIDE DEF r
  <2>4. Later(sess[s], r)
    BY <1>2, <2>2, <2>3 DEF Later, SameNews, Past
  <2>5. QED
    BY <1>1, <2>1, <2>3, <2>4, HeardGoesOn
<1>5. QED
  BY <1>3, <1>4

\* The task is cancelled: into the finally block, or out of the release.
LEMMA TornHeard ==
  ASSUME Inv, Heard, NEW s \in Scans, sess[s].step \in {"freeing", "releasing"},
         Becomes(s, [sess[s] EXCEPT !.step = "closing"]),
         UNCHANGED <<link, inbox, dirty, sensor, lease, leaseEnd>>
  PROVE  Heard'
<1> DEFINE r == [sess[s] EXCEPT !.step = "closing"]
<1>1. sess[s] \in AllLocals /\ ~sess[s].answered
  BY HeardOf
<1>2. r.step = "closing" /\ SameNews(sess[s], r)
  BY <1>1 DEF AllLocals, SameNews
<1>3. Becomes(s, r)
  OBVIOUS
<1> HIDE DEF r
<1>4. Later(sess[s], r)
  BY <1>1, <1>2 DEF Later, SameNews, Past
<1>5. QED
  BY <1>2, <1>3, <1>4, HeardGoesOn

\* A result, or its absence, says nothing of the lease.
LEMMA ProbeResumesHeard == ASSUME Inv, Heard, NEW s \in Scans, ProbeResumes(s) PROVE Heard'
<1>1. sess[s].step = "probing" /\ UNCHANGED <<link, inbox, dirty, sensor, lease, leaseEnd>>
  BY DEF ProbeResumes, netVars, gatewayVars
<1>2. sess[s] \in AllLocals /\ ~sess[s].answered /\ sess[s].step \notin Past
      /\ SameNews(sess[s], sess[s])
  BY <1>1, HeardOf DEF Past, SameNews
<1>3. CASE Becomes(s, Cleanup(sess[s]))
  BY <1>1, <1>2, <1>3, CleanHeard
<1>4. CASE /\ RetryLeft(s)
           /\ Becomes(s, NextAttempt(s, [sess[s] EXCEPT !.attempt = @ + 1, !.pending = "none", !.result = NoState]))
  <2> DEFINE q == [sess[s] EXCEPT !.attempt = @ + 1, !.pending = "none", !.result = NoState]
             r == NextAttempt(s, q)
  <2>1. sess[s].attempt + 1 \in Attempts
    <3>1. sess[s].attempt \in 1..(Retries[s] + 1) /\ sess[s].attempt <= Retries[s]
      BY <1>4, InvOf DEF RetryLeft, Sound, Fits
    <3>2. sess[s].attempt + 1 \in 1..(Retries[s] + 1)
      BY <3>1, RequestTypes
    <3>3. QED
      BY <3>2, RequestTypes
  <2>2. q \in AllLocals /\ SameNews(sess[s], q)
    BY <1>2, <2>1 DEF AllLocals, SameNews
  <2> HIDE DEF q
  <2>3. Later(sess[s], r) /\ r.step \in {"asking", "closing", "freeing"}
    BY <1>2, <2>2, NextAttemptNews
  <2>4. Becomes(s, r)
    BY <1>4 DEF q
  <2> HIDE DEF r
  <2>5. QED
    BY <1>1, <2>3, <2>4, HeardGoesOn
<1>5. CASE Becomes(s, [sess[s] EXCEPT !.step = "pausing", !.pending = "none", !.result = NoState])
  <2> DEFINE r == [sess[s] EXCEPT !.step = "pausing", !.pending = "none", !.result = NoState]
  <2>1. r.step = "pausing" /\ SameNews(sess[s], r)
    BY <1>2 DEF AllLocals, SameNews
  <2>2. Becomes(s, r)
    BY <1>5
  <2> HIDE DEF r
  <2>3. Later(sess[s], r)
    BY <1>2, <2>1 DEF Later, SameNews
  <2>4. QED
    BY <1>1, <2>1, <2>2, <2>3, HeardGoesOn
<1>6. QED
  BY <1>3, <1>4, <1>5 DEF ProbeResumes

\* A call that is added to a connection's.
LEMMA CallHeard ==
  ASSUME Inv, NEW s \in Scans, NEW c \in Calls, link' = [link EXCEPT ![s] = Append(@, c)],
         sess[s].step \notin Past, c.call = "release" => sess[s].step = "freeing"
  PROVE  /\ link'[s] \in Seq(Calls) /\ \A t \in Scans \ {s} : link'[t] = link[t]
         /\ CallsAfter(sess[s], link[s], link'[s])
<1>1. link \in [Scans -> Seq(Calls)]
  BY DEF Inv, Wires
<1>2. link'[s] = Append(link[s], c) /\ \A t \in Scans \ {s} : link'[t] = link[t]
  BY <1>1
<1>3. QED
  BY <1>1, <1>2 DEF CallsAfter

\* The probe is called before the release.
LEMMA SendProbeHeard == ASSUME Inv, Heard, NEW s \in Scans, SendProbe(s) PROVE Heard'
<1> DEFINE q == [sess[s] EXCEPT !.requested = RequestedAfter(s)]
<1>1. sess[s].step = "asking" /\ UNCHANGED <<inbox, dirty, sensor, lease, leaseEnd>>
  BY DEF SendProbe, gatewayVars, historyVars
<1>2. /\ sess[s] \in AllLocals /\ ~sess[s].answered /\ sess[s].step \notin Past
      /\ SameNews(sess[s], sess[s]) /\ RequestedAfter(s) \in BOOLEAN
  BY <1>1, HeardOf, BridgeAssumption DEF Past, SameNews, RequestedAfter, AllLocals
<1>3. q \in AllLocals /\ SameNews(sess[s], q)
  BY <1>2 DEF AllLocals, SameNews
<1>4. CASE Becomes(s, Cleanup(sess[s])) /\ UNCHANGED link
  BY <1>1, <1>2, <1>4, CleanHeard
<1>5. CASE Becomes(s, Cleanup(q)) /\ UNCHANGED link
  <2> HIDE DEF q
  <2>1. QED
    BY <1>1, <1>3, <1>5, CleanHeard
<1>6. CASE /\ Becomes(s, [q EXCEPT !.step = "probing", !.pending = "waiting"])
           /\ link' = [link EXCEPT ![s] = Append(@, [call |-> "probe", probe |-> Current(s)])]
  <2> DEFINE r == [q EXCEPT !.step = "probing", !.pending = "waiting"]
             c == [call |-> "probe", probe |-> Current(s)]
  <2>1. Becomes(s, r) /\ link' = [link EXCEPT ![s] = Append(@, c)]
    BY <1>6
  <2> HIDE DEF q
  <2>2. r.step = "probing" /\ SameNews(q, r)
    BY <1>3 DEF AllLocals, SameNews
  <2>3. Sound(s, sess[s])
    BY InvOf
  <2>4. c \in Calls /\ c.call = "probe"
    BY <2>3, CurrentType DEF Calls
  <2> HIDE DEF r, c
  <2>5. Later(sess[s], r)
    BY <1>2, <1>3, <2>2 DEF Later, SameNews
  <2>6. /\ link'[s] \in Seq(Calls) /\ \A t \in Scans \ {s} : link'[t] = link[t]
        /\ CallsAfter(sess[s], link[s], link'[s])
    BY <1>2, <2>1, <2>4, CallHeard
  <2>7. QED
    BY <1>1, <2>1, <2>2, <2>5, <2>6, HeardMoves
<1>7. QED
  BY <1>4, <1>5, <1>6 DEF SendProbe

\* The release is the last call.
LEMMA SendReleaseHeard == ASSUME Inv, Heard, NEW s \in Scans, SendRelease(s) PROVE Heard'
<1>1. sess[s].step = "freeing" /\ UNCHANGED <<inbox, dirty, sensor, lease, leaseEnd>>
  BY DEF SendRelease, gatewayVars, historyVars
<1>2. sess[s] \in AllLocals /\ ~sess[s].answered /\ sess[s].step \notin Past
  BY <1>1, HeardOf DEF Past
<1>3. CASE Becomes(s, [Unconfirmed(sess[s]) EXCEPT !.step = "closing"]) /\ UNCHANGED link
  <2> DEFINE u == Unconfirmed(sess[s])
             r == [u EXCEPT !.step = "closing"]
  <2>1. Becomes(s, r)
    BY <1>3
  <2>2. /\ u \in AllLocals /\ u.answer = sess[s].answer /\ u.answered = sess[s].answered
        /\ u.status = "ended" <=> sess[s].status = "ended"
        /\ u.status = "ended" => u.reason = sess[s].reason
    BY <1>2, UnconfirmedNews
  <2> HIDE DEF u
  <2>3. r.step = "closing" /\ SameNews(u, r)
    BY <2>2 DEF AllLocals, SameNews
  <2> HIDE DEF r
  <2>4. Later(sess[s], r)
    BY <1>2, <2>2, <2>3 DEF Later, SameNews, Past
  <2>5. QED
    BY <1>1, <1>3, <2>1, <2>3, <2>4, HeardGoesOn
<1>4. CASE /\ Becomes(s, [sess[s] EXCEPT !.step = "releasing"])
           /\ link' = [link EXCEPT ![s] = Append(@, [call |-> "release"])]
  <2> DEFINE r == [sess[s] EXCEPT !.step = "releasing"]
             c == [call |-> "release"]
  <2>1. Becomes(s, r) /\ link' = [link EXCEPT ![s] = Append(@, c)]
    BY <1>4
  <2>2. r.step = "releasing" /\ SameNews(sess[s], r)
    BY <1>2 DEF AllLocals, SameNews
  <2>3. c \in Calls /\ (c.call = "release" => sess[s].step = "freeing")
    BY <1>1 DEF Calls
  <2> HIDE DEF r, c
  <2>4. Later(sess[s], r)
    BY <1>2, <2>2 DEF Later, SameNews, Past
  <2>5. /\ link'[s] \in Seq(Calls) /\ \A t \in Scans \ {s} : link'[t] = link[t]
        /\ CallsAfter(sess[s], link[s], link'[s])
    BY <1>2, <2>1, <2>3, CallHeard
  <2>6. r.step \in Past
    BY <2>2 DEF Past
  <2>7. QED
    BY <1>1, <2>1, <2>2, <2>4, <2>5, <2>6, HeardMoves
<1>5. QED
  BY <1>3, <1>4 DEF SendRelease

\* A connection that is lost tells nothing more.
LEMMA ConnectionLostHeard == ASSUME Inv, Heard, NEW s \in Scans, ConnectionLost(s) PROVE Heard'
<1> DEFINE p == IF sess[s].pending = "waiting" THEN "lost" ELSE sess[s].pending
           r == [sess[s] EXCEPT !.disconnected = TRUE, !.pending = p]
<1>1. /\ sess[s].step \in Open /\ Becomes(s, r)
      /\ inbox' = [inbox EXCEPT ![s] = <<>>] /\ dirty' = [dirty EXCEPT ![s] = {}]
      /\ link' \in {link, [link EXCEPT ![s] = <<>>]} /\ UNCHANGED <<sensor, lease, leaseEnd>>
  BY DEF ConnectionLost, Connected, gatewayVars, historyVars
<1>2. sess[s] \in AllLocals /\ (sess[s].answered => sess[s].step = "closing" /\ sess[s].answer = "set")
  BY <1>1, HeardOf
<1> HIDE DEF p
<1>3. r.step = sess[s].step /\ SameNews(sess[s], r)
  BY <1>2 DEF AllLocals, SameNews
<1> HIDE DEF r
<1>4. Later(sess[s], r)
  BY <1>2, <1>3 DEF Later, SameNews
<1>5. /\ link \in [Scans -> Seq(Calls)] /\ inbox \in [Scans -> Seq(States)]
      /\ dirty \in [Scans -> SUBSET Kinds]
  BY DEF Inv, Wires
<1>6. /\ link'[s] \in {link[s], <<>>} /\ inbox'[s] = <<>>
      /\ \A t \in Scans \ {s} : link'[t] = link[t] /\ inbox'[t] = inbox[t] /\ dirty'[t] = dirty[t]
  BY <1>1, <1>5
<1>7. link'[s] \in Seq(Calls) /\ CallsAfter(sess[s], link[s], link'[s])
  <2>1. link[s] \in Seq(Calls) /\ <<>> \in Seq(Calls)
    BY <1>5
  <2>2. QED
    BY <1>6, <2>1 DEF CallsAfter
<1>8. QED
  BY <1>1, <1>3, <1>4, <1>6, <1>7, HeardMoves

\* The first message is taken: what it tells of the lease is true, and so is what the Scan
\* knows from then on.
LEMMA HonestHears ==
  ASSUME NEW s \in Scans, NEW q, NEW r, NEW calls, NEW box \in Seq(States), box # <<>>,
         NEW m, NEW l, NEW e, Honest(s, q, calls, box, m, l, e), r.step = q.step,
         \/ ~Tells(s, Head(box)) /\ SameNews(q, r)
         \/ /\ Tells(s, Head(box)) /\ r.status = Head(box).msg.state /\ r.reason = Head(box).msg.reason
            /\ r.answer = "set" => q.answer = "set" \/ Head(box).msg.state # "active"
            /\ q.answer = "set" => r.answer = "set"
            /\ Head(box).msg \in LeaseMsgs /\ r.answered = q.answered
  PROVE  Honest(s, r, calls, Tail(box), m, l, e)
<1> DEFINE rest == Tail(box)
           state == Head(box)
<1> USE DEF Honest
<1>1. /\ state = box[1] /\ 1 \in 1..Len(box)
      /\ \A i \in 1..Len(rest) : /\ i \in Nat /\ i + 1 \in 1..Len(box) /\ rest[i] = box[i + 1]
                                 /\ 1 < i + 1
  OBVIOUS
<1>2. Unleased(s, q, calls, l) <=> Unleased(s, r, calls, l)
  BY DEF Unleased
<1> HIDE DEF rest
<1>3. LastCall(r, calls) /\ TrueSensor(s, r, calls, m, l, e)
  BY <1>2 DEF LastCall, TrueSensor, True
<1>4. TrueBox(s, r, calls, rest, l, e)
  <2>1. \A i \in 1..Len(rest) : Tells(s, rest[i]) => True(s, r, calls, rest[i].msg, l, e)
    BY <1>1, <1>2 DEF TrueBox, True
  <2>2. ASSUME NEW i \in 1..Len(rest), NEW j \in 1..Len(rest), i < j, Tells(s, rest[i]), Tells(s, rest[j])
        PROVE  ~(rest[i].msg.state = "ended" /\ rest[j].msg.state = "active")
    <3>1. /\ i + 1 \in 1..Len(box) /\ rest[i] = box[i + 1] /\ j + 1 \in 1..Len(box) /\ rest[j] = box[j + 1]
          /\ i \in Nat /\ j \in Nat
      BY <1>1
    <3>2. i + 1 < j + 1
      BY <2>2, <3>1
    <3>3. QED
      BY <2>2, <3>1, <3>2 DEF TrueBox
  <2>3. QED
    BY <2>1, <2>2 DEF TrueBox
<1>5. TrueLocals(s, r, calls, rest, l, e)
  <2>1. CASE ~Tells(s, state) /\ SameNews(q, r)
    BY <1>1, <1>2, <2>1 DEF TrueLocals, SameNews
  <2>2. CASE /\ Tells(s, state) /\ r.status = state.msg.state /\ r.reason = state.msg.reason
             /\ r.answer = "set" => q.answer = "set" \/ state.msg.state # "active"
             /\ q.answer = "set" => r.answer = "set"
             /\ state.msg \in LeaseMsgs /\ r.answered = q.answered
    <3>1. True(s, q, calls, state.msg, l, e)
      BY <1>1, <2>2 DEF TrueBox
    <3>2. ASSUME r.status = "ended"
          PROVE  /\ r.reason = e /\ e # "unset"
                 /\ \A i \in 1..Len(rest) : Tells(s, rest[i]) => rest[i].msg.state # "active"
      <4>1. r.reason = e /\ e # "unset"
        BY <2>2, <3>1, <3>2 DEF True
      <4>2. \A i \in 1..Len(rest) : Tells(s, rest[i]) => rest[i].msg.state # "active"
        BY <1>1, <2>2, <3>2 DEF TrueBox
      <4>3. QED
        BY <4>1, <4>2
    <3>3. ASSUME r.answer = "set" PROVE r.status = "ended" \/ Unleased(s, r, calls, l)
      <4>1. state.msg.state \in {"active", "ended", "none"}
        BY <2>2 DEF LeaseMsgs
      <4>2. state.msg.state = "none" => Unleased(s, q, calls, l)
        BY <3>1 DEF True
      <4>3. CASE state.msg.state = "active"
        <5>1. q.answer = "set"
          BY <2>2, <3>3, <4>3
        <5>2. q.status # "ended"
          BY <1>1, <2>2, <4>3 DEF TrueLocals
        <5>3. QED
          BY <1>2, <5>1, <5>2 DEF TrueLocals
      <4>4. QED
        BY <1>2, <2>2, <4>1, <4>2, <4>3
    <3>4. r.answered => r.step = "closing" /\ r.answer = "set"
      BY <2>2 DEF TrueLocals
    <3>5. QED
      BY <3>2, <3>3, <3>4 DEF TrueLocals
  <2>3. QED
    BY <2>1, <2>2
<1>6. QED
  BY <1>3, <1>4, <1>5 DEF rest

\* Home Assistant hears of the lease.
LEMMA ReceiveHeard == ASSUME Inv, Heard, NEW s \in Scans, Receive(s) PROVE Heard'
<1> DEFINE state == Head(inbox[s])
<1>1. /\ sess[s].step \in Open /\ inbox[s] # <<>> /\ inbox' = [inbox EXCEPT ![s] = Tail(@)]
      /\ UNCHANGED <<link, dirty, sensor, lease, leaseEnd>>
  BY DEF Receive, Connected, gatewayVars, historyVars
<1>2. /\ sess[s] \in AllLocals /\ inbox[s] \in Seq(States) /\ HonestScan(s)
      /\ inbox \in [Scans -> Seq(States)]
  BY <1>1, HeardOf DEF Inv, Wires
<1>3. state \in States
  BY <1>1, <1>2
<1>4. /\ inbox'[s] = Tail(inbox[s])
      /\ \A t \in Scans \ {s} : link'[t] = link[t] /\ inbox'[t] = inbox[t] /\ dirty'[t] = dirty[t]
  BY <1>1, <1>2
<1>5. PICK r : /\ Becomes(s, r) /\ r.step = sess[s].step
               /\ \/ ~Tells(s, state) /\ SameNews(sess[s], r)
                  \/ /\ Tells(s, state) /\ r.status = state.msg.state /\ r.reason = state.msg.reason
                     /\ r.answer = "set" => sess[s].answer = "set" \/ state.msg.state # "active"
                     /\ sess[s].answer = "set" => r.answer = "set"
                     /\ state.msg \in LeaseMsgs /\ r.answered = sess[s].answered
  <2>1. CASE Answers(s, state) /\ Becomes(s, [sess[s] EXCEPT !.pending = state.msg.outcome, !.result = state.msg])
    <3> DEFINE r == [sess[s] EXCEPT !.pending = state.msg.outcome, !.result = state.msg]
    <3>1. ~Tells(s, state)
      BY <2>1 DEF Answers, Tells
    <3>2. r.step = sess[s].step /\ SameNews(sess[s], r)
      BY <1>2 DEF AllLocals, SameNews
    <3>3. Becomes(s, r)
      BY <2>1
    <3> HIDE DEF r, state
    <3>4. QED
      BY <3>1, <3>2, <3>3
  <2>2. CASE /\ Tells(s, state)
             /\ Becomes(s, [sess[s] EXCEPT
                  !.status = state.msg.state, !.reason = state.msg.reason,
                  !.answer = IF @ = "waiting" /\ state.msg.state # "active" THEN "set" ELSE @])
    <3> DEFINE r == [sess[s] EXCEPT
                      !.status = state.msg.state, !.reason = state.msg.reason,
                      !.answer = IF @ = "waiting" /\ state.msg.state # "active" THEN "set" ELSE @]
    <3>1. state.msg \in LeaseMsgs
      BY <1>3, <2>2 DEF Tells, States
    <3>2. Becomes(s, r)
      BY <2>2
    <3> HIDE DEF state
    <3>3. /\ r.step = sess[s].step /\ r.status = state.msg.state /\ r.reason = state.msg.reason
          /\ r.answer = (IF sess[s].answer = "waiting" /\ state.msg.state # "active" THEN "set"
                         ELSE sess[s].answer)
          /\ r.answered = sess[s].answered
      BY <1>2 DEF AllLocals
    <3> HIDE DEF r
    <3>4. QED
      BY <2>2, <3>1, <3>2, <3>3
  <2>3. CASE ~Tells(s, state) /\ UNCHANGED sess
    <3>1. Becomes(s, sess[s])
      BY <2>3 DEF Inv, Sessions, Becomes
    <3>2. QED
      BY <2>3, <3>1 DEF SameNews
  <2>4. QED
    BY <2>1, <2>2, <2>3 DEF Receive
<1>6. Honest(s, sess[s], link[s], inbox[s], Shown(s), lease[BusOf[s]], leaseEnd[s])
  BY <1>2 DEF HonestScan
<1>7. Honest(s, r, link[s], Tail(inbox[s]), Shown(s), lease[BusOf[s]], leaseEnd[s])
  BY <1>1, <1>2, <1>5, <1>6, HonestHears
<1>8. link'[s] = link[s]
  BY <1>1
<1>9. QED
  BY <1>1, <1>4, <1>5, <1>7, <1>8, HeardAlone

\* Cancelling and checking change nothing that is heard.
LEMMA HeardQuiet ==
  ASSUME Heard, UNCHANGED <<sess, link, inbox, dirty, sensor, lease, leaseEnd>>
  PROVE  Heard'
<1>1. OneRuns' /\ OnBus'
  BY DEF Heard, OneRuns, OnBus
<1>2. \A s \in Scans : sess'[s].step \in {"new", "admitted"} => Unheard(s)'
  BY DEF Heard, Unheard, Channel
<1>3. \A s \in Scans : sess'[s].step \in Open => Alone(s)' /\ HonestScan(s)'
  BY DEF Heard, Alone, HonestScan, Shown, Channel, Honest, LastCall, KnownEnd, TrueSensor, TrueBox, TrueLocals, True, Unleased
<1>4. QED
  BY <1>1, <1>2, <1>3 DEF Heard

\* Scans that are over are told nothing, and leave their Buses alone.
LEMMA HeardGone ==
  ASSUME Inv, Heard, NEW over \in SUBSET Scans, Gone(over), UNCHANGED <<sensor, lease>>,
         \A t \in Scans : link'[t] = link[t] \/ (link'[t] = <<>> /\ t \in over)
  PROVE  Heard'
<1>1. /\ \A t \in over : sess'[t] = Locals("done")
      /\ \A t \in Scans \ over : /\ sess'[t] = sess[t] /\ inbox'[t] = inbox[t] /\ dirty'[t] = dirty[t]
                                 /\ leaseEnd'[t] = leaseEnd[t]
  BY DEF Gone
<1>2. Locals("done").step = "done"
  BY DEF Locals
<1>3. OneRuns' /\ OnBus'
  BY <1>1, <1>2 DEF Heard, OneRuns, OnBus
<1>4. ASSUME NEW t \in Scans, sess'[t].step \in {"new", "admitted"} PROVE Unheard(t)'
  <2>1. t \notin over
    BY <1>1, <1>2, <1>4
  <2>2. Unheard(t)
    BY <1>1, <1>4, <2>1 DEF Heard
  <2>3. QED
    BY <1>1, <2>1, <2>2, UnheardKept
<1>5. ASSUME NEW t \in Scans, sess'[t].step \in Open PROVE Alone(t)' /\ HonestScan(t)'
  <2>1. t \notin over
    BY <1>1, <1>2, <1>5
  <2>2. Alone(t) /\ HonestScan(t)
    BY <1>1, <1>5, <2>1 DEF Heard
  <2>3. Alone(t)'
    BY <1>1, <1>2, <2>2, AloneKept
  <2>4. Shown(t)' = Shown(t) /\ link'[t] = link[t]
    BY <2>1 DEF Shown, Channel
  <2>5. QED
    BY <1>1, <2>1, <2>2, <2>3, <2>4 DEF HonestScan
<1>6. QED
  BY <1>3, <1>4, <1>5 DEF Heard

\* An admitted Scan is its Bus's only one.
LEMMA AdmitHeard == ASSUME Solo, Inv, Heard, NEW s \in Scans, Admit(s) PROVE Heard'
<1> DEFINE r == [sess[s] EXCEPT !.step = "admitted"]
<1>1. /\ sess[s].step = "new" /\ Becomes(s, r)
      /\ \A t \in Scans : Home[t] = Home[s] /\ BusOf[t] = BusOf[s] => sess[t].step \notin Running
      /\ UNCHANGED <<link, inbox, dirty, sensor, lease, leaseEnd>>
  BY DEF Admit, netVars, gatewayVars, historyVars
<1>2. r.step = "admitted" /\ SameNews(sess[s], r)
  BY InvOf DEF AllLocals, SameNews
<1> HIDE DEF r
<1>3. sess'[s] = r /\ \A t \in Scans \ {s} : sess'[t] = sess[t]
  BY <1>1 DEF Becomes, Inv, Sessions
<1>4. \A t \in Scans : BusOf[t] = BusOf[s] => sess[t].step \notin Running
  BY <1>1 DEF Solo
<1>5. OneRuns' /\ OnBus'
  BY <1>1, <1>3, <1>4 DEF Heard, OneRuns, OnBus
<1>6. ASSUME NEW t \in Scans, sess'[t].step \in {"new", "admitted"} PROVE Unheard(t)'
  <2>1. Unheard(t)
    BY <1>1, <1>3, <1>6 DEF Heard
  <2>2. SameNews(sess[t], sess'[t])
    BY <1>2, <1>3 DEF SameNews
  <2>3. QED
    BY <1>1, <2>1, <2>2, UnheardKept DEF SameNews
<1>7. ASSUME NEW t \in Scans, sess'[t].step \in Open PROVE Alone(t)' /\ HonestScan(t)'
  <2>1. t # s
    BY <1>2, <1>3, <1>7
  <2>2. Alone(t) /\ HonestScan(t) /\ BusOf[t] # BusOf[s]
    BY <1>3, <1>4, <1>7, <2>1 DEF Heard
  <2>3. Alone(t)'
    BY <1>1, <1>3, <2>2 DEF Alone
  <2>4. Shown(t)' = Shown(t)
    BY <1>1 DEF Shown, Channel
  <2>5. QED
    BY <1>1, <1>3, <2>1, <2>2, <2>3, <2>4 DEF HonestScan
<1>8. QED
  BY <1>5, <1>6, <1>7 DEF Heard

\* A Scan that connects has heard nothing, and its Bus has nothing of others to come.
LEMMA ConnectHeard == ASSUME Inv, Heard, NEW s \in Scans, Connect(s) PROVE Heard'
<1>1. /\ sess[s].step = "admitted" /\ UNCHANGED <<link, sensor, lease>>
      /\ \A t \in Scans \ {s} : BusOf[t] = BusOf[s] /\ sess[t].step = "done" => link[t] = <<>>
  BY DEF Connect, gatewayVars
<1>2. CASE Gone({s})
  BY <1>1, <1>2, HeardGone
<1>3. CASE /\ Becomes(s, [sess[s] EXCEPT !.step = "asking"])
           /\ dirty' = [dirty EXCEPT ![s] = {k \in Kinds : sensor[k][Channel(BusOf[s])] # NoState}]
           /\ UNCHANGED <<inbox, leaseEnd>>
  <2> DEFINE r == [sess[s] EXCEPT !.step = "asking"]
  <2>1. r.step = "asking" /\ SameNews(sess[s], r) /\ Becomes(s, r)
    BY <1>3, InvOf DEF AllLocals, SameNews
  <2> HIDE DEF r
  <2>2. sess'[s] = r /\ \A t \in Scans \ {s} : sess'[t] = sess[t]
    BY <2>1 DEF Becomes, Inv, Sessions
  <2>3. \A t \in Scans \ {s} : dirty'[t] = dirty[t]
    BY <1>3 DEF Inv, Wires
  <2>4. OneRuns' /\ OnBus'
    BY <1>1, <2>1, <2>2 DEF Heard, OneRuns, OnBus
  <2>5. ASSUME NEW t \in Scans, sess'[t].step \in {"new", "admitted"} PROVE Unheard(t)'
    <3>1. t # s
      BY <2>1, <2>2, <2>5
    <3>2. Unheard(t)
      BY <2>2, <2>5, <3>1 DEF Heard
    <3>3. QED
      BY <1>1, <1>3, <2>2, <2>3, <3>1, <3>2, UnheardKept
  <2>6. ASSUME NEW t \in Scans \ {s}, sess'[t].step \in Open PROVE Alone(t)' /\ HonestScan(t)'
    <3>1. Alone(t) /\ HonestScan(t)
      BY <2>2, <2>6 DEF Heard
    <3>2. Alone(t)'
      BY <1>1, <2>2, <3>1, AloneKept
    <3>3. Shown(t)' = Shown(t)
      BY <1>1 DEF Shown, Channel
    <3>4. QED
      BY <1>1, <1>3, <2>2, <3>1, <3>2, <3>3 DEF HonestScan
  <2>7. Alone(s)'
    <3> SUFFICES ASSUME NEW t \in Scans \ {s}, BusOf[t] = BusOf[s]
                 PROVE  link[t] = <<>> /\ sess[t].step \notin Running
      BY <1>1, <2>2 DEF Alone
    <3>1. sess[t].step \notin Running
      BY <1>1 DEF Heard, OneRuns
    <3>2. sess[t].step \in {"new", "done"}
      BY <3>1, InvOf DEF AllLocals, Steps
    <3>3. sess[t].step = "new" => link[t] = <<>>
      BY DEF Heard, Unheard
    <3>4. QED
      BY <1>1, <3>1, <3>2, <3>3
  <2>8. HonestScan(s)'
    <3>1. Unheard(s) /\ BusOf[s] \in Buses
      BY <1>1, BridgeAssumption DEF Heard
    <3>2. /\ link[s] = <<>> /\ inbox[s] = <<>> /\ leaseEnd[s] = "unset" /\ lease[BusOf[s]].scan # s
          /\ ~About(s, Shown(s)) /\ r.status = "none" /\ r.answer = "none" /\ ~r.answered
      BY <2>1, <3>1 DEF Unheard, Shown, SameNews
    <3>3. Honest(s, r, <<>>, <<>>, Shown(s), lease[BusOf[s]], "unset")
      <4>1. Len(<<>>) = 0 /\ 1..0 = {}
        OBVIOUS
      <4>2. \A i \in 1..Len(<<>>) : FALSE
        BY <4>1
      <4>3. QED
        BY <3>2, <4>2 DEF Honest, LastCall, KnownEnd, TrueSensor, TrueBox, TrueLocals
    <3>4. Shown(s)' = Shown(s)
      BY <1>1 DEF Shown, Channel
    <3>5. QED
      BY <1>1, <1>3, <2>2, <3>2, <3>3, <3>4 DEF HonestScan
  <2>9. QED
    BY <2>4, <2>5, <2>6, <2>7, <2>8 DEF Heard
<1>4. QED
  BY <1>2, <1>3 DEF Connect, historyVars

\* Scans that return, are torn before they connect, or die with their Home Assistant.
LEMMA DisconnectHeard == ASSUME Inv, Heard, NEW s \in Scans, Disconnect(s) PROVE Heard'
<1>1. /\ Gone({s}) /\ UNCHANGED <<sensor, lease>> /\ link' \in {link, [link EXCEPT ![s] = <<>>]}
  BY DEF Disconnect, gatewayVars
<1>2. link \in [Scans -> Seq(Calls)]
  BY DEF Inv, Wires
<1>3. \A t \in Scans : link'[t] = link[t] \/ (link'[t] = <<>> /\ t \in {s})
  BY <1>1, <1>2
<1>4. QED
  BY <1>1, <1>3, HeardGone

\* The task's cancellation.
LEMMA TaskCancelledHeard == ASSUME Inv, Heard, NEW s \in Scans, TaskCancelled(s) PROVE Heard'
<1>1. UNCHANGED <<link, sensor, lease>>
  BY DEF TaskCancelled, gatewayVars
<1>2. CASE /\ sess[s].step \in {"asking", "probing", "pausing"} /\ Becomes(s, Cleanup(sess[s]))
           /\ UNCHANGED <<inbox, dirty, leaseEnd>>
  <2>1. sess[s] \in AllLocals /\ SameNews(sess[s], sess[s])
    BY InvOf DEF SameNews
  <2>2. QED
    BY <1>1, <1>2, <2>1, CleanHeard
<1>3. CASE /\ sess[s].step \in {"freeing", "releasing"} /\ Becomes(s, [sess[s] EXCEPT !.step = "closing"])
           /\ UNCHANGED <<inbox, dirty, leaseEnd>>
  BY <1>1, <1>3, TornHeard
<1>4. CASE Gone({s})
  BY <1>1, <1>4, HeardGone
<1>5. QED
  BY <1>2, <1>3, <1>4 DEF TaskCancelled, historyVars

\* The end of a Home Assistant.
LEMMA CrashHeard == ASSUME Inv, Heard, NEW h \in Homes, Crash(h) PROVE Heard'
<1> DEFINE dead == {s \in Scans : Home[s] = h /\ sess[s].step \in Running}
<1>1. /\ Gone(dead) /\ UNCHANGED <<sensor, lease>>
      /\ \E lost \in SUBSET dead : link' = [s \in Scans |-> IF s \in lost THEN <<>> ELSE link[s]]
  BY DEF Crash, gatewayVars
<1>2. dead \in SUBSET Scans
  OBVIOUS
<1> HIDE DEF dead
<1>3. \A t \in Scans : link'[t] = link[t] \/ (link'[t] = <<>> /\ t \in dead)
  BY <1>1
<1>4. QED
  BY <1>1, <1>2, <1>3, HeardGone

\* A lease message of Bus b, on its sensor and on no other.
LEMMA LeaseSensor ==
  ASSUME Inv, NEW b \in Buses, NEW m, PublishLease(b, m)
  PROVE  sensor'["lease"] = [sensor["lease"] EXCEPT ![Channel(b)] = m]
  BY DEF PublishLease, Inv, Sensors

\* A message about another Scan's lease is no evidence.
LEMMA HonestOther ==
  ASSUME NEW s \in Scans, NEW r, NEW calls, NEW box, NEW m, NEW n, NEW l, NEW e,
         Honest(s, r, calls, box, m, l, e), ~About(s, n)
  PROVE  Honest(s, r, calls, box, n, l, e)
  BY DEF Honest, TrueSensor

\* A Scan whose lease, or call, is not yet there.
Fresh(s) == sess[s].step \in {"new", "admitted"}

\* Bus b takes a call or ends a lease: other Buses' Scans hear nothing of it, and Scans
\* that have not connected are not concerned.
LEMMA BusHeard ==
  ASSUME Inv, Heard, NEW b \in Buses, UNCHANGED <<sess, inbox>>,
         \A t \in Scans : sess[t].step \notin Open => dirty'[t] = dirty[t],
         \A c \in Buses \ {b} : lease'[c] = lease[c],
         lease'[b].scan # lease[b].scan => BusOf[lease'[b].scan] = b /\ ~Fresh(lease'[b].scan),
         \A c \in Channels \ {Channel(b)} : sensor'["lease"][c] = sensor["lease"][c],
         LET m == sensor'["lease"][Channel(b)]
         IN m # sensor["lease"][Channel(b)] => m \in LeaseMsgs /\ BusOf[m.scan] = b /\ ~Fresh(m.scan),
         \A t \in Scans : leaseEnd'[t] = leaseEnd[t] \/ (BusOf[t] = b /\ ~Fresh(t)),
         \A t \in Scans : link'[t] = link[t] \/ (BusOf[t] = b /\ link[t] # <<>>),
         \A t \in Scans : BusOf[t] = b /\ sess[t].step \in Open => HonestScan(t)'
  PROVE  Heard'
<1> DEFINE m == sensor'["lease"][Channel(b)]
<1>1. m # sensor["lease"][Channel(b)] => m \in LeaseMsgs /\ BusOf[m.scan] = b /\ ~Fresh(m.scan)
  OBVIOUS
<1>2. Channel(b) \in Channels /\ \A c \in Buses : Channel(c) \in Channels
  BY DEF Channels
<1>3. \A c \in Channels : sensor'["lease"][c] = IF c = Channel(b) THEN m ELSE sensor["lease"][c]
  BY <1>2
<1> HIDE DEF m
<1>4. \A t \in Scans : BusOf[t] \in Buses
  BY BridgeAssumption
<1>5. OneRuns' /\ OnBus'
  BY DEF Heard, OneRuns, OnBus
<1>6. ASSUME NEW t \in Scans, Fresh(t) PROVE Unheard(t)'
  <2>1. Unheard(t)
    BY <1>6 DEF Heard, Fresh
  <2>2. link'[t] = <<>> /\ leaseEnd'[t] = "unset"
    BY <1>6, <2>1 DEF Unheard
  <2>3. dirty'[t] = {}
    BY <1>6, <2>1 DEF Unheard, Fresh
  <2>4. ASSUME NEW c \in Buses PROVE lease'[c].scan # t /\ ~About(t, sensor'["lease"][Channel(c)])
    <3>1. lease'[c].scan # t
      BY <1>6, <2>1 DEF Unheard
    <3>2. CASE Channel(c) = Channel(b)
      <4>1. sensor'["lease"][Channel(c)] = m
        BY <1>2, <1>3, <3>2
      <4>2. m = sensor["lease"][Channel(b)] => ~About(t, m)
        BY <2>1 DEF Unheard
      <4>3. QED
        BY <1>1, <1>6, <3>1, <4>1, <4>2 DEF About
    <3>3. CASE Channel(c) # Channel(b)
      BY <1>2, <1>3, <2>1, <3>1, <3>3 DEF Unheard
    <3>4. QED
      BY <3>2, <3>3
  <2>5. QED
    BY <2>1, <2>2, <2>3, <2>4 DEF Unheard, Channel
<1>7. ASSUME NEW t \in Scans, sess[t].step \in Open PROVE Alone(t)' /\ HonestScan(t)'
  <2>1. Alone(t) /\ HonestScan(t)
    BY <1>7 DEF Heard
  <2>2. \A u \in Scans : link[u] = <<>> => link'[u] = <<>>
    OBVIOUS
  <2>3. Alone(t)'
    BY <2>1, <2>2, AloneKept
  <2>4. CASE BusOf[t] # b
    <3>1. lease'[BusOf[t]] = lease[BusOf[t]] /\ leaseEnd'[t] = leaseEnd[t] /\ link'[t] = link[t]
      BY <1>4, <2>4
    <3>2. Honest(t, sess[t], link[t], inbox[t], Shown(t), lease[BusOf[t]], leaseEnd[t])
      BY <2>1 DEF HonestScan
    <3> DEFINE n == sensor'["lease"][Channel(BusOf[t])]
    <3>3. n = Shown(t) \/ ~About(t, n)
      <4>1. CASE Channel(BusOf[t]) = Channel(b)
        <5>1. n = m
          BY <1>2, <1>3, <4>1
        <5>2. m = sensor["lease"][Channel(b)] => n = Shown(t)
          BY <4>1, <5>1 DEF Shown
        <5>3. QED
          BY <1>1, <2>4, <5>1, <5>2 DEF About
      <4>2. CASE Channel(BusOf[t]) # Channel(b)
        BY <1>2, <1>3, <1>4, <4>2 DEF Shown
      <4>3. QED
        BY <4>1, <4>2
    <3> HIDE DEF n
    <3>4. Honest(t, sess[t], link[t], inbox[t], n, lease[BusOf[t]], leaseEnd[t])
      BY <3>2, <3>3, HonestOther
    <3>5. Shown(t)' = n
      BY DEF Shown, Channel, n
    <3>6. HonestScan(t)'
      BY <3>1, <3>4, <3>5 DEF HonestScan
    <3>7. QED
      BY <2>3, <3>6
  <2>5. CASE BusOf[t] = b
    BY <1>7, <2>3, <2>5
  <2>6. QED
    BY <2>4, <2>5
<1>8. QED
  BY <1>5, <1>6, <1>7 DEF Heard, Fresh

\* A call of a Scan is taken: as long as it was there, the Scan was not told of no lease.
LEMMA HonestTaken ==
  ASSUME NEW s \in Scans, NEW r, NEW calls \in Seq(Calls), calls # <<>>, NEW box, NEW m, NEW l, NEW e,
         Honest(s, r, calls, box, m, l, e)
  PROVE  Honest(s, r, Tail(calls), box, m, l, e)
<1> DEFINE rest == Tail(calls)
<1>1. ~Unleased(s, r, calls, l)
  BY DEF Unleased
<1>2. /\ Len(rest) \in Nat /\ Len(calls) = Len(rest) + 1
      /\ \A i \in 1..Len(rest) : i \in Nat /\ i + 1 \in 1..Len(calls) /\ rest[i] = calls[i + 1]
  OBVIOUS
<1> HIDE DEF rest
<1>3. LastCall(r, rest)
  <2> SUFFICES ASSUME NEW i \in 1..Len(rest), rest[i].call = "release"
               PROVE  i = Len(rest) /\ r.step \in Past
    BY DEF LastCall
  <2>1. i + 1 = Len(calls) /\ r.step \in Past
    BY <1>2 DEF Honest, LastCall
  <2> HIDE DEF Past
  <2>2. QED
    BY <1>2, <2>1
<1>4. TrueSensor(s, r, rest, m, l, e) /\ TrueBox(s, r, rest, box, l, e) /\ TrueLocals(s, r, rest, box, l, e)
  BY <1>1 DEF Honest, TrueSensor, TrueBox, TrueLocals, True
<1>5. QED
  BY <1>3, <1>4 DEF Honest, rest

\* A lease of the Scan begins: nothing told of its end before.
LEMMA HonestBegins ==
  ASSUME NEW s \in Scans, NEW r, NEW calls, calls # <<>>, NEW box, NEW m, NEW l, NEW e,
         Honest(s, r, calls, box, m, l, e), l.scan # s,
         NEW n, n.state = "active", NEW k, k.scan = s, k.active, k.reason = "unset"
  PROVE  Honest(s, r, calls, box, n, k, "unset")
<1>1. ~Unleased(s, r, calls, l) /\ e = "unset"
  BY DEF Unleased, Honest, KnownEnd
<1>2. KnownEnd(s, k, "unset") /\ LastCall(r, calls)
  BY DEF KnownEnd, Honest
<1>3. TrueSensor(s, r, calls, n, k, "unset")
  BY DEF TrueSensor, True
<1>4. TrueBox(s, r, calls, box, k, "unset") /\ TrueLocals(s, r, calls, box, k, "unset")
  BY <1>1 DEF Honest, TrueBox, TrueLocals, True
<1>5. QED
  BY <1>2, <1>3, <1>4 DEF Honest

\* The lease of the Scan ends: that is told from now on, and nothing was told before.
LEMMA HonestEnds ==
  ASSUME NEW s \in Scans, NEW r, NEW calls, NEW box, NEW m, NEW l, NEW e,
         Honest(s, r, calls, box, m, l, e), l.scan = s, l.active, NEW why, why # "unset",
         NEW n, n.state = "ended", n.reason = why, NEW k, k.scan = s, k.active = FALSE, k.reason = why
  PROVE  Honest(s, r, calls, box, n, k, why)
<1>1. ~Unleased(s, r, calls, l) /\ e = "unset"
  BY DEF Unleased, Honest, KnownEnd
<1>2. KnownEnd(s, k, why) /\ LastCall(r, calls)
  BY DEF KnownEnd, Honest
<1>3. TrueSensor(s, r, calls, n, k, why)
  BY DEF TrueSensor, True
<1>4. TrueBox(s, r, calls, box, k, why) /\ TrueLocals(s, r, calls, box, k, why)
  BY <1>1 DEF Honest, TrueBox, TrueLocals, True
<1>5. QED
  BY <1>2, <1>3, <1>4 DEF Honest

\* The lease of another Scan ends.
LEMMA HonestElse ==
  ASSUME NEW s \in Scans, NEW r, NEW calls, NEW box, NEW m, NEW l, NEW e,
         Honest(s, r, calls, box, m, l, e), l.scan # s, NEW n, n = m \/ ~About(s, n), NEW k, k.scan # s
  PROVE  Honest(s, r, calls, box, n, k, e)
<1>1. e = "unset"
  BY DEF Honest, KnownEnd
<1>2. Unleased(s, r, calls, l) <=> Unleased(s, r, calls, k)
  BY DEF Unleased
<1>3. KnownEnd(s, k, e) /\ LastCall(r, calls)
  BY <1>1 DEF KnownEnd, Honest
<1>4. TrueSensor(s, r, calls, n, k, e)
  BY <1>2 DEF Honest, TrueSensor, True
<1>5. TrueBox(s, r, calls, box, k, e) /\ TrueLocals(s, r, calls, box, k, e)
  BY <1>2 DEF Honest, TrueBox, TrueLocals, True
<1>6. QED
  BY <1>3, <1>4, <1>5 DEF Honest

\* The answer to a release that ends nothing: how the lease had ended, or that there was none.
LEMMA HonestAnswer ==
  ASSUME NEW s \in Scans, NEW r, NEW calls, NEW box, NEW m, NEW l, NEW e,
         Honest(s, r, calls, box, m, l, e), NEW n,
         \/ l.scan = s /\ ~l.active /\ n.state = "ended" /\ n.reason = l.reason
         \/ Unleased(s, r, calls, l) /\ n.state = "none"
  PROVE  Honest(s, r, calls, box, n, l, e)
  BY DEF Honest, TrueSensor, True, KnownEnd

\* The result of a probe says nothing of a lease.
LEMMA ProbeEndsHeard ==
  ASSUME Inv, Heard, NEW b \in Buses, NEW outcome \in Outcomes, ProbeEnds(b, outcome)
  PROVE  Heard'
<1> DEFINE p == flight[b]
           x == [probe |-> p, outcome |-> outcome]
<1>1. /\ sensor' = [sensor EXCEPT !["result"][Channel(BusOf[p.scan])] = x]
      /\ dirty' = Told({"result"}, b)
      /\ UNCHANGED <<sess, link, inbox, lease, leaseEnd>>
  BY DEF ProbeEnds, haVars, PublishResult
<1> HIDE DEF p, x
<1>2. sensor'["lease"] = sensor["lease"]
  BY <1>1 DEF Inv, Sensors
<1>3. \A t \in Scans : sess[t].step \notin Open => dirty'[t] = dirty[t]
  BY <1>1 DEF Told, Connected
<1>4. ASSUME NEW t \in Scans, BusOf[t] = b, sess[t].step \in Open PROVE HonestScan(t)'
  <2>1. HonestScan(t) /\ Shown(t)' = Shown(t)
    BY <1>2, <1>4 DEF Heard, Shown, Channel
  <2>2. QED
    BY <1>1, <2>1 DEF HonestScan
<1>5. QED
  BY <1>1, <1>2, <1>3, <1>4, BusHeard

\* A Scan whose call arrives has its Bus to itself, if it is connected, and has connected.
LEMMA CallerFacts ==
  ASSUME Inv, Heard, NEW s \in Scans, link[s] # <<>>
  PROVE  /\ ~Fresh(s)
         /\ \A t \in Scans : BusOf[t] = BusOf[s] /\ sess[t].step \in Open => t = s
  BY DEF Heard, Fresh, Unheard, Alone

\* Calls, when the first of Scan s is taken.
LEMMA LinkTaken ==
  ASSUME Inv, NEW s \in Scans, link' = [link EXCEPT ![s] = Tail(@)]
  PROVE  link'[s] = Tail(link[s]) /\ \A t \in Scans \ {s} : link'[t] = link[t]
  BY DEF Inv, Wires

\* A probe that the Bus refuses begins no lease.
LEMMA ProbeBusyHeard == ASSUME Inv, Heard, NEW s \in Scans, ProbeBusy(s) PROVE Heard'
<1> DEFINE p == Head(link[s]).probe
           x == [probe |-> p, outcome |-> "gateway_error"]
           b == BusOf[s]
<1>1. /\ link[s] # <<>> /\ link' = [link EXCEPT ![s] = Tail(@)] /\ dirty' = Told({"result"}, b)
      /\ sensor' = [sensor EXCEPT !["result"][Channel(BusOf[p.scan])] = x]
      /\ UNCHANGED <<sess, inbox, lease, leaseEnd>>
  BY DEF ProbeBusy, haVars, PublishResult
<1> HIDE DEF p, x
<1>2. sensor'["lease"] = sensor["lease"]
  BY <1>1 DEF Inv, Sensors
<1>3. \A t \in Scans : sess[t].step \notin Open => dirty'[t] = dirty[t]
  BY <1>1 DEF Told, Connected
<1>4. link'[s] = Tail(link[s]) /\ \A t \in Scans \ {s} : link'[t] = link[t]
  BY <1>1, LinkTaken
<1>5. \A t \in Scans : link'[t] = link[t] \/ (BusOf[t] = b /\ link[t] # <<>>)
  BY <1>1, <1>4
<1>6. ASSUME NEW t \in Scans, BusOf[t] = b, sess[t].step \in Open PROVE HonestScan(t)'
  <2>1. t = s /\ HonestScan(s) /\ link[s] \in Seq(Calls) /\ Shown(s)' = Shown(s)
    BY <1>1, <1>2, <1>6, CallerFacts, HeardOf DEF Shown, Channel
  <2>2. Honest(s, sess[s], link[s], inbox[s], Shown(s), lease[BusOf[s]], leaseEnd[s])
    BY <2>1 DEF HonestScan
  <2>3. Honest(s, sess[s], Tail(link[s]), inbox[s], Shown(s), lease[BusOf[s]], leaseEnd[s])
    BY <1>1, <2>1, <2>2, HonestTaken
  <2>4. QED
    BY <1>1, <1>4, <2>1, <2>3 DEF HonestScan
<1>7. b \in Buses
  BY BridgeAssumption
<1> HIDE DEF b
<1>8. QED
  BY <1>1, <1>2, <1>3, <1>5, <1>6, <1>7, BusHeard

\* The end of a lease by the Bus itself: its Scan is told of it.
LEMMA LeaseExpiresHeard ==
  ASSUME Inv, Heard, NEW b \in Buses, NEW reason \in EarlyReasons, LeaseExpires(b, reason)
  PROVE  Heard'
<1> DEFINE x == lease[b].scan
           m == LeaseMsg(x, "ended", reason)
<1>1. /\ lease[b].active /\ lease' = [lease EXCEPT ![b] = Ended(b, reason)]
      /\ leaseEnd' = [leaseEnd EXCEPT ![x] = Noted(x, reason)]
      /\ PublishLease(b, m) /\ dirty' = Told({"lease"}, b)
      /\ UNCHANGED <<sess, link, inbox>>
  BY DEF LeaseExpires, haVars
<1>2. /\ x \in Scans /\ BusOf[x] = b /\ ~Fresh(x) /\ reason # "unset" /\ reason \in EndReasons
      /\ lease \in [Buses -> Leases] /\ leaseEnd \in [Scans -> EndReasons \cup {"unset"}]
  BY <1>1 DEF Inv, BusTypes, Heard, OnBus, Unheard, Fresh
<1>3. m \in LeaseMsgs /\ m.scan = x /\ m.state = "ended" /\ m.reason = reason
  BY <1>2 DEF LeaseMsg, LeaseMsgs
<1>4. /\ lease[b] \in Leases /\ Ended(b, reason).scan = x /\ Ended(b, reason).active = FALSE
      /\ Ended(b, reason).reason = reason
  BY <1>2 DEF Ended, Leases
<1>5. sensor'["lease"] = [sensor["lease"] EXCEPT ![Channel(b)] = m]
  BY <1>1, LeaseSensor
<1>6. Channel(b) \in Channels /\ sensor["lease"] \in [Channels -> LeaseMsgs \cup {NoState}]
  BY DEF Channels, Inv, Sensors
<1> HIDE DEF m, x
<1>7. /\ sensor'["lease"][Channel(b)] = m
      /\ \A c \in Channels \ {Channel(b)} : sensor'["lease"][c] = sensor["lease"][c]
  BY <1>5, <1>6
<1>8. /\ lease'[b] = Ended(b, reason) /\ \A c \in Buses \ {b} : lease'[c] = lease[c]
      /\ leaseEnd'[x] = Noted(x, reason) /\ \A t \in Scans \ {x} : leaseEnd'[t] = leaseEnd[t]
  BY <1>1, <1>2
<1>9. \A t \in Scans : sess[t].step \notin Open => dirty'[t] = dirty[t]
  BY <1>1 DEF Told, Connected
<1>10. ASSUME NEW t \in Scans, BusOf[t] = b, sess[t].step \in Open PROVE HonestScan(t)'
  <2>1. Honest(t, sess[t], link[t], inbox[t], Shown(t), lease[b], leaseEnd[t])
    BY <1>10 DEF Heard, HonestScan
  <2>2. Shown(t)' = m
    BY <1>7, <1>10 DEF Shown, Channel
  <2>3. CASE t = x
    <3>1. leaseEnd'[t] = reason
      BY <1>8, <1>10, <2>3 DEF Noted
    <3>2. Honest(t, sess[t], link[t], inbox[t], m, Ended(b, reason), reason)
      BY <1>1, <1>2, <1>3, <1>4, <2>1, <2>3, HonestEnds DEF x
    <3>3. QED
      BY <1>1, <1>8, <1>10, <2>2, <3>1, <3>2 DEF HonestScan
  <2>4. CASE t # x
    <3>1. ~About(t, m) /\ lease[b].scan # t /\ Ended(b, reason).scan # t
      BY <1>3, <1>4, <2>4 DEF About, x
    <3>2. Honest(t, sess[t], link[t], inbox[t], m, Ended(b, reason), leaseEnd[t])
      BY <2>1, <3>1, HonestElse
    <3>3. QED
      BY <1>1, <1>8, <1>10, <2>2, <2>4, <3>2 DEF HonestScan
  <2>5. QED
    BY <2>3, <2>4
<1>11. lease'[b].scan = lease[b].scan
  BY <1>4, <1>8 DEF x
<1>12. \A t \in Scans : leaseEnd'[t] = leaseEnd[t] \/ (BusOf[t] = b /\ ~Fresh(t))
  BY <1>2, <1>8
<1>13. QED
  BY <1>1, <1>2, <1>3, <1>7, <1>8, <1>9, <1>10, <1>11, <1>12, BusHeard

\* The release that arrives is the Scan's last call: its answer tells how the lease ended,
\* or that there is none any more.
LEMMA ReleaseArrivesHeard == ASSUME Inv, Heard, NEW s \in Scans, ReleaseArrives(s) PROVE Heard'
<1> DEFINE b == BusOf[s]
           m == ReleaseMsg(b, s)
           ends == lease[b].active /\ lease[b].scan = s
<1>1. /\ link[s] # <<>> /\ Head(link[s]).call = "release" /\ link' = [link EXCEPT ![s] = Tail(@)]
      /\ lease' = IF ends THEN [lease EXCEPT ![b] = Ended(b, "released")] ELSE lease
      /\ leaseEnd' = IF ends THEN [leaseEnd EXCEPT ![s] = Noted(s, "released")] ELSE leaseEnd
      /\ PublishLease(b, m) /\ dirty' = Told({"lease"}, b) /\ UNCHANGED <<sess, inbox>>
  BY DEF ReleaseArrives, haVars
<1>2. /\ b \in Buses /\ lease \in [Buses -> Leases] /\ lease[b] \in Leases
      /\ leaseEnd \in [Scans -> EndReasons \cup {"unset"}] /\ ~Fresh(s) /\ link[s] \in Seq(Calls)
  BY <1>1, BridgeAssumption, CallerFacts, InvOf DEF Inv, BusTypes
<1>3. /\ m \in LeaseMsgs /\ m.scan = s
      /\ ends => m.state = "ended" /\ m.reason = "released"
      /\ ~ends /\ lease[b].scan = s => m.state = "ended" /\ m.reason = lease[b].reason
      /\ lease[b].scan # s => m.state = "none"
  BY <1>2 DEF ReleaseMsg, LeaseMsg, LeaseMsgs, Leases
<1>4. /\ Ended(b, "released").scan = lease[b].scan /\ Ended(b, "released").active = FALSE
      /\ Ended(b, "released").reason = "released"
  BY <1>2 DEF Ended, Leases
<1>5. sensor'["lease"] = [sensor["lease"] EXCEPT ![Channel(b)] = m]
  BY <1>1, <1>2, LeaseSensor
<1>6. Channel(b) \in Channels /\ sensor["lease"] \in [Channels -> LeaseMsgs \cup {NoState}]
  BY <1>2 DEF Channels, Inv, Sensors
<1>7. link'[s] = Tail(link[s]) /\ \A t \in Scans \ {s} : link'[t] = link[t]
  BY <1>1, LinkTaken
<1> HIDE DEF m
<1>8. /\ sensor'["lease"][Channel(b)] = m
      /\ \A c \in Channels \ {Channel(b)} : sensor'["lease"][c] = sensor["lease"][c]
  BY <1>5, <1>6
<1>9. /\ lease'[b] = IF ends THEN Ended(b, "released") ELSE lease[b]
      /\ \A c \in Buses \ {b} : lease'[c] = lease[c]
      /\ leaseEnd'[s] = IF ends THEN Noted(s, "released") ELSE leaseEnd[s]
      /\ \A t \in Scans \ {s} : leaseEnd'[t] = leaseEnd[t]
  <2> HIDE DEF b
  <2>1. QED
    BY <1>1, <1>2
<1>10. \A t \in Scans : sess[t].step \notin Open => dirty'[t] = dirty[t]
  BY <1>1 DEF Told, Connected
<1>11. ASSUME NEW t \in Scans, BusOf[t] = b, sess[t].step \in Open PROVE HonestScan(t)'
  <2>1. t = s
    BY <1>1, <1>11, CallerFacts
  <2>2. Honest(s, sess[s], link[s], inbox[s], Shown(s), lease[b], leaseEnd[s])
    BY <1>11, <2>1 DEF Heard, HonestScan
  <2>3. Honest(s, sess[s], Tail(link[s]), inbox[s], Shown(s), lease[b], leaseEnd[s])
    BY <1>1, <1>2, <2>2, HonestTaken
  <2>4. Tail(link[s]) = <<>> /\ sess[s].step \in Past
    <3> DEFINE calls == link[s]
    <3>1. calls \in Seq(Calls) /\ calls # <<>> /\ calls[1].call = "release" /\ 1 \in 1..Len(calls)
      BY <1>1, <1>2
    <3>2. 1 = Len(calls) /\ sess[s].step \in Past
      BY <2>2, <3>1 DEF Honest, LastCall
    <3> HIDE DEF calls
    <3>3. Tail(calls) = <<>>
      <4> DEFINE rest == Tail(calls)
      <4>1. rest \in Seq(Calls) /\ Len(rest) = 0
        BY <3>1, <3>2
      <4> HIDE DEF rest
      <4>2. rest = <<>>
        BY <4>1
      <4>3. QED
        BY <4>2 DEF rest
    <3>4. QED
      BY <3>2, <3>3 DEF calls
  <2>5. Shown(s)' = m
    BY <1>8 DEF Shown, Channel
  <2>6. CASE ends
    <3>1. leaseEnd'[s] = "released"
      BY <1>9, <1>11, <2>1, <2>6 DEF Noted
    <3>2. Honest(s, sess[s], Tail(link[s]), inbox[s], m, Ended(b, "released"), "released")
      BY <1>3, <1>4, <2>3, <2>6, HonestEnds
    <3>3. QED
      BY <1>1, <1>7, <1>9, <2>1, <2>5, <2>6, <3>1, <3>2 DEF HonestScan
  <2>7. CASE ~ends
    <3>1. \/ /\ lease[b].scan = s /\ ~lease[b].active /\ m.state = "ended" /\ m.reason = lease[b].reason
          \/ Unleased(s, sess[s], Tail(link[s]), lease[b]) /\ m.state = "none"
      BY <1>3, <2>4, <2>7 DEF Unleased
    <3>2. Honest(s, sess[s], Tail(link[s]), inbox[s], m, lease[b], leaseEnd[s])
      BY <2>3, <3>1, HonestAnswer
    <3>3. QED
      BY <1>1, <1>7, <1>9, <2>1, <2>5, <2>7, <3>2 DEF HonestScan
  <2>8. QED
    BY <2>6, <2>7
<1>12. lease'[b].scan = lease[b].scan
  BY <1>4, <1>9
<1>13. BusOf[m.scan] = b /\ ~Fresh(m.scan)
  BY <1>2, <1>3
<1>14. /\ \A t \in Scans : leaseEnd'[t] = leaseEnd[t] \/ (BusOf[t] = b /\ ~Fresh(t))
       /\ \A t \in Scans : link'[t] = link[t] \/ (BusOf[t] = b /\ link[t] # <<>>)
  BY <1>1, <1>2, <1>7, <1>9
<1> HIDE DEF b
<1>15. QED
  BY <1>1, <1>2, <1>3, <1>8, <1>9, <1>10, <1>11, <1>12, <1>13, <1>14, BusHeard

\* The lease after a probe of Scan s: its own, another's that ended, or what it was.
LEMMA LeaseForHeard ==
  ASSUME Inv, NEW s \in Scans, NEW b \in Buses
  PROVE  /\ Begins(b, s) => /\ LeaseFor(b, s).scan = s /\ LeaseFor(b, s).active
                            /\ LeaseFor(b, s).reason = "unset" /\ LeaseForMsg(b, s) \in LeaseMsgs
                            /\ LeaseForMsg(b, s).scan = s /\ LeaseForMsg(b, s).state = "active"
         /\ ~Begins(b, s) => LeaseFor(b, s).scan = lease[b].scan
         /\ ~Begins(b, s) /\ Supersedes(b, s) =>
              LeaseForMsg(b, s) \in LeaseMsgs /\ LeaseForMsg(b, s).scan = lease[b].scan
         /\ ~Begins(b, s) /\ ~Supersedes(b, s) => LeaseFor(b, s) = lease[b]
<1>1. lease[b] \in Leases /\ (lease[b].active => lease[b].scan \in Scans)
  BY DEF Inv, BusTypes
<1>2. CASE Begins(b, s)
  BY <1>2 DEF LeaseFor, LeaseForMsg, LeaseMsg, LeaseMsgs
<1>3. CASE ~Begins(b, s) /\ Supersedes(b, s)
  <2>1. LeaseFor(b, s) = [lease[b] EXCEPT !.active = FALSE, !.reason = "superseded"]
    BY <1>3 DEF LeaseFor, Ended
  <2>2. LeaseForMsg(b, s) = [scan |-> lease[b].scan, state |-> "ended", reason |-> "superseded"]
    BY <1>3 DEF LeaseForMsg, LeaseMsg
  <2>3. lease[b].scan \in Scans
    BY <1>1, <1>3 DEF Supersedes
  <2>4. QED
    BY <1>1, <1>3, <2>1, <2>2, <2>3 DEF Leases, LeaseMsgs
<1>4. CASE ~Begins(b, s) /\ ~Supersedes(b, s)
  BY <1>4 DEF LeaseFor
<1>5. QED
  BY <1>2, <1>3, <1>4

\* A probe that arrives may begin its Scan's lease, and end another's.
LEMMA ProbeArrivesHeard ==
  ASSUME Inv, Heard, NEW s \in Scans, NEW accepted \in BOOLEAN, ProbeArrives(s, accepted)
  PROVE  Heard'
<1> DEFINE b == BusOf[s]
           tells == LeaseForPublishes(b, s)
           m == IF tells THEN LeaseForMsg(b, s) ELSE sensor["lease"][Channel(b)]
           x == IF accepted THEN sensor["result"][Channel(b)]
                ELSE [probe |-> Head(link[s]).probe, outcome |-> "gateway_error"]
           kinds == (IF tells THEN {"lease"} ELSE {}) \cup (IF accepted THEN {} ELSE {"result"})
<1>1. /\ link[s] # <<>> /\ link' = [link EXCEPT ![s] = Tail(@)]
      /\ lease' = [lease EXCEPT ![b] = LeaseFor(b, s)] /\ leaseEnd' = LeaseEndAfter(b, s)
      /\ dirty' = Told(kinds, b) /\ UNCHANGED <<sess, inbox>>
  BY DEF ProbeArrives, haVars
<1>2. /\ b \in Buses /\ lease \in [Buses -> Leases] /\ ~Fresh(s) /\ link[s] \in Seq(Calls)
      /\ \A t \in Scans : lease[b].scan = t => BusOf[t] = b /\ ~Fresh(t)
  BY <1>1, BridgeAssumption, CallerFacts, InvOf DEF Inv, BusTypes, Heard, OnBus, Unheard, Fresh
<1>3. Channel(b) \in Channels /\ sensor["lease"] \in [Channels -> LeaseMsgs \cup {NoState}]
  BY <1>2 DEF Channels, Inv, Sensors
<1>4. sensor'["lease"] = [sensor["lease"] EXCEPT ![Channel(b)] = m]
  <2>1. sensor = [k \in Kinds |-> sensor[k]]
    BY DEF Inv, Sensors
  <2>2. sensor' = [sensor EXCEPT !["lease"][Channel(b)] = m, !["result"][Channel(b)] = x]
    BY <2>1 DEF ProbeArrives
  <2> HIDE DEF m, x, b
  <2>3. QED
    BY <2>1, <2>2
<1>5. /\ Begins(b, s) => /\ LeaseFor(b, s).scan = s /\ LeaseFor(b, s).active
                         /\ LeaseFor(b, s).reason = "unset" /\ LeaseForMsg(b, s) \in LeaseMsgs
                         /\ LeaseForMsg(b, s).scan = s /\ LeaseForMsg(b, s).state = "active"
      /\ ~Begins(b, s) => LeaseFor(b, s).scan = lease[b].scan
      /\ ~Begins(b, s) /\ Supersedes(b, s) =>
           LeaseForMsg(b, s) \in LeaseMsgs /\ LeaseForMsg(b, s).scan = lease[b].scan
      /\ ~Begins(b, s) /\ ~Supersedes(b, s) => LeaseFor(b, s) = lease[b]
  <2> HIDE DEF b
  <2>1. QED
    BY <1>2, LeaseForHeard
<1>6. /\ Begins(b, s) => m = LeaseForMsg(b, s) /\ lease[b].scan # s
      /\ ~Begins(b, s) /\ Supersedes(b, s) => m = LeaseForMsg(b, s) /\ lease[b].scan # s
      /\ ~Begins(b, s) /\ ~Supersedes(b, s) => m = sensor["lease"][Channel(b)]
  BY DEF LeaseForPublishes, Begins, Supersedes
<1>7. Supersedes(b, s) => lease[b].scan \in Scans
  BY <1>2 DEF Supersedes, Inv, BusTypes
<1>8. m # sensor["lease"][Channel(b)] => m \in LeaseMsgs /\ BusOf[m.scan] = b /\ ~Fresh(m.scan)
  <2> HIDE DEF m
  <2>1. CASE Begins(b, s)
    BY <1>2, <1>5, <1>6, <2>1
  <2>2. CASE ~Begins(b, s) /\ Supersedes(b, s)
    BY <1>2, <1>5, <1>6, <1>7, <2>2
  <2>3. QED
    BY <1>6, <2>1, <2>2
<1>9. \A t \in Scans : sess[t].step \notin Open => dirty'[t] = dirty[t]
  BY <1>1 DEF Told, Connected
<1>10. link'[s] = Tail(link[s]) /\ \A t \in Scans \ {s} : link'[t] = link[t]
  BY <1>1, LinkTaken
<1>11. /\ \A t \in Scans : leaseEnd'[t] = IF t = s /\ Begins(b, s) THEN "unset"
                                          ELSE IF t = lease[b].scan /\ Supersedes(b, s) THEN Noted(t, "superseded")
                                          ELSE leaseEnd[t]
  BY <1>1 DEF LeaseEndAfter
<1>12. lease'[b] = LeaseFor(b, s) /\ \A c \in Buses \ {b} : lease'[c] = lease[c]
  <2> HIDE DEF b
  <2>1. QED
    BY <1>1, <1>2
<1> HIDE DEF m, kinds, x, tells
<1>13. /\ sensor'["lease"][Channel(b)] = m
       /\ \A c \in Channels \ {Channel(b)} : sensor'["lease"][c] = sensor["lease"][c]
  BY <1>3, <1>4
<1>14. ASSUME NEW t \in Scans, BusOf[t] = b, sess[t].step \in Open PROVE HonestScan(t)'
  <2>1. t = s
    BY <1>1, <1>14, CallerFacts
  <2>2. Honest(s, sess[s], link[s], inbox[s], Shown(s), lease[b], leaseEnd[s])
    BY <1>14, <2>1 DEF Heard, HonestScan
  <2>3. Honest(s, sess[s], link[s], inbox[s], m, lease'[b], leaseEnd'[s])
    <3>1. CASE Begins(b, s)
      <4>1. leaseEnd'[s] = "unset"
        BY <1>11, <3>1
      <4>2. Honest(s, sess[s], link[s], inbox[s], m, LeaseFor(b, s), "unset")
        BY <1>1, <1>5, <1>6, <2>2, <3>1, HonestBegins
      <4>3. QED
        BY <1>12, <4>1, <4>2
    <3>2. CASE ~Begins(b, s) /\ Supersedes(b, s)
      <4>1. leaseEnd'[s] = leaseEnd[s]
        BY <1>6, <1>11, <3>2
      <4>2. ~About(s, m) /\ LeaseFor(b, s).scan # s /\ lease[b].scan # s
        BY <1>5, <1>6, <3>2 DEF About
      <4>3. Honest(s, sess[s], link[s], inbox[s], m, LeaseFor(b, s), leaseEnd[s])
        BY <2>2, <4>2, HonestElse
      <4>4. QED
        BY <1>12, <4>1, <4>3
    <3>3. CASE ~Begins(b, s) /\ ~Supersedes(b, s)
      <4>1. leaseEnd'[s] = leaseEnd[s] /\ lease'[b] = lease[b]
        BY <1>5, <1>11, <1>12, <3>3
      <4>2. m = Shown(s)
        BY <1>6, <3>3 DEF Shown
      <4>3. QED
        BY <2>2, <4>1, <4>2
    <3>4. QED
      BY <3>1, <3>2, <3>3
  <2>4. Honest(s, sess[s], Tail(link[s]), inbox[s], m, lease'[b], leaseEnd'[s])
    BY <1>1, <1>2, <2>3, HonestTaken
  <2>5. Shown(s)' = m
    BY <1>13 DEF Shown, Channel
  <2>6. QED
    BY <1>1, <1>10, <2>1, <2>4, <2>5 DEF HonestScan
<1>15. lease'[b].scan # lease[b].scan => BusOf[lease'[b].scan] = b /\ ~Fresh(lease'[b].scan)
  BY <1>2, <1>5, <1>12
<1>16. /\ \A t \in Scans : leaseEnd'[t] = leaseEnd[t] \/ (BusOf[t] = b /\ ~Fresh(t))
       /\ \A t \in Scans : link'[t] = link[t] \/ (BusOf[t] = b /\ link[t] # <<>>)
  BY <1>1, <1>2, <1>10, <1>11
<1>17. UNCHANGED <<sess, inbox>>
  BY <1>1
<1> HIDE DEF b
<1>18. QED
  BY <1>2, <1>8, <1>9, <1>12, <1>13, <1>14, <1>15, <1>16, <1>17, BusHeard

\* A message that leaves in a batch is what the sensor shows: true, and no older than those
\* that left before it.
LEMMA HonestSends ==
  ASSUME NEW s \in Scans, NEW r, NEW calls, NEW box \in Seq(States), NEW m, NEW l, NEW e,
         Honest(s, r, calls, box, m, l, e), NEW state \in States,
         Tells(s, state) => state.msg = m /\ About(s, m)
  PROVE  Honest(s, r, calls, Append(box, state), m, l, e)
<1> DEFINE next == Append(box, state)
           new == Len(box) + 1
<1> USE DEF Honest
<1>1. /\ Len(box) \in Nat /\ Len(next) = new /\ next[new] = state /\ new \in 1..Len(next)
      /\ \A i \in 1..Len(next) : i = new \/ (i \in 1..Len(box) /\ next[i] = box[i])
      /\ \A i \in 1..Len(box) : i < new
  OBVIOUS
<1>2. Tells(s, state) => True(s, r, calls, state.msg, l, e) /\ (state.msg.state = "active" => e = "unset")
  BY DEF TrueSensor
<1> HIDE DEF next, new
<1>3. TrueBox(s, r, calls, next, l, e)
  <2>1. \A i \in 1..Len(next) : Tells(s, next[i]) => True(s, r, calls, next[i].msg, l, e)
    BY <1>1, <1>2 DEF TrueBox
  <2>2. ASSUME NEW i \in 1..Len(next), NEW j \in 1..Len(next), i < j, Tells(s, next[i]), Tells(s, next[j]),
               next[i].msg.state = "ended", next[j].msg.state = "active"
        PROVE  FALSE
    <3>1. i \in 1..Len(box) /\ next[i] = box[i]
      BY <1>1, <2>2
    <3>2. e # "unset"
      BY <2>2, <3>1 DEF TrueBox, True
    <3>3. j # new
      BY <1>1, <1>2, <2>2, <3>2
    <3>4. j \in 1..Len(box) /\ next[j] = box[j]
      BY <1>1, <3>3
    <3>5. QED
      BY <2>2, <3>1, <3>4 DEF TrueBox
  <2>3. QED
    BY <2>1, <2>2 DEF TrueBox
<1>4. TrueLocals(s, r, calls, next, l, e)
  BY <1>1, <1>2 DEF TrueLocals
<1>5. QED
  BY <1>3, <1>4 DEF next

\* A batch that leaves.
LEMMA FlushHeard ==
  ASSUME Inv, Heard, NEW s \in Scans, NEW kind \in Kinds, Flush(s, kind)
  PROVE  Heard'
<1> DEFINE state == [kind |-> kind, msg |-> sensor[kind][Channel(BusOf[s])]]
<1>1. /\ kind \in dirty[s] /\ dirty' = [dirty EXCEPT ![s] = @ \ {kind}]
      /\ inbox' = [inbox EXCEPT ![s] = Append(@, state)]
      /\ UNCHANGED <<sess, link, sensor, lease, leaseEnd>>
  BY DEF Flush, haVars, gatewayVars, historyVars
<1>2. /\ kind = "result" => sensor[kind][Channel(BusOf[s])] \in Results
      /\ kind = "lease" => sensor[kind][Channel(BusOf[s])] \in LeaseMsgs
  BY <1>1 DEF Inv, Sensors
<1>3. state \in States
  BY <1>2 DEF States
<1>4. Tells(s, state) => state.msg = Shown(s) /\ About(s, Shown(s))
  BY <1>2 DEF Tells, Shown, About
<1> HIDE DEF state
<1>5. /\ inbox \in [Scans -> Seq(States)] /\ inbox[s] \in Seq(States) /\ dirty \in [Scans -> SUBSET Kinds]
  BY DEF Inv, Wires
<1>6. /\ inbox'[s] = Append(inbox[s], state)
      /\ \A t \in Scans \ {s} : inbox'[t] = inbox[t] /\ dirty'[t] = dirty[t]
  BY <1>1, <1>5
<1>7. OneRuns' /\ OnBus'
  BY <1>1 DEF Heard, OneRuns, OnBus
<1>8. ASSUME NEW t \in Scans, sess[t].step \in {"new", "admitted"} PROVE Unheard(t)'
  <2>1. Unheard(t)
    BY <1>8 DEF Heard
  <2>2. t # s
    BY <1>1, <2>1 DEF Unheard
  <2>3. QED
    BY <1>1, <1>6, <2>1, <2>2, UnheardKept
<1>9. ASSUME NEW t \in Scans, sess[t].step \in Open PROVE Alone(t)' /\ HonestScan(t)'
  <2>1. Alone(t) /\ HonestScan(t)
    BY <1>9 DEF Heard
  <2>2. Alone(t)'
    BY <1>1, <2>1, AloneKept
  <2>3. Shown(t)' = Shown(t)
    BY <1>1 DEF Shown, Channel
  <2>4. CASE t = s
    <3>1. Honest(s, sess[s], link[s], inbox[s], Shown(s), lease[BusOf[s]], leaseEnd[s])
      BY <2>1, <2>4 DEF HonestScan
    <3>2. Honest(s, sess[s], link[s], Append(inbox[s], state), Shown(s), lease[BusOf[s]], leaseEnd[s])
      BY <1>3, <1>4, <1>5, <3>1, HonestSends
    <3>3. QED
      BY <1>1, <1>6, <2>2, <2>3, <2>4, <3>2 DEF HonestScan
  <2>5. CASE t # s
    BY <1>1, <1>6, <2>1, <2>2, <2>3, <2>5 DEF HonestScan
  <2>6. QED
    BY <2>4, <2>5
<1>10. QED
  BY <1>1, <1>7, <1>8, <1>9 DEF Heard

\* Every step keeps what is heard true.
LEMMA HeardStep == ASSUME Solo PROVE Inv /\ Heard /\ [Next]_vars => Heard'
<1> SUFFICES ASSUME Inv, Heard, [Next]_vars PROVE Heard'
  OBVIOUS
<1>1. ASSUME NEW s \in Scans, Cancel(s) PROVE Heard'
  BY <1>1, HeardQuiet DEF Cancel, netVars, gatewayVars, historyVars
<1>2. ASSUME NEW s \in Scans, ScanNext(s) PROVE Heard'
  BY <1>1, <1>2, AdmitHeard, ConnectHeard, SendProbeHeard, ReceiveHeard, ProbeResumesHeard, NextAddressHeard,
     WaitExpiresHeard, SendReleaseHeard, ReleaseOverHeard, DisconnectHeard, ConnectionLostHeard,
     TaskCancelledHeard DEF ScanNext
<1>3. CASE GatewayNext
  BY <1>3, ProbeBusyHeard, ReleaseArrivesHeard, ProbeArrivesHeard, FlushHeard, ProbeEndsHeard, LeaseExpiresHeard
     DEF GatewayNext
<1>4. ASSUME NEW h \in Homes, CheckBegins(h) \/ CheckEnds(h) \/ Crash(h) PROVE Heard'
  <2>1. CASE CheckBegins(h) \/ CheckEnds(h)
    BY <2>1, HeardQuiet DEF CheckBegins, CheckEnds, netVars, gatewayVars, historyVars
  <2>2. QED
    BY <1>4, <2>1, CrashHeard
<1>5. CASE UNCHANGED vars
  BY <1>5, HeardQuiet DEF vars, haVars, netVars, gatewayVars, historyVars
<1>6. QED
  BY <1>2, <1>3, <1>4, <1>5 DEF Next

\* What a connected Scan has heard of its lease is true in every reachable state.
THEOREM HeardHolds == ASSUME Solo PROVE Spec => []Heard
<1>1. Inv /\ Heard /\ [Next]_vars => Heard'
  BY HeardStep
<1>2. QED
  BY <1>1, HeardInit, InvHolds, PTL DEF Spec

\* The reason HA reports for the end of a lease is the one for which the Bus ended it.
THEOREM EndReasonHolds == ASSUME Solo PROVE Spec => EndReasonTrue
<1> DEFINE Reported == \A s \in Scans : Returns(s) /\ sess[s].status = "ended" => sess[s].reason = leaseEnd[s]
<1>1. Heard => Reported
  BY DEF Heard, HonestScan, Honest, TrueLocals, Returns
<1>2. Heard /\ [Next]_vars => [Reported]_vars
  BY <1>1
<1>3. QED
  BY <1>2, HeardHolds, PTL DEF Spec, EndReasonTrue

\* What a Scan reports is its own: its outcomes, no check between, and the end of its lease.
THEOREM UndisturbedHolds == ASSUME Solo PROVE Spec => ScansUndisturbed
  BY ReportsHold, EndReasonHolds DEF ScansUndisturbed

\* ADR 0007: once the Gateway answered the release, HA reports that the lease ended early,
\* and why: the answer tells of the end it had, and nothing else is taken for an answer.
THEOREM EarlyEndHolds == ASSUME Solo PROVE Spec => EarlyEndReported
<1> DEFINE Reported == \A s \in Scans : Returns(s) /\ sess[s].answered /\ leaseEnd[s] \in EarlyReasons =>
                      sess[s].status = "ended" /\ sess[s].reason = leaseEnd[s]
<1>1. ASSUME Heard PROVE Reported
  <2> SUFFICES ASSUME NEW s \in Scans, Returns(s), sess[s].answered, leaseEnd[s] \in EarlyReasons
               PROVE  sess[s].status = "ended" /\ sess[s].reason = leaseEnd[s]
    OBVIOUS
  <2>1. Honest(s, sess[s], link[s], inbox[s], Shown(s), lease[BusOf[s]], leaseEnd[s])
    BY <1>1 DEF Returns, Heard, HonestScan
  <2>2. ~Unleased(s, sess[s], link[s], lease[BusOf[s]])
    BY <2>1 DEF Honest, KnownEnd, Unleased
  <2>3. QED
    BY <2>1, <2>2 DEF Honest, TrueLocals
<1>2. Heard /\ [Next]_vars => [Reported]_vars
  BY <1>1
<1>3. QED
  BY <1>2, HeardHolds, PTL DEF Spec, EarlyEndReported

==============================================================================
