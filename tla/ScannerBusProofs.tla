--------------------------- MODULE ScannerBusProofs ---------------------------
(***************************************************************************)
(* Theorems about one scanner Bus, for every set of Scans, pollers,        *)
(* addresses and request ids and for all times that satisfy the            *)
(* assumptions of ScannerBus.                                              *)
(*                                                                         *)
(* The invariant Inv is proved group by group: TypeOK first, then what the *)
(* Bus and the hub agree on, what the lease and the pollers agree on, the  *)
(* ages, and the Lease sensor.                                             *)
(***************************************************************************)
EXTENDS ScannerBus, TLAPS
------------------------------------------------------------------------------
(* Type correctness. *)

\* What the lease half of an action leaves well typed.
LeaseTypes ==
  /\ lease \in Leases /\ leaseMsg \in LeaseMsgs
  /\ started \in Clock /\ touched \in Clock
  /\ paused \in SUBSET Pollers
  /\ leaseAge \in Nat /\ idleAge \in Nat

\* end_lease_ keeps the lease well typed, whatever the reason.
LEMMA EndLeaseTypes ==
  ASSUME TypeOK, NEW reason \in EndReasons, EndLease(reason)
  PROVE  LeaseTypes'
<1>1. lease' = [scan |-> lease.scan, pollers |-> lease.pollers,
                active |-> FALSE, reason |-> reason]
  BY DEF EndLease, TypeOK, Leases
<1>2. lease' \in Leases
  BY <1>1 DEF TypeOK, Leases
<1>3. leaseMsg' \in LeaseMsgs
  BY DEF EndLease, LeaseMsg, TypeOK, Leases, LeaseMsgs
<1>4. started' \in Clock /\ touched' \in Clock
  BY TimesAssumption DEF EndLease, Clock
<1>5. paused' \in SUBSET Pollers /\ leaseAge' \in Nat /\ idleAge' \in Nat
  BY DEF EndLease, Resumed, TypeOK
<1>6. QED
  BY <1>2, <1>3, <1>4, <1>5 DEF LeaseTypes

\* So does lease_for_, whether it begins, renews, supersedes or leaves the lease.
LEMMA LeaseForTypes ==
  ASSUME TypeOK, NEW s \in Scans, NEW chosen \in SUBSET Pollers, LeaseFor(s, chosen)
  PROVE  LeaseTypes'
<1>1. CASE Renew
  BY <1>1 DEF Renew, LeaseTypes, TypeOK
<1>2. CASE Begin(s, chosen)
  <2>1. lease' \in Leases
    BY <1>2 DEF Begin, Leases
  <2>2. leaseMsg' \in LeaseMsgs
    BY <1>2 DEF Begin, LeaseMsg, LeaseMsgs
  <2>3. paused' \in SUBSET Pollers
    BY <1>2 DEF Begin, Resumed, TypeOK
  <2>4. started' \in Clock /\ touched' \in Clock /\ leaseAge' \in Nat /\ idleAge' \in Nat
    BY <1>2 DEF Begin, TypeOK
  <2>5. QED
    BY <2>1, <2>2, <2>3, <2>4 DEF LeaseTypes
<1>3. CASE EndLease("superseded")
  BY <1>3, EndLeaseTypes DEF EndReasons
<1>4. CASE UNCHANGED leaseVars
  BY <1>4 DEF leaseVars, LeaseTypes, TypeOK
<1>5. QED
  BY <1>1, <1>2, <1>3, <1>4 DEF LeaseFor

\* Every step keeps every member in the range its C++ type and its uses give it.
LEMMA TypeStep == TypeOK /\ [Next]_vars => TypeOK'
<1> SUFFICES ASSUME TypeOK, [Next]_vars PROVE TypeOK'
  OBVIOUS
<1>1. CASE Tick
  <2>1. clock' \in Clock /\ sinceLoop' \in 0..LoopGap
    BY <1>1, TimesAssumption DEF Tick, TypeOK, Clock
  <2>2. leaseAge' \in Nat /\ idleAge' \in Nat
    BY <1>1 DEF Tick, TypeOK, Older
  <2>3. QED
    BY <1>1, <2>1, <2>2 DEF Tick, TypeOK, probeVars, hubVars
<1>2. CASE Loop
  <2>1. LeaseTypes'
    <3>1. CASE UNCHANGED leaseVars
      BY <3>1 DEF leaseVars, LeaseTypes, TypeOK
    <3>2. CASE EndLease("hard_limit") \/ EndLease("idle")
      BY <3>2, EndLeaseTypes DEF EndReasons
    <3>3. QED
      BY <1>2, <3>1, <3>2 DEF Loop
  <2>2. sinceLoop' \in 0..LoopGap
    BY <1>2, TimesAssumption DEF Loop
  <2>3. QED
    BY <1>2, <2>1, <2>2 DEF Loop, probeVars, hubVars, TypeOK, LeaseTypes
<1>3. ASSUME NEW id \in Ids, ProbeRefused(id) PROVE TypeOK'
  <2>1. owed' \in [Ids -> Int]
    BY <1>3 DEF ProbeRefused, Rejected, Asked, Answered, TypeOK
  <2>2. QED
    BY <1>3, <2>1 DEF ProbeRefused, TypeOK, leaseVars, hubVars, timeVars
<1>4. ASSUME NEW r \in Requests, NEW chosen \in SUBSET Pollers, NEW accepted \in BOOLEAN,
             ProbeStarted(r, chosen, accepted)
      PROVE  TypeOK'
  <2>1. r.scan \in Scans /\ r.id \in Ids
    BY DEF Requests
  <2>2. LeaseTypes'
    BY <1>4, <2>1, LeaseForTypes DEF ProbeStarted
  <2>3. waiting' \in SUBSET Sources
    BY <1>4 DEF ProbeStarted, QueueAfter, Cleared, TypeOK, Sources
  <2>4. request' \in Requests \cup {NoRequest}
    BY <1>4 DEF ProbeStarted, RequestAfter
  <2>5. owed' \in [Ids -> Int]
    BY <1>4, <2>1 DEF ProbeStarted, Rejected, Asked, Answered, TypeOK
  <2>6. QED
    BY <1>4, <2>2, <2>3, <2>4, <2>5 DEF ProbeStarted, timeVars, TypeOK, LeaseTypes
<1>5. ASSUME NEW s \in Scans, Release(s) PROVE TypeOK'
  <2>1. LeaseTypes'
    <3>1. CASE EndLease("released")
      BY <3>1, EndLeaseTypes DEF EndReasons
    <3>2. CASE UNCHANGED <<lease, started, touched, paused, leaseAge, idleAge>>
      <4>1. leaseMsg' \in LeaseMsgs
        BY <1>5 DEF Release, EndLease, LeaseMsg, LeaseMsgs, Leases, EndReasons, TypeOK
      <4>2. QED
        BY <3>2, <4>1 DEF TypeOK, LeaseTypes
    <3>3. QED
      BY <1>5, <3>1, <3>2 DEF Release
  <2>2. QED
    BY <1>5, <2>1 DEF Release, probeVars, hubVars, timeVars, TypeOK, LeaseTypes
<1>6. ASSUME NEW p \in Pollers, PollerFrame(p) \/ SendPoller(p) \/ PollerDone(p)
      PROVE  TypeOK'
  BY <1>6 DEF PollerFrame, SendPoller, PollerDone, TypeOK, Sources,
              leaseVars, probeVars, timeVars
<1>7. CASE SendProbe
  <2>1. sendWait' \in Timeouts \cup {NormalWait} /\ sent' \in BOOLEAN
    BY <1>7 DEF SendProbe, OnSent, inFlight, TypeOK, Requests
  <2>2. QED
    BY <1>7, <2>1 DEF SendProbe, TypeOK, Sources, leaseVars, timeVars
<1>8. CASE ProbeDone \/ ProbeNotSent
  <2>1. Finish /\ wire' \in Sources \cup {NoSource} /\ waiting' \in SUBSET Sources
    BY <1>8 DEF ProbeDone, ProbeNotSent, TypeOK
  <2>2. owed' \in [Ids -> Int]
    BY <2>1 DEF Finish, Answered, inFlight, TypeOK, Requests
  <2>3. /\ sendWait' \in Timeouts \cup {NormalWait} /\ sent' \in BOOLEAN
        /\ request' \in Requests \cup {NoRequest}
        /\ touched' \in Clock /\ idleAge' \in Nat
    <3>1. CASE inFlight
      <4>1. sendWait' = RestoredWait /\ sent' = FALSE /\ request' = NoRequest /\ idleAge' = 0
        BY <2>1, <3>1 DEF Finish
      <4>2. touched' \in {clock, touched}
        BY <2>1, <3>1 DEF Finish
      <4>3. QED
        BY <4>1, <4>2 DEF RestoredWait, TypeOK
    <3>2. CASE ~inFlight
      BY <2>1, <3>2 DEF Finish, TypeOK
    <3>3. QED
      BY <3>1, <3>2
  <2>4. UNCHANGED <<lease, started, paused, leaseMsg, leaseAge, clock, sinceLoop>>
    BY <2>1 DEF Finish, timeVars
  <2>5. QED
    BY <2>1, <2>2, <2>3, <2>4 DEF TypeOK
<1>9. CASE UNCHANGED vars
  BY <1>9 DEF vars, leaseVars, probeVars, hubVars, timeVars, TypeOK
<1>10. QED
  BY <1>1, <1>2, <1>3, <1>4, <1>5, <1>6, <1>7, <1>8, <1>9 DEF Next

\* The freshly started Bus is well typed.
LEMMA TypeInit == Init => TypeOK
<1> SUFFICES ASSUME Init PROVE TypeOK
  OBVIOUS
<1>1. lease \in Leases
  BY DEF Init, Leases
<1>2. leaseMsg \in LeaseMsgs
  BY DEF Init, LeaseMsgs, LeaseMsg
<1>3. owed \in [Ids -> Int]
  BY DEF Init
<1>4. started \in Clock /\ touched \in Clock /\ clock \in Clock /\ sinceLoop \in 0..LoopGap
  BY TimesAssumption DEF Init, Clock
<1>5. QED
  BY <1>1, <1>2, <1>3, <1>4 DEF Init, TypeOK

\* Type correctness: every member stays in the range its C++ type and its uses give it.
THEOREM TypeCorrect == Spec => []TypeOK
  BY TypeInit, TypeStep, PTL DEF Spec
------------------------------------------------------------------------------
(* The Bus and the hub: one frame, one result, one timeout per probe. *)

\* No step of the lease, of a poller or of the clock touches the probe's frame, and
\* each step of the probe moves the frame, the request and the result together.
LEMMA ProbeStep == TypeOK /\ ProbeInv /\ [Next]_vars => ProbeInv'
<1> SUFFICES ASSUME TypeOK, ProbeInv, [Next]_vars PROVE ProbeInv'
  OBVIOUS
<1> USE SourcesAssumption
    DEF ProbeInv, ProbeFrameAccounted, OneResultPerCall, SendWaitOnlyForProbe, inFlight
<1>1. CASE Tick
  BY <1>1 DEF Tick, probeVars, hubVars
<1>2. CASE Loop
  BY <1>2 DEF Loop, probeVars, hubVars
<1>3. ASSUME NEW id \in Ids, ProbeRefused(id) PROVE ProbeInv'
  <2>1. owed' = owed
    BY <1>3 DEF ProbeRefused, Rejected, Asked, Answered, TypeOK
  <2>2. QED
    BY <1>3, <2>1 DEF ProbeRefused, hubVars
<1>4. ASSUME NEW r \in Requests, NEW chosen \in SUBSET Pollers, NEW accepted \in BOOLEAN,
             ProbeStarted(r, chosen, accepted)
      PROVE  ProbeInv'
  <2>1. /\ Scanner \notin waiting /\ wire # Scanner /\ ~sent
        /\ wire' = wire /\ sent' = sent /\ sendWait' = sendWait
    BY <1>4 DEF ProbeStarted, TypeOK
  <2>2. Scanner \in waiting' <=> accepted
    BY <1>4, <2>1 DEF ProbeStarted, QueueAfter, Cleared
  <2>3. request' # NoRequest <=> accepted
    BY <1>4 DEF ProbeStarted, RequestAfter
  <2>4. \A i \in Ids : owed'[i] = IF inFlight' /\ request'.id = i THEN 1 ELSE 0
    <3>1. r.id \in Ids /\ \A i \in Ids : owed[i] = 0
      BY <1>4 DEF ProbeStarted, Requests
    <3>2. CASE accepted
      BY <1>4, <3>1, <3>2 DEF ProbeStarted, RequestAfter, Asked, TypeOK
    <3>3. CASE ~accepted
      BY <1>4, <3>1, <3>3 DEF ProbeStarted, RequestAfter, Rejected, Asked, Answered, TypeOK
    <3>4. QED
      BY <3>2, <3>3
  <2>5. QED
    BY <2>1, <2>2, <2>3, <2>4
<1>5. ASSUME NEW s \in Scans, Release(s) PROVE ProbeInv'
  BY <1>5 DEF Release, probeVars, hubVars
<1>6. ASSUME NEW p \in Pollers, PollerFrame(p) \/ SendPoller(p) \/ PollerDone(p)
      PROVE  ProbeInv'
  <2>1. /\ request' = request /\ sent' = sent /\ owed' = owed /\ sendWait' = sendWait
        /\ Scanner \in waiting' <=> Scanner \in waiting
        /\ wire' = Scanner <=> wire = Scanner
    BY <1>6 DEF PollerFrame, SendPoller, PollerDone, probeVars
  <2>2. QED
    BY <2>1
<1>7. CASE SendProbe
  <2>1. wire # Scanner /\ inFlight /\ ~sent
    BY <1>7 DEF SendProbe, TypeOK
  <2>2. /\ wire' = Scanner /\ Scanner \notin waiting' /\ request' = request
        /\ sent' = TRUE /\ sendWait' = request.timeout /\ owed' = owed
    BY <1>7, <2>1 DEF SendProbe, OnSent
  <2>3. QED
    BY <2>1, <2>2
<1>8. CASE ProbeDone \/ ProbeNotSent
  <2>1. inFlight
    BY <1>8 DEF ProbeDone, ProbeNotSent
  <2>2. Finish /\ wire' # Scanner /\ Scanner \notin waiting'
    BY <1>8 DEF ProbeDone, ProbeNotSent
  <2>3. request' = NoRequest /\ sent' = FALSE
    BY <2>1, <2>2 DEF Finish
  <2>4. sendWait' = NormalWait
    BY <2>1, <2>2 DEF Finish, RestoredWait, TypeOK
  <2>5. \A i \in Ids : owed'[i] = 0
    <3>1. request.id \in Ids /\ owed' = Answered(owed, request.id)
      BY <2>1, <2>2 DEF Finish, TypeOK, Requests
    <3>2. QED
      BY <2>1, <3>1 DEF Answered, TypeOK
  <2>6. QED
    BY <2>2, <2>3, <2>4, <2>5
<1>9. CASE UNCHANGED vars
  BY <1>9 DEF vars, probeVars, hubVars
<1>10. QED
  BY <1>1, <1>2, <1>3, <1>4, <1>5, <1>6, <1>7, <1>8, <1>9 DEF Next
------------------------------------------------------------------------------
(* The lease and the pollers. *)

\* A step that ends or keeps the lease and queues no paused poller's frame keeps the
\* lease and the pollers in agreement.
LEMMA PauseKept ==
  ASSUME TypeOK, PauseInv,
         \/ UNCHANGED <<lease, paused>>
         \/ \E reason \in EndReasons : EndLease(reason),
         \A p \in Pollers : p \in waiting' => p \in waiting \/ p \notin paused
  PROVE  PauseInv'
<1> USE DEF PauseInv, PausedIffLeased, NoPausedFrameWaiting
<1>1. CASE UNCHANGED <<lease, paused>>
  BY <1>1 DEF TypeOK, Leases
<1>2. CASE \E reason \in EndReasons : EndLease(reason)
  <2>1. PICK reason \in EndReasons : EndLease(reason)
    BY <1>2
  <2>2. lease'.active = FALSE
    BY <2>1 DEF EndLease, TypeOK, Leases
  <2>3. paused' = {}
    BY <2>1 DEF EndLease, Resumed
  <2>4. QED
    BY <2>2, <2>3
<1>3. QED
  BY <1>1, <1>2

\* Only ProbeStarted begins a lease; whatever began or ended it, the paused pollers are
\* those of the active lease, and none of their frames is left in the hub.
LEMMA PauseStep == TypeOK /\ PauseInv /\ [Next]_vars => PauseInv'
<1> SUFFICES ASSUME TypeOK, PauseInv, [Next]_vars PROVE PauseInv'
  OBVIOUS
<1>1. CASE Tick \/ UNCHANGED vars \/ \E id \in Ids : ProbeRefused(id)
  BY <1>1, PauseKept DEF Tick, ProbeRefused, hubVars, leaseVars, vars
<1>2. CASE Loop
  BY <1>2, PauseKept DEF Loop, hubVars, leaseVars, EndReasons
<1>3. ASSUME NEW r \in Requests, NEW chosen \in SUBSET Pollers, NEW accepted \in BOOLEAN,
             ProbeStarted(r, chosen, accepted)
      PROVE  PauseInv'
  <2>1. r.scan \in Scans
    BY DEF Requests
  <2>2. CASE Begins(r.scan, chosen) /\ Begin(r.scan, chosen)
    <3>1. lease' = [scan |-> r.scan, pollers |-> chosen, active |-> TRUE, reason |-> "unset"]
      BY <2>2 DEF Begin
    <3>2. paused' = chosen
      BY <2>2 DEF Begin, Begins, Supersedes, Resumed, PauseInv, PausedIffLeased
    <3>3. \A p \in chosen : Address[p] # 0 => p \notin waiting'
      BY <1>3, <2>2, SourcesAssumption
      DEF ProbeStarted, QueueAfter, Cleared, FrameAddress
    <3>4. QED
      BY <2>1, <2>2, <3>1, <3>2, <3>3
      DEF Begins, PauseInv, PausedIffLeased, NoPausedFrameWaiting
  <2>3. CASE ~(Begins(r.scan, chosen) /\ Begin(r.scan, chosen))
    <3>1. \/ UNCHANGED <<lease, paused>>
          \/ EndLease("superseded")
      BY <1>3, <2>3 DEF ProbeStarted, LeaseFor, Renew, leaseVars
    <3>2. \A p \in Pollers : p \in waiting' => p \in waiting
      BY <1>3, SourcesAssumption DEF ProbeStarted, QueueAfter, Cleared
    <3>3. QED
      BY <3>1, <3>2, PauseKept DEF EndReasons
  <2>4. QED
    BY <2>2, <2>3
<1>4. ASSUME NEW s \in Scans, Release(s) PROVE PauseInv'
  BY <1>4, PauseKept DEF Release, hubVars, EndReasons
<1>5. ASSUME NEW p \in Pollers, PollerFrame(p) \/ SendPoller(p) \/ PollerDone(p)
      PROVE  PauseInv'
  <2>1. UNCHANGED <<lease, paused>>
    BY <1>5 DEF PollerFrame, SendPoller, PollerDone, leaseVars
  <2>2. \A q \in Pollers : q \in waiting' => q \in waiting \/ q \notin paused
    BY <1>5 DEF PollerFrame, SendPoller, PollerDone
  <2>3. QED
    BY <2>1, <2>2, PauseKept
<1>6. CASE SendProbe \/ ProbeDone \/ ProbeNotSent
  <2>1. UNCHANGED <<lease, paused>>
    BY <1>6 DEF SendProbe, ProbeDone, ProbeNotSent, Finish, leaseVars
  <2>2. \A p \in Pollers : p \in waiting' => p \in waiting
    BY <1>6 DEF SendProbe, ProbeDone, ProbeNotSent
  <2>3. QED
    BY <2>1, <2>2, PauseKept
<1>7. QED
  BY <1>1, <1>2, <1>3, <1>4, <1>5, <1>6 DEF Next
------------------------------------------------------------------------------
(* The ages of the lease. *)

\* While no more than one turn of the clock passed since a reading, a tick adds one to
\* what the wrapping subtraction measures.
LEMMA ElapsedTick ==
  ASSUME TypeOK, Tick, NEW since \in Clock, Elapsed(since) + 1 < ClockMod
  PROVE  Elapsed(since)' = Elapsed(since) + 1
  BY TimesAssumption DEF TypeOK, Tick, Elapsed, Clock

\* Nothing has passed since a reading made now.
LEMMA ElapsedNow == ASSUME TypeOK PROVE Elapsed(clock) = 0
  BY DEF TypeOK, Elapsed, Clock

\* A step of the lease that does not take time: the lease is ended, renewed, begun now,
\* or left with its times.
LEMMA TimeKept ==
  ASSUME TypeOK, TimeInv, clock' = clock, sinceLoop' = sinceLoop,
         \/ lease'.active = FALSE
         \/ /\ started' = clock /\ touched' = clock /\ leaseAge' = 0 /\ idleAge' = 0
         \/ /\ lease'.active = lease.active
            /\ UNCHANGED <<started, leaseAge>>
            /\ \/ touched' = clock /\ idleAge' = 0
               \/ UNCHANGED <<touched, idleAge>> /\ (~inFlight' => ~inFlight)
  PROVE  TimeInv'
<1> SUFFICES ASSUME lease'.active PROVE TimeInv'
  BY DEF TimeInv
<1>1. Elapsed(clock) = 0
  BY ElapsedNow
<1>2. CASE started' = clock /\ touched' = clock /\ leaseAge' = 0 /\ idleAge' = 0
  <2>1. Elapsed(started)' = 0 /\ Elapsed(touched)' = 0
    BY <1>1, <1>2 DEF Elapsed
  <2>2. QED
    BY <1>2, <2>1, TimesAssumption DEF TimeInv, TypeOK
<1>3. CASE /\ lease'.active = lease.active
           /\ UNCHANGED <<started, leaseAge>>
           /\ \/ touched' = clock /\ idleAge' = 0
              \/ UNCHANGED <<touched, idleAge>> /\ (~inFlight' => ~inFlight)
  <2>1. Elapsed(started)' = leaseAge'
    BY <1>3 DEF Elapsed, TimeInv
  <2>2. leaseAge' <= HardLimitMs - 1 + sinceLoop'
    BY <1>3 DEF TimeInv
  <2>3. CASE touched' = clock /\ idleAge' = 0
    <3>1. Elapsed(touched)' = 0
      BY <1>1, <2>3 DEF Elapsed
    <3>2. QED
      BY <1>3, <2>1, <2>2, <2>3, <3>1, TimesAssumption DEF TimeInv, TypeOK
  <2>4. CASE UNCHANGED <<touched, idleAge>> /\ (~inFlight' => ~inFlight)
    <3>1. Elapsed(touched)' = idleAge'
      BY <1>3, <2>4 DEF Elapsed, TimeInv
    <3>2. QED
      BY <1>3, <2>1, <2>2, <2>4, <3>1 DEF TimeInv, TypeOK
  <2>5. QED
    BY <1>3, <2>3, <2>4
<1>4. QED
  BY <1>2, <1>3

\* Every step keeps the ages equal to what the clock measures, and a loop that leaves
\* the lease active has found it younger than both limits.
LEMMA TimeStep == TypeOK /\ TimeInv /\ [Next]_vars => TimeInv'
<1> SUFFICES ASSUME TypeOK, TimeInv, [Next]_vars PROVE TimeInv'
  OBVIOUS
<1>1. CASE Tick
  <2> SUFFICES ASSUME lease.active PROVE TimeInv'
    BY <1>1 DEF Tick, TimeInv
  <2>1. leaseAge + 1 < ClockMod /\ idleAge + 1 < ClockMod
    BY <1>1, TimesAssumption DEF Tick, TimeInv, TypeOK
  <2>2. Elapsed(started)' = Elapsed(started) + 1 /\ Elapsed(touched)' = Elapsed(touched) + 1
    BY <1>1, <2>1, ElapsedTick DEF TimeInv, TypeOK, Tick, Elapsed
  <2>3. leaseAge' = leaseAge + 1 /\ idleAge' = idleAge + 1 /\ sinceLoop' = sinceLoop + 1
    BY <1>1, TimesAssumption DEF Tick, Older, AgeBound, TimeInv, TypeOK
  <2>4. inFlight' = inFlight
    BY <1>1 DEF Tick, probeVars, inFlight
  <2>5. QED
    BY <2>2, <2>3, <2>4, TimesAssumption DEF TimeInv, TypeOK
<1>2. CASE Loop
  <2>1. CASE EndLease("hard_limit") \/ EndLease("idle")
    BY <2>1 DEF EndLease, TimeInv, TypeOK, Leases
  <2>2. CASE lease.active /\ ~HardLimitReached /\ ~IdleExpired /\ UNCHANGED leaseVars
    <3>1. leaseAge <= HardLimitMs - 1 /\ (~inFlight => idleAge <= IdleMs - 1)
      BY <2>2, TimesAssumption DEF HardLimitReached, IdleExpired, TimeInv, TypeOK
    <3>2. Elapsed(started)' = Elapsed(started) /\ Elapsed(touched)' = Elapsed(touched)
      BY <1>2, <2>2 DEF Loop, leaseVars, Elapsed
    <3>3. QED
      BY <1>2, <2>2, <3>1, <3>2, TimesAssumption
      DEF Loop, leaseVars, probeVars, inFlight, TimeInv, TypeOK
  <2>3. CASE ~lease.active /\ UNCHANGED leaseVars
    BY <2>3 DEF leaseVars, TimeInv
  <2>4. QED
    BY <1>2, <2>1, <2>2, <2>3 DEF Loop
<1>3. CASE \E id \in Ids : ProbeRefused(id)
  BY <1>3, TimeKept DEF ProbeRefused, leaseVars, timeVars, inFlight
<1>4. ASSUME NEW r \in Requests, NEW chosen \in SUBSET Pollers, NEW accepted \in BOOLEAN,
             ProbeStarted(r, chosen, accepted)
      PROVE  TimeInv'
  <2>1. clock' = clock /\ sinceLoop' = sinceLoop /\ ~inFlight
    BY <1>4 DEF ProbeStarted, timeVars
  <2>2. CASE Renew
    BY <2>1, <2>2, TimeKept DEF Renew
  <2>3. CASE Begin(r.scan, chosen)
    BY <2>1, <2>3, TimeKept DEF Begin
  <2>4. CASE EndLease("superseded")
    BY <2>1, <2>4, TimeKept DEF EndLease, TypeOK, Leases
  <2>5. CASE UNCHANGED leaseVars
    BY <2>1, <2>5, TimeKept DEF leaseVars
  <2>6. QED
    BY <1>4, <2>2, <2>3, <2>4, <2>5 DEF ProbeStarted, LeaseFor
<1>5. ASSUME NEW s \in Scans, Release(s) PROVE TimeInv'
  <2>1. CASE EndLease("released")
    BY <1>5, <2>1, TimeKept DEF Release, EndLease, TypeOK, Leases, timeVars
  <2>2. CASE UNCHANGED <<lease, started, touched, paused, leaseAge, idleAge>>
    BY <1>5, <2>2, TimeKept DEF Release, timeVars, probeVars, inFlight
  <2>3. QED
    BY <1>5, <2>1, <2>2 DEF Release
<1>6. ASSUME NEW p \in Pollers, PollerFrame(p) \/ SendPoller(p) \/ PollerDone(p)
      PROVE  TimeInv'
  BY <1>6, TimeKept
  DEF PollerFrame, SendPoller, PollerDone, leaseVars, probeVars, timeVars, inFlight
<1>7. CASE SendProbe
  BY <1>7, TimeKept DEF SendProbe, leaseVars, timeVars, inFlight
<1>8. CASE ProbeDone \/ ProbeNotSent
  <2>1. Finish
    BY <1>8 DEF ProbeDone, ProbeNotSent
  <2>2. clock' = clock /\ sinceLoop' = sinceLoop /\ lease' = lease
        /\ UNCHANGED <<started, leaseAge>>
    BY <2>1 DEF Finish, timeVars
  <2>3. CASE inFlight /\ lease.active
    BY <2>1, <2>2, <2>3, TimeKept DEF Finish
  <2>4. CASE ~inFlight
    BY <2>1, <2>2, <2>4, TimeKept DEF Finish
  <2>5. CASE ~lease.active
    BY <2>2, <2>5 DEF TimeInv
  <2>6. QED
    BY <2>3, <2>4, <2>5
<1>9. CASE UNCHANGED vars
  BY <1>9, TimeKept DEF vars, leaseVars, probeVars, timeVars, inFlight
<1>10. QED
  BY <1>1, <1>2, <1>3, <1>4, <1>5, <1>6, <1>7, <1>8, <1>9 DEF Next
------------------------------------------------------------------------------
(* The Lease sensor. *)

\* Every message is published by the step that makes it true, or answers a release, and
\* no step makes an older message false without publishing a new one.
LEMMA MsgStep == TypeOK /\ LeaseMsgTrue /\ [Next]_vars => LeaseMsgTrue'
<1> SUFFICES ASSUME TypeOK, LeaseMsgTrue, [Next]_vars PROVE LeaseMsgTrue'
  OBVIOUS
<1>1. CASE UNCHANGED <<lease, leaseMsg>>
  BY <1>1 DEF LeaseMsgTrue
<1>2. CASE \E reason \in EndReasons : EndLease(reason)
  BY <1>2 DEF EndLease, LeaseMsg, LeaseMsgTrue, TypeOK, Leases
<1>3. ASSUME NEW r \in Requests, NEW chosen \in SUBSET Pollers, Begin(r.scan, chosen)
      PROVE  LeaseMsgTrue'
  BY <1>3 DEF Begin, LeaseMsg, LeaseMsgTrue
<1>4. ASSUME NEW s \in Scans, Release(s) PROVE LeaseMsgTrue'
  <2>1. CASE EndLease("released")
    BY <2>1, <1>2 DEF EndReasons
  <2>2. CASE /\ ~lease.active /\ lease' = lease
             /\ leaseMsg' = LeaseMsg(s, "ended", lease.reason)
    BY <2>2 DEF LeaseMsg, LeaseMsgTrue
  <2>3. CASE lease' = lease /\ leaseMsg' = LeaseMsg(s, "none", "unset")
    BY <2>3 DEF LeaseMsg, LeaseMsgTrue
  <2>4. QED
    BY <1>4, <2>1, <2>2, <2>3 DEF Release
<1>5. ASSUME NEW r \in Requests, NEW chosen \in SUBSET Pollers, NEW accepted \in BOOLEAN,
             ProbeStarted(r, chosen, accepted)
      PROVE  LeaseMsgTrue'
  BY <1>5, <1>1, <1>2, <1>3 DEF ProbeStarted, LeaseFor, Renew, leaseVars, EndReasons
<1>6. CASE Loop
  BY <1>6, <1>1, <1>2 DEF Loop, leaseVars, EndReasons
<1>7. CASE Tick \/ SendProbe \/ ProbeDone \/ ProbeNotSent \/ UNCHANGED vars
  BY <1>7, <1>1
  DEF Tick, SendProbe, ProbeDone, ProbeNotSent, Finish, vars, leaseVars
<1>8. ASSUME NEW p \in Pollers, PollerFrame(p) \/ SendPoller(p) \/ PollerDone(p)
      PROVE  LeaseMsgTrue'
  BY <1>8, <1>1 DEF PollerFrame, SendPoller, PollerDone, leaseVars
<1>9. CASE \E id \in Ids : ProbeRefused(id)
  BY <1>9, <1>1 DEF ProbeRefused, leaseVars
<1>10. QED
  BY <1>4, <1>5, <1>6, <1>7, <1>8, <1>9 DEF Next
------------------------------------------------------------------------------
(* The theorems. *)

\* The whole invariant holds of every reachable state.
LEMMA Invariant == Spec => []Inv
<1>1. Init => Inv
  <2> SUFFICES ASSUME Init PROVE Inv
    OBVIOUS
  <2>1. TypeOK
    BY TypeInit
  <2>2. ProbeInv
    BY SourcesAssumption
    DEF Init, ProbeInv, ProbeFrameAccounted, OneResultPerCall, SendWaitOnlyForProbe, inFlight
  <2>3. PauseInv /\ TimeInv
    BY DEF Init, PauseInv, PausedIffLeased, NoPausedFrameWaiting, TimeInv
  <2>4. LeaseMsgTrue
    BY DEF Init, LeaseMsgTrue, LeaseMsg
  <2>5. QED
    BY <2>1, <2>2, <2>3, <2>4 DEF Inv
<1>2. Inv /\ [Next]_vars => Inv'
  BY TypeStep, ProbeStep, PauseStep, TimeStep, MsgStep DEF Inv
<1>3. QED
  BY <1>1, <1>2, PTL DEF Spec

\* Normal Polling is paused for exactly the pollers of the active lease.
THEOREM PollingPaused == Spec => []PausedIffLeased
  BY Invariant, PTL DEF Inv, PauseInv

\* No unsent frame of a paused poller is left in the hub.
THEOREM PausedFramesCleared == Spec => []NoPausedFrameWaiting
  BY Invariant, PTL DEF Inv, PauseInv

\* The hub holds exactly one frame for the probe in flight, and none otherwise, and
\* waits the probe's timeout for that frame alone.
THEOREM FrameAccounted == Spec => []ProbeFrameAccounted
  BY Invariant, PTL DEF Inv, ProbeInv

\* Every probe call has exactly one result, the one in flight excepted.
THEOREM ResultsMatchCalls == Spec => []OneResultPerCall
  BY Invariant, PTL DEF Inv, ProbeInv

\* No lease outlives its limits by more than one gap of the loop, across clock wraps.
THEOREM LeasesBounded == Spec => []LeaseBounded
<1>1. Inv => LeaseBounded
  BY TimesAssumption DEF Inv, TimeInv, LeaseBounded, TypeOK
<1>2. QED
  BY <1>1, Invariant, PTL

\* The Lease sensor never claims a pause that is over, nor an end that is not.
THEOREM SensorTruthful == Spec => []LeaseMsgTrue
  BY Invariant, PTL DEF Inv

\* A lease with a probe in flight ends only by its own release or at the hard limit.
THEOREM InFlightProtected == Spec => InFlightLeaseKept
<1>1. Inv /\ [Next]_vars
        => (inFlight /\ lease.active /\ ~(lease'.active /\ lease'.scan = lease.scan)
              => lease'.reason \in {"released", "hard_limit"})
  <2> SUFFICES ASSUME Inv, [Next]_vars, inFlight, lease.active, lease' # lease
               PROVE  lease'.reason \in {"released", "hard_limit"}
    OBVIOUS
  <2>1. ASSUME NEW reason, EndLease(reason) PROVE lease'.reason = reason
    BY <2>1 DEF EndLease, Inv, TypeOK, Leases
  <2>2. CASE Loop
    BY <2>1, <2>2 DEF Loop, IdleExpired, leaseVars
  <2>3. ASSUME NEW s \in Scans, Release(s)
        PROVE  lease'.reason \in {"released", "hard_limit"}
    BY <2>1, <2>3 DEF Release
  <2>4. QED
    BY <2>2, <2>3
    DEF Next, Tick, ProbeRefused, ProbeStarted, PollerFrame, SendPoller, PollerDone,
        SendProbe, ProbeDone, ProbeNotSent, Finish, vars, leaseVars
<1>2. QED
  BY <1>1, Invariant, PTL DEF Spec, InFlightLeaseKept

\* Every step of the Bus is a step of the contract, or one the contract does not see.
LEMMA ContractStep == Inv /\ [Next]_vars => [Contract!ContractNext]_(Contract!contractVars)
<1> DEFINE holder == IF lease.active THEN lease.scan ELSE NoScan
<1> SUFFICES ASSUME Inv, [Next]_vars, ~UNCHANGED <<holder, paused>>
             PROVE  Contract!ContractNext
  BY DEF Contract!contractVars
<1> USE DEF Contract!ContractNext, Contract!Take, Contract!Resume
<1>1. ASSUME lease.active, NEW reason, EndLease(reason) PROVE Contract!ContractNext
  <2>1. lease.scan # NoScan
    BY <1>1, SourcesAssumption DEF Inv, PauseInv
  <2>2. lease'.active = FALSE /\ paused' = {}
    BY <1>1 DEF EndLease, Resumed, Inv, TypeOK, Leases, PauseInv, PausedIffLeased
  <2>3. QED
    BY <1>1, <2>1, <2>2
<1>2. ASSUME NEW r \in Requests, NEW chosen \in SUBSET Pollers, NEW accepted \in BOOLEAN,
             ProbeStarted(r, chosen, accepted)
      PROVE  Contract!ContractNext
  <2>1. r.scan \in Scans /\ r.scan # NoScan
    BY SourcesAssumption DEF Requests
  <2>2. CASE Begins(r.scan, chosen) /\ Begin(r.scan, chosen)
    <3>1. lease'.active /\ lease'.scan = r.scan
      BY <2>2 DEF Begin
    <3>2. paused' = chosen
      BY <2>2 DEF Begin, Begins, Supersedes, Resumed, Inv, PauseInv, PausedIffLeased
    <3>3. holder # r.scan /\ chosen # {}
      BY <2>1, <2>2 DEF Begins
    <3>4. QED
      BY <2>1, <3>1, <3>2, <3>3
  <2>3. CASE Supersedes(r.scan) /\ EndLease("superseded")
    BY <2>3, <1>1 DEF Supersedes
  <2>4. QED
    BY <1>2, <2>2, <2>3 DEF ProbeStarted, LeaseFor, Renew, leaseVars
<1>3. ASSUME NEW s \in Scans, Release(s) PROVE Contract!ContractNext
  BY <1>1, <1>3 DEF Release
<1>4. CASE Loop
  BY <1>1, <1>4 DEF Loop, leaseVars
<1>5. QED
  BY <1>2, <1>3, <1>4
  DEF Next, Tick, ProbeRefused, PollerFrame, SendPoller, PollerDone,
      SendProbe, ProbeDone, ProbeNotSent, Finish, vars, leaseVars

\* The Bus implements the lease contract: at any time Normal Polling is paused for at
\* most one Scan, for exactly the pollers it chose, and every ending resumes them all.
THEOREM BusImplementsContract == Spec => ImplementsContract
<1>1. Init => Contract!ContractInit
  BY DEF Init, Contract!ContractInit
<1>2. QED
  BY <1>1, ContractStep, Invariant, PTL DEF Spec, ImplementsContract, Contract!ContractSpec
------------------------------------------------------------------------------
(* The Bus as BridgeSession has it: without clock, hub and pollers.            *)

\* The lease of this one Bus, without its pollers.
Shown == [b \in {Scanner} |-> [scan |-> lease.scan, active |-> lease.active, reason |-> lease.reason]]

\* BridgeSession's Gateway with this Bus only, for a Scan that pauses the pollers chosen.
\* Only what it does to the lease and its message is used; the other parameters have values
\* that its assumptions allow, and the other variables any.
Session(chosen) == INSTANCE BridgeSession WITH
  Buses <- {Scanner}, BusOf <- [s \in Scans |-> Scanner], Pauses <- [s \in Scans |-> chosen # {}],
  PerBus <- TRUE, Shared <- NoSource, lease <- Shown,
  Homes <- {NoSource}, Home <- [s \in Scans |-> NoSource], Last <- [s \in Scans |-> 1],
  Retries <- [s \in Scans |-> 0], MaxFaults <- 0, MaxTransit <- 1,
  NoProbe <- [scan |-> NoScan, address |-> 1, attempt |-> 1],
  sess <- <<>>, cancelled <- {}, checking <- {}, link <- <<>>, inbox <- <<>>, dirty <- <<>>,
  sensor <- <<>>, flight <- <<>>, faults <- 0, reported <- <<>>, leaseEnd <- <<>>

\* What BridgeSession's ProbeArrives, ProbeEnds, ReleaseArrives and LeaseExpires do to a Bus
\* and to its Lease sensor.
ProbeArrives(s, chosen, accepted) ==
  /\ ~inFlight /\ inFlight' = accepted
  /\ Shown' = [Shown EXCEPT ![Scanner] = Session(chosen)!LeaseFor(Scanner, s)]
  /\ leaseMsg' = IF Session(chosen)!LeaseForPublishes(Scanner, s)
                 THEN Session(chosen)!LeaseForMsg(Scanner, s) ELSE leaseMsg

ProbeEnds == inFlight /\ ~inFlight' /\ UNCHANGED <<Shown, leaseMsg>>

ReleaseArrives(s) ==
  /\ Shown' = IF Shown[Scanner].active /\ Shown[Scanner].scan = s
              THEN [Shown EXCEPT ![Scanner] = Session({})!Ended(Scanner, "released")] ELSE Shown
  /\ leaseMsg' = Session({})!ReleaseMsg(Scanner, s)
  /\ UNCHANGED inFlight

LeaseExpires(reason) ==
  /\ Shown[Scanner].active
  /\ reason = "hard_limit" \/ (reason = "idle" /\ ~inFlight)
  /\ Shown' = [Shown EXCEPT ![Scanner] = Session({})!Ended(Scanner, reason)]
  /\ leaseMsg' = Session({})!LeaseMsg(Shown[Scanner].scan, "ended", reason)
  /\ UNCHANGED inFlight

SessionNext ==
  \/ \E s \in Scans, chosen \in SUBSET Pollers, accepted \in BOOLEAN : ProbeArrives(s, chosen, accepted)
  \/ ProbeEnds
  \/ \E s \in Scans : ReleaseArrives(s)
  \/ \E reason \in {"idle", "hard_limit"} : LeaseExpires(reason)

\* The end of a lease, as the session has it.
LEMMA EndIsEnd ==
  ASSUME TypeOK, NEW reason, EndLease(reason)
  PROVE  /\ Shown' = [Shown EXCEPT ![Scanner] = Session({})!Ended(Scanner, reason)]
         /\ leaseMsg' = Session({})!LeaseMsg(Shown[Scanner].scan, "ended", reason)
<1>1. lease' = [scan |-> lease.scan, pollers |-> lease.pollers, active |-> FALSE, reason |-> reason]
  BY DEF EndLease, TypeOK, Leases
<1>2. QED
  BY <1>1 DEF EndLease, LeaseMsg, Shown, Session!Ended, Session!LeaseMsg

\* A probe of a Scan, with the lease as lease_for_ leaves it.
LEMMA StartIsArrival ==
  ASSUME TypeOK, NEW r \in Requests, NEW chosen \in SUBSET Pollers, NEW accepted \in BOOLEAN,
         ProbeStarted(r, chosen, accepted)
  PROVE  ProbeArrives(r.scan, chosen, accepted)
<1> DEFINE s == r.scan
<1>1. s \in Scans
  BY DEF Requests
<1>2. ~inFlight /\ LeaseFor(s, chosen) /\ inFlight' = accepted
  BY SourcesAssumption DEF ProbeStarted, RequestAfter, inFlight
<1> DEFINE after == Session(chosen)!LeaseFor(Scanner, s)
           message == IF Session(chosen)!LeaseForPublishes(Scanner, s)
                      THEN Session(chosen)!LeaseForMsg(Scanner, s) ELSE leaseMsg
<1>3. /\ Session(chosen)!Begins(Scanner, s) <=> Begins(s, chosen)
      /\ Session(chosen)!Supersedes(Scanner, s) <=> Supersedes(s)
  BY <1>1 DEF Session!Begins, Session!Supersedes, Begins, Supersedes, Shown
<1>4. Shown' = [Shown EXCEPT ![Scanner] = after] /\ leaseMsg' = message
  <2>1. CASE Begins(s, chosen) /\ Begin(s, chosen)
    <3>1. lease' = [scan |-> s, pollers |-> chosen, active |-> TRUE, reason |-> "unset"]
          /\ leaseMsg' = LeaseMsg(s, "active", "unset")
      BY <2>1 DEF Begin
    <3>2. after = [scan |-> s, active |-> TRUE, reason |-> "unset"]
      BY <1>3, <2>1 DEF Session!LeaseFor
    <3>3. message = LeaseMsg(s, "active", "unset")
      BY <1>3, <2>1 DEF Session!LeaseForPublishes, Session!LeaseForMsg, Session!LeaseMsg, LeaseMsg
    <3>4. QED
      BY <3>1, <3>2, <3>3 DEF Shown
  <2>2. CASE Supersedes(s) /\ ~Begins(s, chosen) /\ EndLease("superseded")
    <3>1. after = Session({})!Ended(Scanner, "superseded")
      BY <1>3, <2>2 DEF Session!LeaseFor, Session!Ended
    <3>2. message = Session({})!LeaseMsg(Shown[Scanner].scan, "ended", "superseded")
      BY <1>3, <2>2 DEF Session!LeaseForPublishes, Session!LeaseForMsg, Session!LeaseMsg
    <3>3. QED
      BY <2>2, <3>1, <3>2, EndIsEnd
  <2>3. CASE ~Supersedes(s) /\ ~Begins(s, chosen) /\ UNCHANGED <<lease, leaseMsg>>
    <3>1. after = Shown[Scanner] /\ message = leaseMsg
      BY <1>3, <2>3 DEF Session!LeaseFor, Session!LeaseForPublishes
    <3>2. QED
      BY <2>3, <3>1 DEF Shown
  <2>4. QED
    BY <1>2, <2>1, <2>2, <2>3 DEF LeaseFor, Renews, Renew, Begins, Supersedes, leaseVars
<1>5. QED
  BY <1>2, <1>4 DEF ProbeArrives

\* The answer of Bus::release.
LEMMA ReleaseIsRelease ==
  ASSUME TypeOK, NEW s \in Scans, Release(s)
  PROVE  ReleaseArrives(s)
<1>1. Shown[Scanner].active = lease.active /\ Shown[Scanner].scan = lease.scan
      /\ Shown[Scanner].reason = lease.reason
  BY DEF Shown
<1>2. UNCHANGED inFlight
  BY DEF Release, probeVars, inFlight
<1>3. CASE lease.active /\ s = lease.scan /\ EndLease("released")
  <2>1. Session({})!ReleaseMsg(Scanner, s) = Session({})!LeaseMsg(Shown[Scanner].scan, "ended", "released")
    BY <1>1, <1>3 DEF Session!ReleaseMsg
  <2>2. QED
    BY <1>1, <1>2, <1>3, <2>1, EndIsEnd DEF ReleaseArrives
<1>4. CASE ~(lease.active /\ s = lease.scan) /\ UNCHANGED lease
           /\ leaseMsg' = IF s = lease.scan THEN LeaseMsg(s, "ended", lease.reason)
                          ELSE LeaseMsg(s, "none", "unset")
  <2>1. Shown' = Shown
    BY <1>4 DEF Shown
  <2>2. leaseMsg' = Session({})!ReleaseMsg(Scanner, s)
    BY <1>1, <1>4 DEF Session!ReleaseMsg, Session!LeaseMsg, LeaseMsg
  <2>3. QED
    BY <1>1, <1>2, <1>4, <2>1, <2>2 DEF ReleaseArrives
<1>5. QED
  BY <1>3, <1>4 DEF Release

\* Every step of the Bus is one that BridgeSession's Gateway has, or one it does not see.
LEMMA SessionStep == TypeOK /\ [Next]_vars => [SessionNext]_<<Shown, inFlight, leaseMsg>>
<1> SUFFICES ASSUME TypeOK, [Next]_vars, ~UNCHANGED <<Shown, inFlight, leaseMsg>> PROVE SessionNext
  OBVIOUS
<1>1. ASSUME NEW r \in Requests, NEW chosen \in SUBSET Pollers, NEW accepted \in BOOLEAN,
             ProbeStarted(r, chosen, accepted)
      PROVE  SessionNext
  <2>1. r.scan \in Scans
    BY DEF Requests
  <2>2. QED
    BY <1>1, <2>1, StartIsArrival DEF SessionNext
<1>2. ASSUME NEW s \in Scans, Release(s) PROVE SessionNext
  BY <1>2, ReleaseIsRelease DEF SessionNext
<1>3. CASE Loop
  <2>1. PICK reason \in {"idle", "hard_limit"} :
          lease.active /\ EndLease(reason) /\ (reason = "idle" => ~inFlight)
    BY <1>3 DEF Loop, IdleExpired, leaseVars, Shown, probeVars, inFlight
  <2>2. Shown[Scanner].active /\ UNCHANGED inFlight
    BY <1>3, <2>1 DEF Shown, Loop, probeVars, inFlight
  <2>3. LeaseExpires(reason)
    BY <2>1, <2>2, EndIsEnd DEF LeaseExpires
  <2>4. QED
    BY <2>3 DEF SessionNext
<1>4. CASE ProbeDone \/ ProbeNotSent
  <2>1. Finish
    BY <1>4 DEF ProbeDone, ProbeNotSent
  <2>2. UNCHANGED <<lease, leaseMsg>> /\ (IF inFlight THEN request' = NoRequest ELSE UNCHANGED request)
    BY <2>1 DEF Finish
  <2>3. UNCHANGED <<Shown, leaseMsg>>
    BY <2>2 DEF Shown
  <2>4. CASE inFlight
    BY <2>2, <2>3, <2>4 DEF SessionNext, ProbeEnds, inFlight
  <2>5. CASE UNCHANGED request
    BY <2>3, <2>5 DEF inFlight
  <2>6. QED
    BY <2>2, <2>4, <2>5
<1>5. ASSUME UNCHANGED <<lease, leaseMsg, request>> PROVE FALSE
  BY <1>5 DEF Shown, inFlight
<1>6. QED
  BY <1>1, <1>2, <1>3, <1>4, <1>5
  DEF Next, Tick, ProbeRefused, PollerFrame, SendPoller, PollerDone, SendProbe, vars, leaseVars, probeVars

\* The Gateway that BridgeSession assumes is the one the firmware has: whatever a Bus does to
\* its lease and says of it is what BridgeSession's Gateway may do, in the same state.
THEOREM BusIsTheSessions ==
  Spec => /\ Shown[Scanner] = [scan |-> NoScan, active |-> FALSE, reason |-> "unset"] /\ ~inFlight
          /\ [][SessionNext]_<<Shown, inFlight, leaseMsg>>
<1>1. Init => Shown[Scanner] = [scan |-> NoScan, active |-> FALSE, reason |-> "unset"] /\ ~inFlight
  BY DEF Init, Shown, inFlight
<1>2. QED
  BY <1>1, SessionStep, TypeCorrect, PTL DEF Spec
==============================================================================
