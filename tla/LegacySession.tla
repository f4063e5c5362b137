---------------------------- MODULE LegacySession ----------------------------
(* A Scan over the legacy bridge v1: HA's session with the Gateway (provider.py), *)
(* the check that Normal Polling came back (health.py), and what of the guanjie   *)
(* firmware that check reads.  Guanjie has the firmware's transactions; here one  *)
(* is a single step, and only the core registers are polled.                      *)
(*                                                                                *)
(* A call is under way until the firmware takes it; what the firmware publishes    *)
(* arrives with the step that publishes it (it could only arrive later, unchanged, *)
(* or never), and is dropped unless it carries the request id waited for.  A wait  *)
(* may expire at any time; only the limit of the verification is counted, since it *)
(* keeps the firmware's clock from wrapping under it.  Normal Polling is followed  *)
(* while a verification looks at it: where that begins, what was read how long ago *)
(* is left open, and the counters stand before their wrap.  A restart drops the    *)
(* connection, so no session sees the boot number change.                          *)
EXTENDS Naturals, FiniteSets, FiniteSetsExt
CONSTANTS
  Last,         \* addresses 1..Last are scanned
  Retries,
  NumCore,      \* core registers are 0..NumCore-1
  Fresh,        \* units a value stays fresh (15 s)
  VerifyLimit,  \* units the verification may take (25 s)
  ElapsedLimit, \* its bound on the firmware's clock (30 s)
  ClockMod, SeqMod  \* where the firmware's clock and poll counter wrap (2^32)

ASSUME LegacyAssumption ==
  /\ NumCore \in Nat \ {0} /\ Fresh \in Nat /\ {VerifyLimit, ElapsedLimit, ClockMod} \subseteq Nat
  /\ VerifyLimit < ElapsedLimit /\ 2 * ElapsedLimit <= ClockMod
  /\ SeqMod \in Nat \ {0} /\ Last \in Nat \ {0} /\ Retries \in Nat

Core == 0..(NumCore - 1)
Stale == Fresh + 1
Targets == {1, 2}     \* slaves that Normal Polling may address
Probes == {"none", "own", "other"}  \* the probe under way; own: of the current session
Calls == {"none", "probe", "status", "baseline"}
Outcomes == {"responded", "timeout", "gateway_error"}
NoAt == [slave |-> 1, attempt |-> 0]
NoBase == [seq |-> 0, ms |-> 0, target |-> 1]

VARIABLES
  phase,      \* of the session; "idle" outside run_scan
  at,         \* [slave, attempt] of the loop
  session,    \* there is a HealthSession
  probed,     \* probe_sent
  cancelled,  \* the Scan was asked to stop
  base, left, \* baseline of the verification, and the units it has left
  recovery,   \* recovery_status of the Gateway's health
  check,      \* check_gateway: "idle", "waiting" for the lock or "running"
  conn, call, \* the connection, and the call under way on it
  fw,         \* the firmware
  resumed,    \* (history) core registers read since the baseline was taken
  clean       \* (history) what the accepted snapshot stood for

haVars == <<phase, at, session, probed, cancelled, base, left, recovery>>
netVars == <<conn, call>>
vars == <<haVars, check, netVars, fw, resumed, clean>>
------------------------------------------------------------------------------
(* The firmware. *)

Boot ==
  [probe |-> "none", fault |-> FALSE, poll |-> 0, age |-> [r \in Core |-> Stale],
   addr |-> 1, target |-> 1, seq |-> SeqMod - 1, ms |-> ClockMod - 1]

Verifying == phase \in {"baseline", "sleep", "verify"}
FwReady == ~fw.fault /\ fw.addr = fw.target /\ \A r \in Core : fw.age[r] # Stale

\* What scanner_status reports, with (history) whether Normal Polling has been whole
\* since the baseline: every core register read, from the slave of then, no fault.
Snapshot ==
  [seq |-> fw.seq, ms |-> fw.ms, core |-> FwReady,
   busy |-> fw.probe # "none" \/ fw.fault, addr |-> fw.addr, target |-> fw.target,
   age |-> Max({fw.age[r] : r \in Core}), fault |-> fw.fault]
Whole == resumed = Core /\ fw.probe = "none" /\ ~fw.fault

NextCoreTooFar(r) == r + 1   \* (mutant)
NextCore(r) == (r + 1) % NumCore
MayPoll == Verifying /\ fw.probe = "none" /\ ~fw.fault

\* One core register is read; the last of a round counts it, if all are fresh.
FwPolls ==
  /\ MayPoll
  /\ LET r == IF fw.addr = fw.target THEN fw.poll ELSE 0
         age == [fw.age EXCEPT ![r] = 0]
         counted == r = NumCore - 1 /\ \A c \in Core : age[c] # Stale
     IN /\ fw' = [fw EXCEPT !.addr = fw.target, !.age = age, !.poll = NextCore(r),
                            !.seq = IF counted THEN (fw.seq + 1) % SeqMod ELSE fw.seq]
        /\ resumed' = resumed \cup {r}
  /\ UNCHANGED <<haVars, check, netVars, clean>>

\* A core register that gives no valid answer invalidates them all.
FwPollFails ==
  /\ MayPoll
  /\ fw' = [fw EXCEPT !.addr = fw.target, !.age = [r \in Core |-> Stale], !.poll = 0]
  /\ resumed' = {}
  /\ UNCHANGED <<haVars, check, netVars, clean>>

FwAddressChanges ==
  /\ MayPoll
  /\ \E t \in Targets \ {fw.target} :
       fw' = [fw EXCEPT !.target = t, !.age = [r \in Core |-> Stale]]
  /\ resumed' = {}
  /\ UNCHANGED <<haVars, check, netVars, clean>>

\* The finally block: recovery only after a probe, with a HealthSession.  What is not
\* read again is reset.
Ended == IF probed /\ session THEN "recover" ELSE "disconnect"
Leaves == phase' = Ended /\ at' = NoAt /\ cancelled' = FALSE

\* The result of the probe the session waits for: on to the next attempt, the next
\* address or the end.
Taken(outcome) ==
  \/ /\ outcome = "timeout" /\ at.attempt < Retries
     /\ phase' = "ready" /\ at' = [at EXCEPT !.attempt = @ + 1] /\ UNCHANGED cancelled
  \/ outcome = "gateway_error" /\ Leaves
  \/ /\ outcome = "responded" \/ (outcome = "timeout" /\ at.attempt = Retries)
     /\ IF at.slave < Last
        THEN phase' = "ready" /\ at' = [slave |-> at.slave + 1, attempt |-> 0] /\ UNCHANGED cancelled
        ELSE Leaves

Published(probe, outcome) ==
  IF phase = "probe" /\ conn /\ probe = "own" THEN Taken(outcome) ELSE UNCHANGED <<phase, at, cancelled>>

FwProbeEnds(outcome) ==
  /\ fw.probe # "none" /\ fw' = [fw EXCEPT !.probe = "none"] /\ Published(fw.probe, outcome)
  /\ UNCHANGED <<session, probed, base, left, recovery, check, netVars, resumed, clean>>

\* The watchdog: the fault is latched, polling stops.
FwFaults ==
  /\ fw.probe # "none"
  /\ fw' = [fw EXCEPT !.probe = "none", !.fault = TRUE, !.age = [r \in Core |-> Stale]]
  /\ Published(fw.probe, "gateway_error")
  /\ UNCHANGED <<session, probed, base, left, recovery, check, netVars, resumed, clean>>

\* A probe call arrives and is begun or refused.
FwProbeCalled ==
  /\ call = "probe" /\ call' = "none"
  /\ IF fw.probe = "none" /\ ~fw.fault
     THEN fw' = [fw EXCEPT !.probe = "own"] /\ UNCHANGED <<phase, at, cancelled>>
     ELSE Published("own", "gateway_error") /\ UNCHANGED fw
  /\ UNCHANGED <<session, probed, base, left, recovery, check, conn, resumed, clean>>

FwRestarts ==
  /\ fw # Boot /\ fw' = Boot /\ resumed' = {}
  /\ conn' = FALSE /\ call' = "none"
  /\ UNCHANGED <<haVars, check, clean>>

Tick ==
  /\ Verifying /\ left > 0 /\ left' = left - 1
  /\ fw' = [fw EXCEPT !.ms = (fw.ms + 1) % ClockMod,
                      !.age = [r \in Core |-> IF fw.age[r] = Stale THEN Stale ELSE fw.age[r] + 1]]
  /\ UNCHANGED <<phase, at, session, probed, cancelled, base, recovery, check, netVars, resumed, clean>>
------------------------------------------------------------------------------
(* The session. *)

Init ==
  /\ phase = "idle" /\ at = NoAt
  /\ session = FALSE /\ probed = FALSE /\ cancelled = FALSE
  /\ base = NoBase /\ left = 0 /\ recovery = "unknown" /\ check = "idle"
  /\ conn = FALSE /\ call = "none"
  /\ fw = Boot /\ resumed = {} /\ clean = FALSE

Unlocked == phase \in {"idle", "lock"} /\ check # "running"

RunScan ==
  /\ phase = "idle" /\ phase' = "lock" /\ cancelled' = FALSE
  /\ UNCHANGED <<at, session, probed, base, left, recovery, check, netVars, fw, resumed, clean>>

CancelScan ==
  /\ phase \in {"lock", "connect", "snapshot", "ready", "probe"} /\ ~cancelled /\ cancelled' = TRUE
  /\ UNCHANGED <<phase, at, session, probed, base, left, recovery, check, netVars, fw, resumed, clean>>

RecoveryAtStart == "unknown"

\* The lock is taken: a cancelled Scan returns, another connects.
Locked ==
  /\ phase = "lock" /\ Unlocked
  /\ \/ cancelled /\ phase' = "idle" /\ UNCHANGED <<session, probed, recovery, clean>>
     \/ /\ ~cancelled /\ phase' = "connect"
        /\ session' = FALSE /\ probed' = FALSE
        /\ recovery' = RecoveryAtStart /\ clean' = FALSE
  /\ UNCHANGED <<at, cancelled, base, left, check, netVars, fw, resumed>>

\* Discovery succeeds; firmware without health entities has no HealthSession.
Connected ==
  /\ phase = "connect" /\ conn' = TRUE
  /\ \/ session' = TRUE /\ phase' = "snapshot" /\ call' = "status"
     \/ session' = FALSE /\ phase' = "ready" /\ call' = "none"
  /\ UNCHANGED <<at, probed, cancelled, base, left, recovery, check, fw, resumed, clean>>

\* A latched fault ends the Scan before its first probe.
SnapshotArrives ==
  /\ phase = "snapshot" /\ call = "status" /\ call' = "none"
  /\ phase' = IF fw.fault THEN "disconnect" ELSE "ready"
  /\ cancelled' = (cancelled /\ ~fw.fault)
  /\ UNCHANGED <<at, session, probed, base, left, recovery, check, conn, fw, resumed, clean>>

\* The top of the attempt loop; without a connection the call itself fails, after
\* probe_sent is set.
NextProbe ==
  /\ phase = "ready"
  /\ \/ cancelled /\ Leaves /\ UNCHANGED <<probed, call>>
     \/ ~cancelled /\ conn /\ phase' = "probe" /\ probed' = TRUE /\ call' = "probe" /\ UNCHANGED <<at, cancelled>>
     \/ /\ ~cancelled /\ ~conn /\ probed' = TRUE /\ UNCHANGED <<call, cancelled>>
        /\ phase' = IF session THEN "recover" ELSE "disconnect"
        /\ at' = NoAt
  /\ UNCHANGED <<session, base, left, recovery, check, conn, fw, resumed, clean>>

\* A wait of the session fails: refused, timed out, invalid, disconnected, or (before
\* the first probe) cancelled.
SessionFails ==
  /\ phase \in {"connect", "snapshot", "probe"} /\ Leaves
  /\ UNCHANGED <<session, probed, base, left, recovery, check, netVars, fw, resumed, clean>>

\* The task itself is cancelled: no recovery, and one under way is given up.
TaskCancelled ==
  /\ phase \notin {"idle", "disconnect"}
  /\ phase' = IF phase = "lock" THEN "idle" ELSE "disconnect"
  /\ at' = NoAt /\ cancelled' = FALSE
  /\ UNCHANGED <<session, probed, base, left, recovery, check, netVars, fw, resumed, clean>>
------------------------------------------------------------------------------
(* verify_recovery *)

Baseline ==
  /\ phase = "recover" /\ conn /\ phase' = "baseline" /\ left' = VerifyLimit /\ call' = "baseline"
  /\ \E age \in [Core -> 0..Stale], r \in Core :
       fw' = IF fw.fault THEN fw ELSE [fw EXCEPT !.age = age, !.poll = r]
  /\ UNCHANGED <<at, session, probed, cancelled, base, recovery, check, conn, resumed, clean>>

BaseOf(s) == [seq |-> s.seq, ms |-> s.ms, target |-> s.target]

\* What is read in the baseline's own unit of time counts as read since.
BaselineArrives ==
  /\ phase = "baseline" /\ call = "baseline" /\ call' = "none"
  /\ base' = BaseOf(Snapshot) /\ phase' = "sleep" /\ resumed' = {r \in Core : fw.age[r] = 0}
  /\ UNCHANGED <<at, session, probed, cancelled, left, recovery, check, conn, fw, clean>>

SleepEnds ==
  /\ phase = "sleep" /\ conn /\ phase' = "verify" /\ call' = "status"
  /\ UNCHANGED <<at, session, probed, cancelled, base, left, recovery, check, conn, fw, resumed, clean>>

Delta(s) == (s.seq + SeqMod - base.seq) % SeqMod
Elapsed(s) == (s.ms + ClockMod - base.ms) % ClockMod
AnyAge(s) == TRUE   \* (mutant)
NoOlder(s) == s.age <= Elapsed(s)

Proves(s) ==
  /\ 0 < Delta(s) /\ 2 * Delta(s) < SeqMod
  /\ Elapsed(s) < ElapsedLimit /\ NoOlder(s)
  /\ s.core /\ ~s.busy /\ s.addr = s.target /\ s.target = base.target

VerifyArrives ==
  /\ phase = "verify" /\ call = "status" /\ call' = "none"
  /\ LET s == Snapshot IN
     \/ s.fault /\ recovery' = "failed" /\ phase' = "disconnect" /\ UNCHANGED clean
     \/ ~s.fault /\ Proves(s) /\ recovery' = "verified" /\ phase' = "disconnect" /\ clean' = Whole
     \/ ~s.fault /\ ~Proves(s) /\ phase' = "sleep" /\ UNCHANGED <<recovery, clean>>
  /\ UNCHANGED <<at, session, probed, cancelled, base, left, check, conn, fw, resumed>>

NoLimit == FALSE   \* (mutant)
LimitOver == left = 0

\* Its limit, the limit of one snapshot, a refused call or a lost connection.
VerifyFails ==
  /\ phase \in {"recover", "baseline", "sleep", "verify"}
  /\ phase = "recover" => ~conn
  /\ phase = "sleep" => ~conn \/ LimitOver
  /\ phase' = "disconnect" /\ recovery' = "unknown"
  /\ UNCHANGED <<at, session, probed, cancelled, base, left, check, netVars, fw, resumed, clean>>

Disconnect ==
  /\ phase = "disconnect" /\ phase' = "idle" /\ conn' = FALSE /\ call' = "none"
  /\ session' = FALSE /\ probed' = FALSE /\ base' = NoBase /\ left' = 0
  /\ fw' = [Boot EXCEPT !.probe = IF fw.probe = "none" THEN "none" ELSE "other", !.fault = fw.fault]
  /\ resumed' = {} /\ UNCHANGED <<at, cancelled, recovery, check, clean>>

ConnectionLost ==
  /\ conn /\ conn' = FALSE /\ call' = "none"
  /\ UNCHANGED <<haVars, check, fw, resumed, clean>>
------------------------------------------------------------------------------
(* check_gateway: refused while the lock is held; it queues behind a waiting Scan. *)

CheckBegins ==
  /\ check = "idle" /\ Unlocked
  /\ check' = IF phase = "lock" THEN "waiting" ELSE "running"
  /\ UNCHANGED <<haVars, netVars, fw, resumed, clean>>

CheckLocked ==
  /\ check = "waiting" /\ phase = "idle" /\ check' = "running"
  /\ UNCHANGED <<haVars, netVars, fw, resumed, clean>>

CheckEnds ==
  /\ check = "running" /\ check' = "idle"
  /\ UNCHANGED <<haVars, netVars, fw, resumed, clean>>

Next ==
  \/ FwPolls \/ FwPollFails \/ FwAddressChanges \/ FwFaults \/ FwProbeCalled \/ FwRestarts \/ Tick
  \/ \E o \in Outcomes : FwProbeEnds(o)
  \/ RunScan \/ CancelScan \/ Locked \/ Connected \/ SnapshotArrives \/ NextProbe
  \/ SessionFails \/ TaskCancelled
  \/ Baseline \/ BaselineArrives \/ SleepEnds \/ VerifyArrives \/ VerifyFails
  \/ Disconnect \/ ConnectionLost \/ CheckBegins \/ CheckLocked \/ CheckEnds

Spec == Init /\ [][Next]_vars

\* The event loop runs what can run, every wait and the verification have a limit, a
\* check of the Gateway ends, and time passes.  The firmware owes nothing.
Fairness ==
  /\ WF_vars(Tick) /\ WF_vars(Locked) /\ WF_vars(NextProbe) /\ WF_vars(SessionFails)
  /\ WF_vars(Baseline) /\ WF_vars(SleepEnds) /\ WF_vars(VerifyFails) /\ WF_vars(Disconnect)
  /\ WF_vars(CheckLocked) /\ WF_vars(CheckEnds)

FairSpec == Spec /\ Fairness
------------------------------------------------------------------------------
(* Properties. *)

Phases == {"idle", "lock", "connect", "snapshot", "ready", "probe",
           "recover", "baseline", "sleep", "verify", "disconnect"}

TypeOK ==
  /\ phase \in Phases /\ at \in [slave : 1..Last, attempt : 0..Retries]
  /\ session \in BOOLEAN /\ probed \in BOOLEAN /\ cancelled \in BOOLEAN
  /\ base \in [seq : 0..(SeqMod - 1), ms : 0..(ClockMod - 1), target : Targets] /\ left \in 0..VerifyLimit
  /\ recovery \in {"unknown", "failed", "verified"} /\ check \in {"idle", "waiting", "running"}
  /\ conn \in BOOLEAN /\ call \in Calls /\ resumed \in SUBSET Core /\ clean \in BOOLEAN
  /\ fw \in [probe : Probes, fault : BOOLEAN, poll : Core, age : [Core -> 0..Stale],
              addr : Targets, target : Targets, seq : 0..(SeqMod - 1), ms : 0..(ClockMod - 1)]

\* "verified" is the outcome of this Scan's own verification, and it is true: at the
\* snapshot that proved it every core register had been read again from the same slave
\* since the baseline, no probe was under way and no fault was latched.
RecoveryTrue ==
  recovery = "verified" => clean /\ phase \in {"idle", "lock", "disconnect"}

\* Every Scan returns, whether or not the Gateway answers, polling comes back, a check
\* holds the lock, the connection is lost or the firmware restarts.
EveryScanReturns == phase # "idle" ~> phase = "idle"
==============================================================================
