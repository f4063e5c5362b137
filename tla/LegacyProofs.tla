----------------------------- MODULE LegacyProofs -----------------------------
(* Proofs about LegacySession, for any addresses, retries, core registers, limits *)
(* and widths of the firmware's clock and poll counter.                           *)
EXTENDS LegacySession, DataLemmas
------------------------------------------------------------------------------
(* The inductive invariant. *)

FwStates ==
  [probe : Probes, fault : BOOLEAN, poll : Core, age : [Core -> 0..Stale],
   addr : Targets, target : Targets, seq : 0..(SeqMod - 1), ms : 0..(ClockMod - 1)]
Ats == [slave : 1..Last, attempt : 0..Retries]
Bases == [seq : 0..(SeqMod - 1), ms : 0..(ClockMod - 1), target : Targets]

Types ==
  /\ phase \in Phases /\ session \in BOOLEAN /\ probed \in BOOLEAN /\ cancelled \in BOOLEAN
  /\ left \in 0..VerifyLimit
  /\ recovery \in {"unknown", "failed", "verified"} /\ check \in {"idle", "waiting", "running"}
  /\ conn \in BOOLEAN /\ call \in Calls /\ resumed \in SUBSET Core /\ clean \in BOOLEAN
  /\ at \in Ats /\ base \in Bases /\ fw \in FwStates

\* A call is under way on a connection only: a restart or a lost connection drops it.
CallsNeedConn == call # "none" => conn

\* While a verification has its baseline and its connection, the firmware's clock went on
\* by what the limit lost, so it did not wrap, and a core register that was read within
\* that time was read since the baseline.
Measured ==
  phase \in {"sleep", "verify"} /\ conn =>
    /\ Elapsed(fw) + left <= VerifyLimit
    /\ \A r \in Core : fw.age[r] # Stale /\ fw.age[r] <= Elapsed(fw) => r \in resumed

Inv == Types /\ CallsNeedConn /\ Measured /\ RecoveryTrue

\* Types is TypeOK in parts.
LEMMA TypeParts == Types <=> TypeOK
BY DEF Types, TypeOK, FwStates, Ats, Bases
------------------------------------------------------------------------------
(* Numbers. *)

\* A value modulo n, and one that has not reached n.
LEMMA ModFacts ==
  ASSUME NEW n \in Nat \ {0}, NEW x \in Int
  PROVE  /\ x % n \in 0..(n - 1)
         /\ x \in 0..(n - 1) => x % n = x
         /\ x \in n..(n + n - 1) => x % n = x - n
OBVIOUS

\* A number that has not reached n stays itself modulo n.
LEMMA ModSame ==
  ASSUME NEW n \in Nat \ {0}, NEW x \in 0..(n - 1)
  PROVE  x % n = x
OBVIOUS

\* One that has reached it once loses n.
LEMMA ModOnce ==
  ASSUME NEW n \in Nat \ {0}, NEW x \in n..(n + n - 1)
  PROVE  x % n = x - n
OBVIOUS

\* The constants.
LEMMA Limits ==
  /\ NumCore \in Nat \ {0} /\ Core = 0..(NumCore - 1) /\ 0 \in Core /\ NumCore - 1 \in Core
  /\ Stale \in Nat /\ Stale \in 0..Stale /\ 0 \in 0..Stale
  /\ VerifyLimit \in Nat /\ ElapsedLimit \in Nat /\ VerifyLimit < ElapsedLimit
  /\ ClockMod \in Nat \ {0} /\ VerifyLimit < ClockMod
  /\ SeqMod \in Nat \ {0} /\ 0 \in 0..(SeqMod - 1) /\ 0 \in 0..(ClockMod - 1)
  /\ Last \in Nat \ {0} /\ Retries \in Nat
BY LegacyAssumption DEF Core, Stale

\* The firmware's clock since the baseline.
LEMMA ElapsedType ==
  ASSUME base \in Bases, NEW s, s.ms \in 0..(ClockMod - 1)
  PROVE  Elapsed(s) \in 0..(ClockMod - 1)
<1>1. base.ms \in 0..(ClockMod - 1)
  BY DEF Bases
<1> DEFINE x == s.ms + ClockMod - base.ms
<1>2. x \in Int
  BY <1>1, Limits
<1>3. x % ClockMod \in 0..(ClockMod - 1)
  <2> HIDE DEF x
  <2>1. QED
    BY <1>2, Limits, ModFacts
<1>4. QED
  BY <1>3 DEF Elapsed
------------------------------------------------------------------------------
\* The initial state satisfies the invariant.
LEMMA InitInv == Init => Inv
<1> SUFFICES ASSUME Init PROVE Inv
  OBVIOUS
<1>1. SeqMod - 1 \in 0..(SeqMod - 1) /\ ClockMod - 1 \in 0..(ClockMod - 1)
  BY Limits
<1>2. Boot \in FwStates
  BY <1>1, Limits DEF Boot, FwStates, Probes, Targets
<1>3. NoBase \in Bases
  BY Limits DEF NoBase, Bases, Targets
<1>4. NoAt \in Ats
  BY Limits DEF NoAt, Ats
<1>5. Types
  <2>1. at \in Ats /\ base \in Bases /\ fw \in FwStates
    BY <1>2, <1>3, <1>4 DEF Init
  <2>2. left \in 0..VerifyLimit
    BY Limits DEF Init
  <2>3. QED
    BY <2>1, <2>2 DEF Init, Types, Phases, Calls
<1>6. CallsNeedConn /\ Measured /\ RecoveryTrue
  BY DEF Init, CallsNeedConn, Measured, RecoveryTrue
<1>7. QED
  BY <1>5, <1>6 DEF Inv
------------------------------------------------------------------------------
(* Steps of the firmware. *)

\* Polling: what is read is read since the baseline.
LEMMA FwPollsInv == Inv /\ FwPolls => Inv'
<1> SUFFICES ASSUME Inv, FwPolls PROVE Inv'
  OBVIOUS
<1> DEFINE r == IF fw.addr = fw.target THEN fw.poll ELSE 0
           age == [fw.age EXCEPT ![r] = 0]
           counted == r = NumCore - 1 /\ \A c \in Core : age[c] # Stale
           seq == IF counted THEN (fw.seq + 1) % SeqMod ELSE fw.seq
           new == [fw EXCEPT !.addr = fw.target, !.age = age, !.poll = NextCore(r), !.seq = seq]
<1>1. Types /\ fw \in FwStates
  BY DEF Inv, Types
<1>2. fw' = new /\ resumed' = resumed \cup {r} /\ UNCHANGED <<haVars, check, netVars, clean>>
  BY DEF FwPolls
<1>3. r \in Core
  BY <1>1, Limits DEF FwStates
<1>4. age \in [Core -> 0..Stale]
  <2> HIDE DEF r
  <2>1. QED
    BY <1>1, <1>3, Limits DEF FwStates
<1>5. NextCore(r) \in Core
  <2> HIDE DEF r
  <2>1. r + 1 \in Int
    BY <1>3, Limits
  <2>2. QED
    BY <2>1, Limits, ModFacts DEF NextCore
<1>6. seq \in 0..(SeqMod - 1)
  <2> HIDE DEF counted
  <2>1. fw.seq \in 0..(SeqMod - 1)
    BY <1>1 DEF FwStates
  <2>2. (fw.seq + 1) % SeqMod \in 0..(SeqMod - 1)
    <3>1. fw.seq + 1 \in Int
      BY <2>1
    <3>2. QED
      BY <3>1, Limits, ModFacts
  <2>3. QED
    BY <2>1, <2>2
<1> HIDE DEF counted, seq, age, r
<1>7. new \in FwStates
  BY <1>1, <1>4, <1>5, <1>6 DEF FwStates
<1>8. new.ms = fw.ms /\ new.age = age
  BY <1>1 DEF FwStates
<1> HIDE DEF new
<1>9. Types'
  BY <1>1, <1>2, <1>3, <1>7 DEF Types, haVars, netVars
<1>10. Elapsed(fw)' = Elapsed(fw)
  BY <1>2, <1>8 DEF Elapsed, haVars
<1>11. Measured'
  <2> SUFFICES ASSUME phase \in {"sleep", "verify"}, conn
               PROVE  /\ Elapsed(fw) + left <= VerifyLimit
                      /\ \A c \in Core : age[c] # Stale /\ age[c] <= Elapsed(fw) => c \in resumed \cup {r}
    BY <1>2, <1>8, <1>10 DEF Measured, haVars, netVars
  <2>1. /\ Elapsed(fw) + left <= VerifyLimit
        /\ \A c \in Core : fw.age[c] # Stale /\ fw.age[c] <= Elapsed(fw) => c \in resumed
    BY DEF Inv, Measured
  <2>2. \A c \in Core : c # r => age[c] = fw.age[c]
    BY <1>1, <1>3 DEF FwStates, age
  <2>3. QED
    BY <2>1, <2>2
<1>12. CallsNeedConn' /\ RecoveryTrue'
  BY <1>2 DEF Inv, CallsNeedConn, RecoveryTrue, haVars, netVars
<1>13. QED
  BY <1>9, <1>11, <1>12 DEF Inv

\* A step of the firmware that leaves its clock, makes every value stale and does nothing
\* else to the session.
LEMMA StaleInv ==
  ASSUME Inv, fw' \in FwStates, fw'.ms = fw.ms, \A r \in Core : fw'.age[r] = Stale,
         resumed' = {}, UNCHANGED <<haVars, check, netVars, clean>>
  PROVE  Inv'
<1>1. Types'
  BY DEF Inv, Types, haVars, netVars
<1>2. Elapsed(fw)' = Elapsed(fw)
  BY DEF Elapsed, haVars
<1>3. Measured'
  BY <1>2 DEF Inv, Measured, haVars, netVars
<1>4. CallsNeedConn' /\ RecoveryTrue'
  BY DEF Inv, CallsNeedConn, RecoveryTrue, haVars, netVars
<1>5. QED
  BY <1>1, <1>3, <1>4 DEF Inv

\* A core register that gives no valid answer.
LEMMA FwPollFailsInv == Inv /\ FwPollFails => Inv'
<1> SUFFICES ASSUME Inv, FwPollFails PROVE Inv'
  OBVIOUS
<1>1. fw \in FwStates
  BY DEF Inv, Types
<1>2. /\ fw' \in FwStates /\ fw'.ms = fw.ms /\ \A r \in Core : fw'.age[r] = Stale
  BY <1>1, Limits DEF FwPollFails, FwStates
<1>3. QED
  BY <1>2, StaleInv DEF FwPollFails

\* Another target address.
LEMMA FwAddressChangesInv == Inv /\ FwAddressChanges => Inv'
<1> SUFFICES ASSUME Inv, FwAddressChanges PROVE Inv'
  OBVIOUS
<1>1. fw \in FwStates
  BY DEF Inv, Types
<1>2. PICK t \in Targets : fw' = [fw EXCEPT !.target = t, !.age = [r \in Core |-> Stale]]
  BY DEF FwAddressChanges
<1>3. [r \in Core |-> Stale] \in [Core -> 0..Stale]
  BY Limits
<1>4. /\ fw' \in FwStates /\ fw'.ms = fw.ms /\ \A r \in Core : fw'.age[r] = Stale
  BY <1>1, <1>2, <1>3 DEF FwStates
<1>5. QED
  BY <1>4, StaleInv DEF FwAddressChanges

\* The result of a probe: only a session that waits for it takes it.
LEMMA PublishedFacts ==
  ASSUME Inv, NEW p, NEW o, Published(p, o)
  PROVE  /\ phase' \in Phases /\ at' \in Ats /\ cancelled' \in BOOLEAN
         /\ \/ phase' = phase
            \/ phase = "probe" /\ phase' \in {"ready", "recover", "disconnect"}
<1>1. Types
  BY DEF Inv
<1>2. CASE UNCHANGED <<phase, at, cancelled>>
  BY <1>1, <1>2 DEF Types
<1>3. CASE phase = "probe" /\ Taken(o)
  <2>1. NoAt \in Ats
    BY Limits DEF NoAt, Ats
  <2>2. at \in Ats /\ cancelled \in BOOLEAN
    BY <1>1 DEF Types
  <2>3. CASE at.attempt < Retries /\ phase' = "ready" /\ at' = [at EXCEPT !.attempt = @ + 1] /\ UNCHANGED cancelled
    <3>1. at' \in Ats
      BY <2>2, <2>3, Limits DEF Ats
    <3>2. QED
      BY <1>3, <2>2, <2>3, <3>1 DEF Phases
  <2>4. CASE Leaves
    BY <1>3, <2>1, <2>4 DEF Leaves, Ended, Phases
  <2>5. CASE at.slave < Last /\ phase' = "ready" /\ at' = [slave |-> at.slave + 1, attempt |-> 0] /\ UNCHANGED cancelled
    <3>1. at' \in Ats
      BY <2>2, <2>5, Limits DEF Ats
    <3>2. QED
      BY <1>3, <2>2, <2>5, <3>1 DEF Phases
  <2>6. QED
    BY <1>3, <2>3, <2>4, <2>5 DEF Taken
<1>4. QED
  BY <1>2, <1>3 DEF Published

\* A step of the firmware that publishes a result, drops no value it has read, and keeps
\* its clock.
LEMMA PublishInv ==
  ASSUME Inv, NEW p, NEW o, Published(p, o), fw' \in FwStates, fw'.ms = fw.ms,
         \A r \in Core : fw'.age[r] \in {fw.age[r], Stale},
         call' \in {call, "none"},
         UNCHANGED <<session, probed, base, left, recovery, check, conn, resumed, clean>>
  PROVE  Inv'
<1>1. /\ phase' \in Phases /\ at' \in Ats /\ cancelled' \in BOOLEAN
      /\ \/ phase' = phase
         \/ phase = "probe" /\ phase' \in {"ready", "recover", "disconnect"}
  BY PublishedFacts
<1>2. Types'
  BY <1>1 DEF Inv, Types, Calls
<1>3. Elapsed(fw)' = Elapsed(fw)
  BY DEF Elapsed
<1>4. Measured'
  <2>1. CASE phase' = phase
    BY <1>3, <2>1 DEF Inv, Measured
  <2>2. CASE phase' \in {"ready", "recover", "disconnect"}
    BY <2>2 DEF Measured
  <2>3. QED
    BY <1>1, <2>1, <2>2
<1>5. CallsNeedConn'
  BY DEF Inv, CallsNeedConn
<1>6. RecoveryTrue'
  BY <1>1 DEF Inv, RecoveryTrue
<1>7. QED
  BY <1>2, <1>4, <1>5, <1>6 DEF Inv

\* A probe ends.
LEMMA FwProbeEndsInv == \A o \in Outcomes : Inv /\ FwProbeEnds(o) => Inv'
<1> SUFFICES ASSUME NEW o \in Outcomes, Inv, FwProbeEnds(o) PROVE Inv'
  OBVIOUS
<1>1. fw \in FwStates
  BY DEF Inv, Types
<1>2. fw' \in FwStates /\ fw'.ms = fw.ms /\ fw'.age = fw.age
  BY <1>1 DEF FwProbeEnds, FwStates, Probes
<1>3. QED
  BY <1>2, PublishInv DEF FwProbeEnds, netVars

\* The watchdog's fault.
LEMMA FwFaultsInv == Inv /\ FwFaults => Inv'
<1> SUFFICES ASSUME Inv, FwFaults PROVE Inv'
  OBVIOUS
<1>1. fw \in FwStates
  BY DEF Inv, Types
<1>2. fw' \in FwStates /\ fw'.ms = fw.ms /\ \A r \in Core : fw'.age[r] = Stale
  BY <1>1, Limits DEF FwFaults, FwStates, Probes
<1>3. QED
  BY <1>2, PublishInv DEF FwFaults, netVars

\* A probe call arrives.
LEMMA FwProbeCalledInv == Inv /\ FwProbeCalled => Inv'
<1> SUFFICES ASSUME Inv, FwProbeCalled PROVE Inv'
  OBVIOUS
<1>1. fw \in FwStates
  BY DEF Inv, Types
<1>2. fw' \in FwStates /\ fw'.ms = fw.ms /\ fw'.age = fw.age
  BY <1>1 DEF FwProbeCalled, FwStates, Probes
<1>3. CASE UNCHANGED <<phase, at, cancelled>>
  <2>1. Published("other", "timeout")
    BY <1>3 DEF Published
  <2>2. QED
    BY <1>2, <2>1, PublishInv DEF FwProbeCalled
<1>4. CASE Published("own", "gateway_error")
  BY <1>2, <1>4, PublishInv DEF FwProbeCalled
<1>5. QED
  BY <1>3, <1>4 DEF FwProbeCalled

\* A restart drops the connection.
LEMMA FwRestartsInv == Inv /\ FwRestarts => Inv'
<1> SUFFICES ASSUME Inv, FwRestarts PROVE Inv'
  OBVIOUS
<1>1. SeqMod - 1 \in 0..(SeqMod - 1) /\ ClockMod - 1 \in 0..(ClockMod - 1)
  BY Limits
<1>2. Boot \in FwStates
  BY <1>1, Limits DEF Boot, FwStates, Probes, Targets
<1>3. Types'
  BY <1>2 DEF Inv, FwRestarts, Types, Calls, haVars
<1>4. CallsNeedConn' /\ Measured' /\ RecoveryTrue'
  BY DEF Inv, FwRestarts, CallsNeedConn, Measured, RecoveryTrue, haVars
<1>5. QED
  BY <1>3, <1>4 DEF Inv

\* Time passes: a unit of the firmware's clock, of every age and of the limit.
LEMMA TickInv == Inv /\ Tick => Inv'
<1> SUFFICES ASSUME Inv, Tick PROVE Inv'
  OBVIOUS
<1> DEFINE ages == [r \in Core |-> IF fw.age[r] = Stale THEN Stale ELSE fw.age[r] + 1]
           ms == (fw.ms + 1) % ClockMod
<1>1. fw \in FwStates /\ base \in Bases /\ left \in 0..VerifyLimit
  BY DEF Inv, Types
<1>2. /\ left > 0 /\ left' = left - 1
      /\ fw' = [fw EXCEPT !.ms = ms, !.age = ages]
      /\ UNCHANGED <<phase, at, session, probed, cancelled, base, recovery, check, netVars, resumed, clean>>
  BY DEF Tick
<1>3. fw.ms \in 0..(ClockMod - 1) /\ base.ms \in 0..(ClockMod - 1)
  BY <1>1 DEF FwStates, Bases
<1>4. ms \in 0..(ClockMod - 1)
  <2>1. fw.ms + 1 \in Int
    BY <1>3, Limits
  <2>2. QED
    BY <2>1, Limits, ModFacts
<1>5. ages \in [Core -> 0..Stale]
  <2>1. \A r \in Core : fw.age[r] \in 0..Stale
    BY <1>1 DEF FwStates
  <2>2. QED
    BY <2>1, Limits
<1> HIDE DEF ages, ms
<1>6. fw' \in FwStates /\ fw'.ms = ms /\ fw'.age = ages
  BY <1>1, <1>2, <1>4, <1>5 DEF FwStates
<1>7. Types'
  BY <1>1, <1>2, <1>6, Limits DEF Inv, Types, netVars
<1>8. ASSUME Elapsed(fw) < ClockMod - 1 PROVE Elapsed(fw)' = Elapsed(fw) + 1
  <2> DEFINE x == fw.ms + ClockMod - base.ms
             y == ms + ClockMod - base.ms
  <2>1. Elapsed(fw)' = y % ClockMod /\ Elapsed(fw) = x % ClockMod
    BY <1>2, <1>6 DEF Elapsed
  <2>2. ms = fw.ms + 1 \/ (fw.ms = ClockMod - 1 /\ ms = 0)
    <3>1. CASE fw.ms + 1 \in 0..(ClockMod - 1)
      BY <3>1, Limits, ModSame DEF ms
    <3>2. CASE fw.ms = ClockMod - 1
      <4> DEFINE z == fw.ms + 1
      <4>1. z \in ClockMod..(ClockMod + ClockMod - 1)
        BY <3>2, Limits
      <4>2. ms = z - ClockMod
        <5>1. ms = z % ClockMod
          BY DEF ms
        <5> HIDE DEF z
        <5>2. z % ClockMod = z - ClockMod
          BY <4>1, Limits, ModOnce
        <5>3. QED
          BY <5>1, <5>2
      <4>3. QED
        BY <3>2, <4>2, Limits
    <3>3. QED
      BY <1>3, <3>1, <3>2, Limits
  <2>3. x \in Int /\ y \in Int /\ x \in 1..(ClockMod + ClockMod - 1)
    BY <1>3, <1>4, Limits
  <2>4. CASE x < ClockMod
    <3>1. x % ClockMod = x
      <4> HIDE DEF x
      <4>1. QED
        BY <2>3, <2>4, Limits, ModSame
    <3>2. x < ClockMod - 1
      BY <1>8, <2>1, <3>1
    <3>3. fw.ms < base.ms
      BY <1>3, <2>4, Limits
    <3>4. y = x + 1 /\ y \in 0..(ClockMod - 1)
      BY <1>3, <2>2, <2>3, <3>2, <3>3, Limits
    <3>5. y % ClockMod = y
      <4> HIDE DEF y
      <4>1. QED
        BY <3>4, Limits, ModSame
    <3>6. QED
      BY <2>1, <3>1, <3>4, <3>5
  <2>5. CASE x >= ClockMod
    <3>1. x % ClockMod = x - ClockMod
      <4> HIDE DEF x
      <4>1. x \in ClockMod..(ClockMod + ClockMod - 1)
        BY <2>3, <2>5, Limits
      <4>2. QED
        BY <2>3, <4>1, Limits, ModFacts
    <3>2. x - ClockMod < ClockMod - 1
      BY <1>8, <2>1, <3>1
    <3>3. CASE ms = fw.ms + 1
      <4>1. y = x + 1 /\ y \in ClockMod..(ClockMod + ClockMod - 1)
        BY <1>3, <2>3, <2>5, <3>2, <3>3, Limits
      <4>2. y % ClockMod = y - ClockMod
        <5> HIDE DEF y
        <5>1. QED
          BY <4>1, Limits, ModOnce
      <4>3. QED
        BY <2>1, <2>3, <3>1, <4>1, <4>2, Limits
    <3>4. CASE fw.ms = ClockMod - 1 /\ ms = 0
      <4>1. y = x + 1 - ClockMod /\ y \in 0..(ClockMod - 1)
        BY <1>3, <2>3, <2>5, <3>2, <3>4, Limits
      <4>2. y % ClockMod = y
        <5> HIDE DEF y
        <5>1. QED
          BY <4>1, Limits, ModSame
      <4>3. QED
        BY <2>1, <2>3, <3>1, <4>1, <4>2, Limits
    <3>5. QED
      BY <2>2, <3>3, <3>4
  <2>6. QED
    BY <2>3, <2>4, <2>5, Limits
<1>9. Measured'
  <2> SUFFICES ASSUME phase \in {"sleep", "verify"}, conn
               PROVE  /\ Elapsed(fw)' + left' <= VerifyLimit
                      /\ \A r \in Core : ages[r] # Stale /\ ages[r] <= Elapsed(fw)' => r \in resumed
    BY <1>2, <1>6 DEF Measured, netVars
  <2>1. /\ Elapsed(fw) + left <= VerifyLimit
        /\ \A r \in Core : fw.age[r] # Stale /\ fw.age[r] <= Elapsed(fw) => r \in resumed
    BY DEF Inv, Measured
  <2>2. Elapsed(fw) \in 0..(ClockMod - 1)
    BY <1>1, <1>3, ElapsedType
  <2>3. Elapsed(fw) < ClockMod - 1
    BY <1>1, <1>2, <2>1, <2>2, Limits
  <2>4. Elapsed(fw)' = Elapsed(fw) + 1
    BY <1>8, <2>3
  <2>5. Elapsed(fw)' + left' <= VerifyLimit
    BY <1>1, <1>2, <2>1, <2>2, <2>4, Limits
  <2>6. ASSUME NEW r \in Core, ages[r] # Stale, ages[r] <= Elapsed(fw)' PROVE r \in resumed
    <3>1. fw.age[r] \in 0..Stale
      BY <1>1 DEF FwStates
    <3>2. fw.age[r] # Stale /\ ages[r] = fw.age[r] + 1
      BY <2>6 DEF ages
    <3>3. fw.age[r] <= Elapsed(fw)
      BY <2>2, <2>4, <2>6, <3>1, <3>2, Limits
    <3>4. QED
      BY <2>1, <3>2, <3>3
  <2>7. QED
    BY <2>5, <2>6
<1>10. CallsNeedConn' /\ RecoveryTrue'
  BY <1>2 DEF Inv, CallsNeedConn, RecoveryTrue, netVars
<1>11. QED
  BY <1>7, <1>9, <1>10 DEF Inv
------------------------------------------------------------------------------
(* Steps of the session. *)

\* A step of the session before or after a verification, or one that ends it: the
\* firmware goes on as it was, and recovery says nothing new.
LEMMA SessionInv ==
  ASSUME Inv, Types', CallsNeedConn',
         phase' \notin {"sleep", "verify"},
         recovery' = "verified" => /\ recovery = "verified" /\ phase' \in {"idle", "lock", "disconnect"}
                                   /\ clean' = clean
  PROVE  Inv'
<1>1. Measured'
  BY DEF Measured
<1>2. RecoveryTrue'
  BY DEF Inv, RecoveryTrue
<1>3. QED
  BY <1>1, <1>2 DEF Inv

\* A Scan is asked for, and queues for the lock.
LEMMA RunScanInv == Inv /\ RunScan => Inv'
<1> SUFFICES ASSUME Inv, RunScan PROVE Inv'
  OBVIOUS
<1>1. Types' /\ CallsNeedConn'
  BY DEF Inv, Types, CallsNeedConn, RunScan, netVars, Phases
<1>2. QED
  BY <1>1, SessionInv DEF RunScan

\* It is asked to stop.
LEMMA CancelScanInv == Inv /\ CancelScan => Inv'
<1> SUFFICES ASSUME Inv, CancelScan PROVE Inv'
  OBVIOUS
<1>1. Types' /\ CallsNeedConn'
  BY DEF Inv, Types, CallsNeedConn, CancelScan, netVars
<1>2. recovery = "verified" => phase \in {"idle", "lock", "disconnect"}
  BY DEF Inv, RecoveryTrue
<1>3. QED
  BY <1>1, <1>2, SessionInv DEF CancelScan

\* The lock is taken.
LEMMA LockedInv == Inv /\ Locked => Inv'
<1> SUFFICES ASSUME Inv, Locked PROVE Inv'
  OBVIOUS
<1>1. Types' /\ CallsNeedConn'
  BY DEF Inv, Types, CallsNeedConn, Locked, netVars, Phases, RecoveryAtStart
<1>2. QED
  BY <1>1, SessionInv DEF Locked, RecoveryAtStart

\* The Gateway is connected.
LEMMA ConnectedInv == Inv /\ Connected => Inv'
<1> SUFFICES ASSUME Inv, Connected PROVE Inv'
  OBVIOUS
<1>1. Types' /\ CallsNeedConn'
  BY DEF Inv, Types, CallsNeedConn, Connected, Phases, Calls
<1>2. recovery # "verified"
  BY DEF Inv, RecoveryTrue, Connected
<1>3. QED
  BY <1>1, <1>2, SessionInv DEF Connected

\* Its first snapshot arrives.
LEMMA SnapshotArrivesInv == Inv /\ SnapshotArrives => Inv'
<1> SUFFICES ASSUME Inv, SnapshotArrives PROVE Inv'
  OBVIOUS
<1>1. phase' \in {"disconnect", "ready"}
  BY DEF SnapshotArrives
<1>2. Types' /\ CallsNeedConn'
  BY <1>1 DEF Inv, Types, CallsNeedConn, SnapshotArrives, Phases, Calls
<1>3. recovery # "verified"
  BY DEF Inv, RecoveryTrue, SnapshotArrives
<1>4. QED
  BY <1>1, <1>2, <1>3, SessionInv DEF SnapshotArrives

\* The top of the attempt loop.
LEMMA NextProbeInv == Inv /\ NextProbe => Inv'
<1> SUFFICES ASSUME Inv, NextProbe PROVE Inv'
  OBVIOUS
<1>1. NoAt \in Ats
  BY Limits DEF NoAt, Ats
<1>2. phase' \in {"probe", "recover", "disconnect"}
  BY DEF NextProbe, Leaves, Ended
<1>3. Types' /\ CallsNeedConn'
  BY <1>1, <1>2 DEF Inv, Types, CallsNeedConn, NextProbe, Leaves, Phases, Calls
<1>4. recovery # "verified"
  BY DEF Inv, RecoveryTrue, NextProbe
<1>5. QED
  BY <1>2, <1>3, <1>4, SessionInv DEF NextProbe

\* A wait fails.
LEMMA SessionFailsInv == Inv /\ SessionFails => Inv'
<1> SUFFICES ASSUME Inv, SessionFails PROVE Inv'
  OBVIOUS
<1>1. NoAt \in Ats
  BY Limits DEF NoAt, Ats
<1>2. phase' \in {"recover", "disconnect"}
  BY DEF SessionFails, Leaves, Ended
<1>3. Types' /\ CallsNeedConn'
  BY <1>1, <1>2 DEF Inv, Types, CallsNeedConn, SessionFails, Leaves, netVars, Phases
<1>4. recovery # "verified"
  BY DEF Inv, RecoveryTrue, SessionFails
<1>5. QED
  BY <1>2, <1>3, <1>4, SessionInv DEF SessionFails

\* The task is cancelled.
LEMMA TaskCancelledInv == Inv /\ TaskCancelled => Inv'
<1> SUFFICES ASSUME Inv, TaskCancelled PROVE Inv'
  OBVIOUS
<1>1. NoAt \in Ats
  BY Limits DEF NoAt, Ats
<1>2. phase' \in {"idle", "disconnect"}
  BY DEF TaskCancelled
<1>3. Types' /\ CallsNeedConn'
  BY <1>1, <1>2 DEF Inv, Types, CallsNeedConn, TaskCancelled, netVars, Phases
<1>4. QED
  BY <1>2, <1>3, SessionInv DEF TaskCancelled

\* A baseline is asked for: what the firmware had read until then is open.
LEMMA BaselineInv == Inv /\ Baseline => Inv'
<1> SUFFICES ASSUME Inv, Baseline PROVE Inv'
  OBVIOUS
<1>1. fw \in FwStates
  BY DEF Inv, Types
<1>2. PICK age \in [Core -> 0..Stale], r \in Core :
        fw' = IF fw.fault THEN fw ELSE [fw EXCEPT !.age = age, !.poll = r]
  BY DEF Baseline
<1>3. fw' \in FwStates
  BY <1>1, <1>2 DEF FwStates
<1>4. Types' /\ CallsNeedConn'
  <2>1. left' \in 0..VerifyLimit
    BY Limits DEF Baseline
  <2>2. QED
    BY <1>3, <2>1 DEF Inv, Types, CallsNeedConn, Baseline, Phases, Calls
<1>5. recovery # "verified"
  BY DEF Inv, RecoveryTrue, Baseline
<1>6. QED
  BY <1>4, <1>5, SessionInv DEF Baseline

\* The verification ends without a proof.
LEMMA VerifyFailsInv == Inv /\ VerifyFails => Inv'
<1> SUFFICES ASSUME Inv, VerifyFails PROVE Inv'
  OBVIOUS
<1>1. Types' /\ CallsNeedConn'
  BY DEF Inv, Types, CallsNeedConn, VerifyFails, netVars, Phases
<1>2. QED
  BY <1>1, SessionInv DEF VerifyFails

\* The session is closed.
LEMMA DisconnectInv == Inv /\ Disconnect => Inv'
<1> SUFFICES ASSUME Inv, Disconnect PROVE Inv'
  OBVIOUS
<1>1. SeqMod - 1 \in 0..(SeqMod - 1) /\ ClockMod - 1 \in 0..(ClockMod - 1)
  BY Limits
<1>2. Boot \in FwStates
  BY <1>1, Limits DEF Boot, FwStates, Probes, Targets
<1>3. fw \in FwStates
  BY DEF Inv, Types
<1>4. fw' \in FwStates
  BY <1>2, <1>3 DEF Disconnect, FwStates, Probes
<1>5. NoBase \in Bases
  BY Limits DEF NoBase, Bases, Targets
<1>6. Types' /\ CallsNeedConn'
  <2>1. left' \in 0..VerifyLimit
    BY Limits DEF Disconnect
  <2>2. base' \in Bases
    BY <1>5 DEF Disconnect
  <2>3. QED
    BY <1>4, <2>1, <2>2 DEF Inv, Types, CallsNeedConn, Disconnect, Phases, Calls
<1>7. QED
  BY <1>6, SessionInv DEF Disconnect

\* The connection is lost.
LEMMA ConnectionLostInv == Inv /\ ConnectionLost => Inv'
<1> SUFFICES ASSUME Inv, ConnectionLost PROVE Inv'
  OBVIOUS
<1>1. Types' /\ CallsNeedConn'
  BY DEF Inv, Types, CallsNeedConn, ConnectionLost, haVars, Calls
<1>2. Measured' /\ RecoveryTrue'
  BY DEF Inv, Measured, RecoveryTrue, ConnectionLost, haVars
<1>3. QED
  BY <1>1, <1>2 DEF Inv

\* A step of check_gateway, or a stuttering one.
LEMMA CheckInv ==
  ASSUME Inv, check' \in {"idle", "waiting", "running"},
         UNCHANGED <<haVars, netVars, fw, resumed, clean>>
  PROVE  Inv'
<1>1. Types'
  BY DEF Inv, Types, haVars, netVars
<1>2. CallsNeedConn' /\ Measured' /\ RecoveryTrue'
  BY DEF Inv, CallsNeedConn, Measured, RecoveryTrue, Elapsed, haVars, netVars
<1>3. QED
  BY <1>1, <1>2 DEF Inv
------------------------------------------------------------------------------
(* The verification's own steps. *)

\* The baseline arrives: nothing has gone by on the clock since it.
LEMMA BaselineArrivesInv == Inv /\ BaselineArrives => Inv'
<1> SUFFICES ASSUME Inv, BaselineArrives PROVE Inv'
  OBVIOUS
<1>1. fw \in FwStates /\ left \in 0..VerifyLimit
  BY DEF Inv, Types
<1>2. base' = [seq |-> fw.seq, ms |-> fw.ms, target |-> fw.target]
  BY DEF BaselineArrives, BaseOf, Snapshot
<1>3. base' \in Bases
  BY <1>1, <1>2 DEF FwStates, Bases
<1>4. resumed' = {r \in Core : fw.age[r] = 0}
  BY DEF BaselineArrives
<1>5. Types' /\ CallsNeedConn'
  BY <1>3, <1>4 DEF Inv, Types, CallsNeedConn, BaselineArrives, Phases, Calls
<1>6. Elapsed(fw)' = 0
  <2> DEFINE x == fw.ms + ClockMod - fw.ms
  <2>1. Elapsed(fw)' = x % ClockMod
    BY <1>2 DEF Elapsed, BaselineArrives
  <2>2. fw.ms \in 0..(ClockMod - 1)
    BY <1>1 DEF FwStates
  <2>3. x = ClockMod
    BY <2>2, Limits
  <2>4. ClockMod % ClockMod = ClockMod - ClockMod
    <3>1. ClockMod \in ClockMod..(ClockMod + ClockMod - 1)
      BY Limits
    <3>2. QED
      BY <3>1, Limits, ModOnce
  <2>5. QED
    BY <2>1, <2>3, <2>4, Limits
<1>7. Measured'
  <2>1. \A r \in Core : fw.age[r] \in 0..Stale
    BY <1>1 DEF FwStates
  <2>2. \A r \in Core : fw.age[r] <= 0 => r \in resumed'
    BY <1>4, <2>1, Limits
  <2>3. left' = left /\ fw' = fw
    BY DEF BaselineArrives
  <2>4. Elapsed(fw)' + left' <= VerifyLimit
    BY <1>1, <1>6, <2>3, Limits
  <2>5. QED
    BY <1>6, <2>2, <2>3, <2>4 DEF Measured
<1>8. RecoveryTrue'
  BY DEF Inv, RecoveryTrue, BaselineArrives
<1>9. QED
  BY <1>5, <1>7, <1>8 DEF Inv

\* Another snapshot is asked for.
LEMMA SleepEndsInv == Inv /\ SleepEnds => Inv'
<1> SUFFICES ASSUME Inv, SleepEnds PROVE Inv'
  OBVIOUS
<1>1. Types' /\ CallsNeedConn'
  BY DEF Inv, Types, CallsNeedConn, SleepEnds, Phases, Calls
<1>2. Measured' /\ RecoveryTrue'
  BY DEF Inv, Measured, RecoveryTrue, Elapsed, SleepEnds
<1>3. QED
  BY <1>1, <1>2 DEF Inv

\* A snapshot that proves the recovery is taken when every core register has been read
\* since the baseline, and nothing is under way or latched.
LEMMA ProvesWhole ==
  ASSUME Inv, phase = "verify", conn, Proves(Snapshot)
  PROVE  Whole
<1>1. fw \in FwStates /\ base \in Bases /\ resumed \in SUBSET Core
  BY DEF Inv, Types
<1>2. Snapshot.core = FwReady /\ Snapshot.busy = (fw.probe # "none" \/ fw.fault) /\ Snapshot.ms = fw.ms
      /\ Snapshot.age = Max({fw.age[r] : r \in Core})
  BY DEF Snapshot
<1>3. FwReady /\ ~(fw.probe # "none" \/ fw.fault) /\ Max({fw.age[r] : r \in Core}) <= Elapsed(Snapshot)
  BY <1>2 DEF Proves, NoOlder
<1>4. Elapsed(Snapshot) = Elapsed(fw)
  BY <1>2 DEF Elapsed
<1> DEFINE ages == {fw.age[r] : r \in Core}
<1>5. ages \in SUBSET (0..Stale) /\ ages # {}
  <2>1. \A r \in Core : fw.age[r] \in 0..Stale
    BY <1>1 DEF FwStates
  <2>2. ages \subseteq 0..Stale
    BY <2>1
  <2>3. fw.age[0] \in ages
    BY Limits
  <2>4. QED
    BY <2>2, <2>3
<1>6. Max(ages) \in ages /\ \A x \in ages : x <= Max(ages)
  <2> HIDE DEF ages
  <2>1. QED
    BY <1>5, Limits, MaxIsLargest
<1>7. Elapsed(fw) \in 0..(ClockMod - 1)
  BY <1>1, ElapsedType DEF FwStates
<1>8. ASSUME NEW r \in Core PROVE r \in resumed
  <2>1. fw.age[r] \in ages /\ fw.age[r] \in 0..Stale
    BY <1>1 DEF FwStates
  <2>2. Max(ages) \in 0..Stale
    BY <1>5, <1>6
  <2>3. fw.age[r] <= Max(ages) /\ Max(ages) <= Elapsed(fw)
    BY <1>3, <1>4, <1>6, <2>1
  <2>4. fw.age[r] <= Elapsed(fw)
    <3> HIDE DEF ages
    <3>1. QED
      BY <1>7, <2>1, <2>2, <2>3, Limits
  <2>5. fw.age[r] # Stale
    BY <1>3 DEF FwReady
  <2>6. QED
    BY <2>4, <2>5 DEF Inv, Measured
<1>9. resumed = Core
  BY <1>1, <1>8
<1>10. QED
  BY <1>3, <1>9 DEF Whole

\* A snapshot arrives.
LEMMA VerifyArrivesInv == Inv /\ VerifyArrives => Inv'
<1> SUFFICES ASSUME Inv, VerifyArrives PROVE Inv'
  OBVIOUS
<1>1. conn /\ phase = "verify" /\ call' = "none"
      /\ UNCHANGED <<at, session, probed, cancelled, base, left, check, conn, fw, resumed>>
  BY DEF Inv, CallsNeedConn, VerifyArrives
<1>2. Whole \in BOOLEAN
  BY DEF Whole
<1>3. /\ phase' \in {"disconnect", "sleep"} /\ clean' \in BOOLEAN
      /\ recovery' \in {"unknown", "failed", "verified"}
  BY <1>2 DEF Inv, Types, VerifyArrives
<1>4. Types' /\ CallsNeedConn'
  BY <1>1, <1>3 DEF Inv, Types, CallsNeedConn, Phases, Calls
<1>5. Measured'
  BY <1>1 DEF Inv, Measured, Elapsed
<1>6. RecoveryTrue'
  <2>1. recovery # "verified"
    BY <1>1 DEF Inv, RecoveryTrue
  <2>2. recovery' = "verified" => Proves(Snapshot) /\ phase' = "disconnect" /\ clean' = Whole
    BY <2>1 DEF VerifyArrives
  <2>3. recovery' = "verified" => Whole
    BY <1>1, <2>2, ProvesWhole
  <2>4. QED
    BY <2>2, <2>3 DEF RecoveryTrue
<1>7. QED
  BY <1>4, <1>5, <1>6 DEF Inv
------------------------------------------------------------------------------
\* Every step preserves the invariant.
LEMMA StepInv == Inv /\ [Next]_vars => Inv'
<1> SUFFICES ASSUME Inv, [Next]_vars PROVE Inv'
  OBVIOUS
<1>1. CASE FwPolls \/ FwPollFails \/ FwAddressChanges \/ FwFaults \/ FwProbeCalled \/ FwRestarts \/ Tick
  BY <1>1, FwPollsInv, FwPollFailsInv, FwAddressChangesInv, FwFaultsInv, FwProbeCalledInv, FwRestartsInv, TickInv
<1>2. CASE \E o \in Outcomes : FwProbeEnds(o)
  BY <1>2, FwProbeEndsInv
<1>3. CASE RunScan \/ CancelScan \/ Locked \/ Connected \/ SnapshotArrives \/ NextProbe
  BY <1>3, RunScanInv, CancelScanInv, LockedInv, ConnectedInv, SnapshotArrivesInv, NextProbeInv
<1>4. CASE SessionFails \/ TaskCancelled \/ Disconnect \/ ConnectionLost
  BY <1>4, SessionFailsInv, TaskCancelledInv, DisconnectInv, ConnectionLostInv
<1>5. CASE Baseline \/ BaselineArrives \/ SleepEnds \/ VerifyArrives \/ VerifyFails
  BY <1>5, BaselineInv, BaselineArrivesInv, SleepEndsInv, VerifyArrivesInv, VerifyFailsInv
<1>6. CASE CheckBegins
  <2>1. check' \in {"idle", "waiting", "running"}
    BY <1>6 DEF CheckBegins
  <2>2. QED
    BY <1>6, <2>1, CheckInv DEF CheckBegins
<1>7. CASE CheckLocked \/ CheckEnds
  <2>1. check' \in {"idle", "waiting", "running"}
    BY <1>7 DEF CheckLocked, CheckEnds
  <2>2. QED
    BY <1>7, <2>1, CheckInv DEF CheckLocked, CheckEnds
<1>8. CASE UNCHANGED vars
  <2>1. check' \in {"idle", "waiting", "running"}
    BY <1>8 DEF vars, Inv, Types
  <2>2. QED
    BY <1>8, <2>1, CheckInv DEF vars
<1>9. QED
  BY <1>1, <1>2, <1>3, <1>4, <1>5, <1>6, <1>7, <1>8 DEF Next

\* The invariant holds in every reachable state.
THEOREM Inductive == Spec => []Inv
<1>1. Init => Inv
  BY InitInv
<1>2. Inv /\ [Next]_vars => Inv'
  BY StepInv
<1>3. QED
  BY <1>1, <1>2, PTL DEF Spec

\* Every variable of the session, the connection and the firmware keeps its type, for all
\* values of the constants.
THEOREM TypeCorrect == Spec => []TypeOK
<1>1. Inv => TypeOK
  BY TypeParts DEF Inv
<1>2. QED
  BY <1>1, Inductive, PTL

\* A recovery_status of "verified" is the outcome of this Scan's verification, and it is
\* true: every core register had been read again since the baseline, no probe was under
\* way and no fault was latched.
THEOREM RecoveryHolds == Spec => []RecoveryTrue
<1>1. Inv => RecoveryTrue
  BY DEF Inv
<1>2. QED
  BY <1>1, Inductive, PTL
==============================================================================
