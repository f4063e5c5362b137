------------------------------- MODULE Guanjie -------------------------------
(* The legacy guanjie firmware: one client of the Modbus hub that polls a        *)
(* dehumidifier, writes its registers and answers read-only scanner probes.      *)
(* protocol.h is the record p, scanner.h the record sc; the hub (external)       *)
(* sends one frame at a time and ends each with one terminal callback.           *)
(*                                                                               *)
(* Time is counted in units of the quiet interval (1000 ms); the 150 ms gap      *)
(* between two frames is no time at all.  A timer is the time it has left.  A    *)
(* reply that comes after the hub gave its frame up comes within one unit: what  *)
(* the quiet intervals are for.  Registers 0..NumCore-1 are the core ones.       *)
EXTENDS Integers, Sequences
CONSTANTS
  Slaves,     \* addresses of the bus
  NumRegs, NumCore,
  Commands,   \* sequences of writes [reg, value] a user may ask for
  Fresh,      \* units a value stays fresh (15 s)
  PollPause,  \* units between two rounds of polling (5 s)
  Watchdog    \* units a probe may take (10 s)

ASSUME GuanjieAssumption ==
  /\ Slaves \subseteq Nat /\ 1 \in Slaves /\ NumRegs \in Nat
  /\ NumCore \in 1..NumRegs /\ Fresh \in Nat \ {0} /\ PollPause \in Nat \ {0}
  /\ Watchdog \in Nat \ {0}

Regs == 0..(NumRegs - 1)

\* A command writes at least one register (request_function, control).
ASSUME CommandsAssumption == Commands \subseteq Seq([reg : Regs, value : Nat]) \ {<<>>}

Core == 0..(NumCore - 1)
Default == 1   \* the address when none can be loaded
Quiet == 1
Stale == Fresh + 1   \* the age of a value that is invalid or no longer fresh
NoTx == [slave |-> 0, function |-> 0, reg |-> 0, value |-> 0, current |-> FALSE]
NoOrigin == <<0, 0>>
Values == {w.value : w \in UNION {{c[k] : k \in DOMAIN c} : c \in Commands}} \cup {0}

VARIABLES
  p,        \* Protocol: addresses, transaction, pending writes, values
  sc,       \* Scanner: the probe and its phase
  fault,    \* scanner_fault_
  reset,    \* wifi_reset_requested_
  pending, flash,  \* the stored address as last saved and as last flushed
  result,   \* "confirmed" or any other text of the last control result
  frames,   \* the hub's frames, the first on the wire
  late,     \* replies under way to frames the hub gave up
  ran,      \* loop() has run since the last unit of time began
  unsent,   \* (history) writes of the last accepted command not yet queued
  unstored  \* (history) the address in force was not loaded, or the undoing of a
            \* failed change of it failed as well; the code notices neither

vars ==
  <<p, sc, fault, reset, pending, flash, result, frames, late, ran, unsent, unstored>>
------------------------------------------------------------------------------
(* protocol.h: what each method makes of the record.                            *)

InFlight(q) == q.tx # NoTx

Ready(q) ==
  /\ ~q.maintenance /\ q.requested = q.active
  /\ \A r \in Core : q.age[r] # Stale

Invalidated(q) ==
  [q EXCEPT !.age = [r \in Regs |-> Stale], !.from = [r \in Regs |-> NoOrigin]]

\* Mutants: a new epoch that keeps the number of the old one; an abort that keeps the
\* pending writes; next() without its look at in_flight; a round one register too long;
\* a watchdog that only starts again.
SameEpoch(q) == [Invalidated(q) EXCEPT !.writes = <<>>, !.pos = 0, !.verifying = FALSE]
AbortedLater(q) == [Invalidated(q) EXCEPT !.verifying = FALSE]
CanAlwaysSend(q) == ~q.maintenance /\ q.wait = 0
AdvanceTooFar(q) ==
  IF q.poll = NumRegs THEN [q EXCEPT !.poll = 0, !.wait = PollPause]
                      ELSE [q EXCEPT !.poll = q.poll + 1, !.wait = 0]
ProlongedScan(s) == [s EXCEPT !.lease = Watchdog]
\* A new epoch: the values go, the pending writes go, and the transaction in flight
\* is one of the past (its epoch is compared and never read otherwise).
NewEpoch(q) ==
  [Invalidated(q) EXCEPT !.writes = <<>>, !.pos = 0, !.verifying = FALSE,
     !.tx = IF InFlight(q) THEN [q.tx EXCEPT !.current = FALSE] ELSE NoTx]

ChangeAddress(q, a) == [NewEpoch(q) EXCEPT !.requested = a, !.wait = Quiet]
PauseForMaintenance(q) == [NewEpoch(q) EXCEPT !.maintenance = TRUE]
ResumeAfterFailure(q) == [Invalidated(q) EXCEPT !.maintenance = FALSE, !.poll = 0]

\* The pending command is given up, and no value is trusted.
Aborted(q) == [Invalidated(q) EXCEPT !.writes = <<>>, !.pos = 0, !.verifying = FALSE]

\* What next() prepares before it chooses: the requested address becomes the active
\* one, and a command whose state went stale is aborted.
Switched(q) == IF q.active = q.requested THEN q ELSE [q EXCEPT !.active = q.requested, !.poll = 0]
Prepared(q) ==
  LET s == Switched(q) IN IF s.writes # <<>> /\ ~Ready(s) THEN Aborted(s) ELSE s

CanSend(q) == ~q.maintenance /\ ~InFlight(q) /\ q.wait = 0

\* The prepared record with its next transaction in flight.
WithNext(q) ==
  LET s == Prepared(q) IN
  [s EXCEPT !.tx =
    IF s.writes # <<>>
    THEN LET w == s.writes[s.pos + 1] IN
         [slave |-> s.active, function |-> IF s.verifying THEN 3 ELSE 6,
          reg |-> w.reg, value |-> w.value, current |-> TRUE]
    ELSE [slave |-> s.active, function |-> 3, reg |-> s.poll, value |-> 1, current |-> TRUE]]

FinishStale(q) == [q EXCEPT !.tx = NoTx, !.wait = Quiet, !.poll = 0]

AdvancePoll(q) ==
  IF q.poll + 1 = NumRegs THEN [q EXCEPT !.poll = 0, !.wait = PollPause]
                          ELSE [q EXCEPT !.poll = q.poll + 1, !.wait = 0]

Failure(q) ==
  LET ended == [q EXCEPT !.tx = NoTx] IN
  CASE ~InFlight(q) -> q
    [] InFlight(q) /\ ~q.tx.current -> FinishStale(q)
    [] InFlight(q) /\ q.tx.current /\ (q.writes # <<>> \/ q.tx.reg \in Core) ->
         [Aborted(ended) EXCEPT !.poll = 0, !.wait = Quiet]
    [] OTHER ->
         [AdvancePoll(ended) EXCEPT !.age[q.tx.reg] = Stale, !.from[q.tx.reg] = NoOrigin,
                                    !.wait = Quiet]

\* The readback of a write that says `value`.
ReadBack(q, value) ==
  IF value # q.tx.value
  THEN [Aborted([q EXCEPT !.tx = NoTx]) EXCEPT !.poll = 0, !.wait = Quiet]
  ELSE [q EXCEPT !.tx = NoTx, !.verifying = FALSE, !.wait = 0,
                 !.writes = IF q.pos + 1 = Len(q.writes) THEN <<>> ELSE q.writes,
                 !.pos = IF q.pos + 1 = Len(q.writes) THEN 0 ELSE q.pos + 1]

\* A reply from origin = <<slave, register>>; `good` if it has the form and the range
\* the transaction asks for.
Response(q, good, value, origin) ==
  LET seen == [q EXCEPT !.age[q.tx.reg] = 0, !.from[q.tx.reg] = origin] IN
  CASE ~InFlight(q) -> q
    [] InFlight(q) /\ ~q.tx.current -> FinishStale(q)
    [] InFlight(q) /\ q.tx.current /\ ~good -> Failure(q)
    [] InFlight(q) /\ q.tx.current /\ good /\ q.tx.function = 6 ->
         [q EXCEPT !.tx = NoTx, !.verifying = TRUE, !.wait = 0]
    [] OTHER -> IF q.verifying THEN ReadBack(seen, value)
                               ELSE AdvancePoll([seen EXCEPT !.tx = NoTx])
------------------------------------------------------------------------------
(* scanner.h *)

Idle == [phase |-> "idle", slave |-> 0, reg |-> 0, left |-> 0, lease |-> 0,
         outcome |-> "none", origin |-> NoOrigin]
Busy == sc.phase # "idle"
Begun(slave, reg) ==
  [Idle EXCEPT !.phase = "drain", !.slave = slave, !.reg = reg, !.lease = Watchdog,
               !.outcome = "gateway_error"]
AbortedScan(s) ==
  [s EXCEPT !.phase = "cooldown", !.left = Quiet, !.lease = Watchdog,
            !.outcome = "gateway_error", !.origin = NoOrigin]
Finished(s, outcome, origin) ==
  [s EXCEPT !.phase = "cooldown", !.left = Quiet, !.outcome = outcome, !.origin = origin]
------------------------------------------------------------------------------
\* load() of the stored address, which may fail.
Loaded(stored, failed) == IF failed THEN Default ELSE stored

Setup(a) ==
  [requested |-> a, active |-> a, maintenance |-> FALSE, verifying |-> FALSE, tx |-> NoTx,
   writes |-> <<>>, pos |-> 0, poll |-> 0, wait |-> Quiet,
   age |-> [r \in Regs |-> Stale], from |-> [r \in Regs |-> NoOrigin]]

Init ==
  /\ flash \in Slaves /\ pending = flash /\ unstored \in BOOLEAN
  /\ p = Setup(Loaded(flash, unstored)) /\ sc = Idle
  /\ fault = FALSE /\ reset = FALSE /\ result = "other"
  /\ frames = <<>> /\ late = {} /\ ran = TRUE /\ unsent = 0

\* setup() after a restart that finds the address `stored`.
Restart(stored) ==
  /\ unstored' \in BOOLEAN /\ p' = Setup(Loaded(stored, unstored'))
  /\ sc' = Idle /\ flash' = stored /\ pending' = stored
  /\ fault' = FALSE /\ reset' = FALSE /\ result' = "other"
  /\ frames' = <<>> /\ late' = {} /\ ran' = TRUE /\ unsent' = 0

\* Power comes back: what was not flushed is gone.
Reboot == Restart(flash)

Less(n) == IF n = 0 THEN 0 ELSE n - 1

\* One unit of time, in which the main loop has run at least once.
Tick ==
  /\ ran /\ ran' = FALSE
  /\ p' = [p EXCEPT !.wait = Less(p.wait),
                    !.age = [r \in Regs |-> IF p.age[r] = Stale THEN Stale ELSE p.age[r] + 1],
                    !.from = [r \in Regs |-> IF p.age[r] >= Fresh THEN NoOrigin ELSE p.from[r]]]
  /\ sc' = [sc EXCEPT !.left = Less(sc.left), !.lease = Less(sc.lease)]
  /\ late' = {}
  /\ UNCHANGED <<fault, reset, pending, flash, result, frames, unsent, unstored>>

Frame(src, slave, function, reg) ==
  [src |-> src, slave |-> slave, function |-> function, reg |-> reg]

\* The part of loop() behind the WiFi reset, without a probe: next() and its frame.
PollOrWrite(q) ==
  /\ UNCHANGED <<sc, fault>>
  /\ \/ ~CanSend(q) /\ p' = q /\ UNCHANGED <<frames, unsent>>
     \/ /\ CanSend(q)
        /\ LET s == WithNext(q) IN
           \/ /\ p' = s
              /\ frames' = Append(frames, Frame("protocol", s.tx.slave, s.tx.function, s.tx.reg))
              /\ unsent' = IF s.tx.function = 6 THEN unsent - 1 ELSE unsent
           \/ p' = Failure(s) /\ UNCHANGED <<frames, unsent>>   \* the hub takes no frame
  /\ result' = IF p'.writes # p.writes THEN "other" ELSE result

\* The same part with a probe: the watchdog, its frame, its publication.
Scan ==
  LET expired == sc.lease = 0
      s == IF expired THEN AbortedScan(sc) ELSE sc
      q == IF expired THEN PauseForMaintenance(p) ELSE p
  IN
  /\ fault' = (fault \/ expired) /\ p' = q
  /\ UNCHANGED <<result, unsent>>
  /\ \/ /\ s.phase = "drain"
        /\ sc' = IF InFlight(q) THEN s ELSE [s EXCEPT !.phase = "quiet", !.left = Quiet]
        /\ UNCHANGED frames
     \/ /\ s.phase = "quiet" /\ s.left = 0
        /\ \/ /\ sc' = [s EXCEPT !.phase = "in_flight"]
              /\ frames' = Append(frames, Frame("scanner", s.slave, 3, s.reg))
           \/ sc' = Finished(s, "gateway_error", NoOrigin) /\ UNCHANGED frames
     \/ s.phase = "cooldown" /\ s.left = 0 /\ sc' = Idle /\ UNCHANGED frames
     \/ /\ s.phase = "in_flight" \/ (s.phase \in {"quiet", "cooldown"} /\ s.left > 0)
        /\ sc' = s /\ UNCHANGED frames

Loop ==
  /\ \/ /\ ~(reset /\ ~InFlight(p)) /\ UNCHANGED <<reset, flash>>
        /\ \/ Busy /\ Scan
           \/ ~Busy /\ PollOrWrite(p)
     \* The credentials could not be forgotten.  No probe is busy: each refuses the other.
     \/ /\ reset /\ ~InFlight(p) /\ reset' = FALSE
        /\ flash' \in {flash, pending}   \* the first step of forgetting flushes
        /\ PollOrWrite(ResumeAfterFailure(p))
  /\ ran' = TRUE /\ UNCHANGED <<pending, late, unstored>>

\* loop() with the preferences flushed and the credentials erased and committed.
LoopReboots == reset /\ ~InFlight(p) /\ Restart(pending)
------------------------------------------------------------------------------
(* The handlers of the user and of HA. *)

ScannerProbe(slave, reg) ==
  /\ sc' = IF fault \/ reset \/ p.maintenance \/ p.writes # <<>> \/ Busy
           THEN sc ELSE Begun(slave, reg)
  /\ UNCHANGED <<p, fault, reset, pending, flash, result, frames, late, ran, unsent, unstored>>

RequestWifiReset ==
  /\ ~Busy /\ ~reset
  /\ reset' = TRUE /\ p' = PauseForMaintenance(p) /\ result' = "other"
  /\ UNCHANGED <<sc, fault, pending, flash, frames, late, ran, unsent, unstored>>

\* What save() of address a and sync() make of the preference m: either may fail, and
\* a sync that fails may have written.
Stores(m, a, saved, synced) ==
  LET s == IF saved THEN [m EXCEPT !.pending = a] ELSE m
      t == [s EXCEPT !.flash = s.pending]
  IN IF synced THEN {t} ELSE {s, t}

\* Mutant: the refused address stays where the failed change left it.
LeftPending(m, saved, synced) == {m}

\* After a failed change the address in force is saved and flushed again, so that no
\* later flush stores the refused one.
RolledBack(m, saved, synced) == Stores(m, p.requested, saved, synced)

RequestAddress(a) ==
  /\ result' = "other"
  /\ \/ (Busy \/ p.maintenance) /\ UNCHANGED <<p, pending, flash, unstored>>
     \/ /\ ~Busy /\ ~p.maintenance /\ a # p.requested
        /\ p' = ChangeAddress(p, a) /\ pending' = a /\ flash' = a /\ unstored' = FALSE
     \* save or sync failed: no sync follows a failed save
     \/ /\ ~Busy /\ ~p.maintenance /\ a # p.requested /\ UNCHANGED p
        /\ LET m == [pending |-> pending, flash |-> flash] IN
           \E tried \in {m} \cup Stores(m, a, TRUE, FALSE), saved, synced \in BOOLEAN :
           \E left \in RolledBack(tried, saved, synced) :
             /\ pending' = left.pending /\ flash' = left.flash
             /\ unstored' = ~(saved /\ synced)
  /\ UNCHANGED <<sc, fault, reset, frames, late, ran, unsent>>

\* A preference that some other save left pending is flushed.
Flush ==
  /\ flash' = pending
  /\ UNCHANGED <<p, sc, fault, reset, pending, result, frames, late, ran, unsent, unstored>>

Command(ws) ==
  /\ result' = "other"
  /\ IF Ready(p) /\ p.writes = <<>> /\ ~Busy
     THEN p' = [p EXCEPT !.writes = ws, !.pos = 0] /\ unsent' = Len(ws)
     ELSE UNCHANGED <<p, unsent>>
  /\ UNCHANGED <<sc, fault, reset, pending, flash, frames, late, ran, unstored>>
------------------------------------------------------------------------------
(* The hub's terminal callbacks, which do not name the frame they end.            *)

OnWire == Head(frames)
Reply(f) == [slave |-> f.slave, function |-> f.function, reg |-> f.reg]

\* The reply is the right readback of the last write.
Confirms(q, good, value) ==
  /\ InFlight(q) /\ q.tx.current /\ good /\ q.verifying
  /\ value = q.tx.value /\ q.pos + 1 = Len(q.writes)

\* on_response with a reply r.
OnResponse(r, good, value) ==
  LET origin == <<r.slave, r.reg>> IN
  IF sc.phase = "in_flight"
  THEN /\ sc' = IF good THEN Finished(sc, "responded", origin)
                        ELSE Finished(sc, "gateway_error", NoOrigin)
       /\ UNCHANGED <<p, result>>
  ELSE /\ p' = Response(p, good, value, origin)
       /\ result' = CASE Confirms(p, good, value) -> "confirmed"
                      [] ~Confirms(p, good, value) /\ p'.writes # p.writes -> "other"
                      [] OTHER -> result
       /\ UNCHANGED sc

\* on_error, on_no_response and on_not_sent.
OnFailure(outcome) ==
  IF sc.phase = "in_flight"
  THEN sc' = Finished(sc, outcome, NoOrigin) /\ UNCHANGED <<p, result>>
  ELSE /\ p' = Failure(p) /\ UNCHANGED sc
       /\ result' = IF p.writes # p'.writes THEN "other" ELSE result

HubReplies(good, value) ==
  /\ frames # <<>> /\ frames' = Tail(frames)
  /\ \/ OnResponse(Reply(OnWire), good, value) /\ UNCHANGED late
     \* A late reply of the same slave to the same function is taken for this one's.
     \/ \E r \in late :
          /\ r.slave = OnWire.slave /\ r.function = OnWire.function
          /\ OnResponse(r, good, value)
          /\ late' = (late \ {r}) \cup {Reply(OnWire)}
  /\ UNCHANGED <<fault, reset, pending, flash, ran, unsent, unstored>>

HubFails(outcome) ==
  /\ frames # <<>> /\ frames' = Tail(frames)
  /\ OnFailure(outcome)
  /\ late' = IF outcome = "timeout" THEN late \cup {Reply(OnWire)} ELSE late
  /\ UNCHANGED <<fault, reset, pending, flash, ran, unsent, unstored>>

Next ==
  \/ Tick \/ Loop \/ LoopReboots \/ Reboot \/ RequestWifiReset \/ Flush
  \/ \E s \in Slaves : RequestAddress(s) \/ \E r \in Regs : ScannerProbe(s, r)
  \/ \E ws \in Commands : Command(ws)
  \/ \E good \in BOOLEAN, v \in Values : HubReplies(good, v)
  \/ \E o \in {"timeout", "modbus_exception", "gateway_error"} : HubFails(o)

Spec == Init /\ [][Next]_vars

\* The main loop runs and time passes; the hub may hang for ever.
FairSpec == Spec /\ WF_vars(Tick) /\ WF_vars(Loop)
------------------------------------------------------------------------------
(* Properties. *)

Origins == {NoOrigin} \cup (Slaves \X Regs)
Transactions ==
  [slave : Slaves, function : {3, 6}, reg : Regs, value : Values \cup {1}, current : BOOLEAN]

ProtocolStates ==
  [requested : Slaves, active : Slaves, maintenance : BOOLEAN, verifying : BOOLEAN,
   tx : Transactions \cup {NoTx}, writes : Commands \cup {<<>>}, pos : Nat, poll : Regs,
   wait : 0..(Quiet + PollPause), age : [Regs -> 0..Stale], from : [Regs -> Origins]]
ScannerStates ==
  [phase : {"idle", "drain", "quiet", "in_flight", "cooldown"}, slave : Slaves \cup {0},
   reg : Regs, left : 0..Quiet, lease : 0..Watchdog,
   outcome : {"none", "responded", "timeout", "modbus_exception", "gateway_error"},
   origin : Origins]
Replies == [slave : Slaves, function : {3, 6}, reg : Regs]
Frames == [src : {"protocol", "scanner"}, slave : Slaves, function : {3, 6}, reg : Regs]

TypeOK ==
  /\ p \in ProtocolStates /\ p.pos <= Len(p.writes)
  /\ sc \in ScannerStates
  /\ frames \in Seq(Frames) /\ late \in SUBSET Replies
  /\ ran \in BOOLEAN /\ fault \in BOOLEAN /\ reset \in BOOLEAN
  /\ result \in {"confirmed", "other"} /\ unsent \in Int
  /\ pending \in Slaves /\ flash \in Slaves /\ unstored \in BOOLEAN

\* While no watchdog has fired, at most one frame is in the hub, and whoever waits for
\* a callback is its sender: the probe in flight or the transaction in flight.  A WiFi
\* reset never meets a probe.
OneMaster ==
  /\ ~(reset /\ Busy)
  /\ ~fault =>
    /\ Len(frames) <= 1
    /\ sc.phase = "in_flight" <=> \E k \in DOMAIN frames : frames[k].src = "scanner"
    /\ InFlight(p) <=> \E k \in DOMAIN frames : frames[k].src = "protocol"

\* A fresh value was read from that register of the slave that is asked for, and the
\* answer of a probe came from its own slave and register: no late reply, no reply of
\* an older address and no reply to the other party is taken for it.
ValuesTrue ==
  /\ ~(fault /\ ~p.maintenance) =>
       \A r \in Regs : p.age[r] # Stale => p.from[r] = <<p.requested, r>>
  /\ sc.outcome = "responded" => sc.origin = <<sc.slave, sc.reg>>

\* Each write of a command is sent at most once, whatever fails, and a command is
\* confirmed only when all of its writes were sent.
WritesOnce ==
  /\ p.writes # <<>> =>
       Len(p.writes) - unsent = p.pos + IF p.verifying \/ p.tx.function = 6 THEN 1 ELSE 0
  /\ result = "confirmed" => unsent = 0

\* While every load worked and the last rollback, if one was needed, did, the stored
\* address is the one in force and nothing else waits to be flushed: a failed change
\* leaves no trace, even one that wrote before it failed.  (request_address)
AddressStored == ~unstored => flash = p.requested /\ pending = p.requested

\* What a user commanded is done once, said to be done only then, and stays done.
CommandsTrue == WritesOnce /\ AddressStored

\* Every accepted probe is answered, even if the hub hangs.
EveryProbeAnswered == Busy ~> ~Busy

\* guanjie.cpp, loop(): "Scanner watchdog: transport state unknown; further reads blocked".
FaultBlocksReads == [][fault => Len(frames') <= Len(frames)]_vars
==============================================================================
