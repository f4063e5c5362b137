---------------------------- MODULE GuanjieProofs ----------------------------
(* Proofs about Guanjie for every set of slaves, registers, commands and times.  *)
(* First each method of protocol.h and scanner.h as an operator on its record    *)
(* (Sound(q)), then the inductive invariant Inv, one lemma per action, and the   *)
(* theorems.                                                                     *)
EXTENDS Guanjie, TLAPS, SequenceTheorems
------------------------------------------------------------------------------
\* No value of the record is trusted.
AllStale(q) == \A r \in Regs : q.age[r] = Stale

\* The record has its type.
ProtocolTypes(q) == q \in ProtocolStates /\ q.pos <= Len(q.writes)

\* What relates the parts of the record: the position and the writes, the readback and
\* the writes, the epoch of the transaction and the values.
ProtocolInv(q) ==
  /\ q.writes # <<>> => q.pos < Len(q.writes)
  /\ q.verifying => q.writes # <<>> /\ q.tx.function # 6
  /\ InFlight(q) /\ ~q.tx.current => q.writes = <<>> /\ AllStale(q)
  /\ InFlight(q) /\ q.tx.current =>
       q.tx.slave = q.requested /\ (q.tx.function = 6 => q.writes # <<>>)
  /\ q.maintenance => q.writes = <<>> /\ AllStale(q) /\ ~q.tx.current

\* What every method keeps.
Sound(q) == ProtocolTypes(q) /\ ProtocolInv(q)

\* Writes of the command in hand that were queued.
Sent(q) == q.pos + IF q.verifying \/ q.tx.function = 6 THEN 1 ELSE 0

\* What the assumptions say of the constants: the registers start with the core ones.
LEMMA Constants ==
  /\ NumRegs \in Nat /\ NumCore \in Nat /\ 0 < NumCore /\ NumCore <= NumRegs
  /\ Core \subseteq Regs /\ 0 \in Regs /\ 0 \in Core /\ Fresh \in Nat /\ Stale = Fresh + 1 /\ PollPause \in Nat
  /\ \A r \in Regs : r \in Nat
  BY GuanjieAssumption DEF Core, Regs, Stale

\* A command has at least one write, and each write a register and a value of the model.
LEMMA CommandTypes ==
  ASSUME NEW c \in Commands
  PROVE  /\ c # <<>> /\ Len(c) \in Nat
         /\ \A k \in 1..Len(c) : c[k].reg \in Regs /\ c[k].value \in Values
<1>1. c \in Seq([reg : Regs, value : Nat]) /\ c # <<>>
  BY CommandsAssumption
<1>2. ASSUME NEW k \in 1..Len(c) PROVE c[k].reg \in Regs /\ c[k].value \in Values
  <2> DEFINE T == [reg : Regs, value : Nat]
  <2>1. c[k] \in T /\ k \in DOMAIN c
    <3> c \in Seq(T)
      BY <1>1
    <3> HIDE DEF T
    <3> QED
      OBVIOUS
  <2>2. c[k] \in UNION {{d[j] : j \in DOMAIN d} : d \in Commands}
    BY <2>1
  <2>3. QED
    BY <2>1, <2>2 DEF Values
<1>3. QED
  BY <1>1, <1>2

\* No transaction is in flight when the record says NoTx.
LEMMA NoTxFacts ==
  ASSUME NEW t \in Transactions
  PROVE t # NoTx /\ t \in [slave : Slaves, function : {3, 6}, reg : Regs, value : Values \cup {1}, current : BOOLEAN]
  BY DEF Transactions, NoTx

\* A new epoch keeps the record sound: the values and the writes go, and the
\* frame in the hub stays in flight as one of the past, with its slave and register.
LEMMA NewEpochSound ==
  ASSUME NEW q, Sound(q)
  PROVE  LET n == NewEpoch(q) IN
         /\ Sound(n) /\ AllStale(n) /\ n.writes = <<>> /\ ~n.tx.current
         /\ InFlight(n) <=> InFlight(q)
         /\ n.tx.slave = q.tx.slave /\ n.tx.reg = q.tx.reg
         /\ n.wait = q.wait /\ n.requested = q.requested
<1> DEFINE n == NewEpoch(q)
<1>1. q \in ProtocolStates
  BY DEF Sound, ProtocolTypes
<1> DEFINE past == IF InFlight(q) THEN [q.tx EXCEPT !.current = FALSE] ELSE NoTx
<1>3. /\ past \in Transactions \cup {NoTx} /\ (past # NoTx <=> InFlight(q))
      /\ past.slave = q.tx.slave /\ past.reg = q.tx.reg /\ ~past.current
  <2>1. CASE ~InFlight(q)
    BY <2>1 DEF InFlight, NoTx
  <2>2. CASE InFlight(q)
    <3>1. q.tx \in Transactions /\ past = [q.tx EXCEPT !.current = FALSE]
      BY <1>1, <2>2 DEF InFlight, ProtocolStates
    <3> HIDE DEF past
    <3>2. past \in Transactions /\ past.slave = q.tx.slave /\ past.reg = q.tx.reg /\ ~past.current
      BY <3>1 DEF Transactions
    <3>3. QED
      BY <2>2, <3>2, NoTxFacts
  <2>3. QED
    BY <2>1, <2>2
<1> HIDE DEF past
<1>4. /\ n.requested = q.requested /\ n.wait = q.wait /\ n.tx = past
      /\ n.writes = <<>> /\ n.pos = 0 /\ n.verifying = FALSE /\ n.age = [r \in Regs |-> Stale]
  BY <1>1 DEF NewEpoch, Invalidated, ProtocolStates, past
<1>5. ProtocolTypes(n)
  <2>1. [r \in Regs |-> Stale] \in [Regs -> 0..Stale] /\ [r \in Regs |-> NoOrigin] \in [Regs -> Origins]
    BY Constants DEF Origins
  <2>2. n \in ProtocolStates
    BY <1>1, <1>3, <2>1 DEF ProtocolStates, NewEpoch, Invalidated, past
  <2>3. QED
    BY <1>4, <2>2 DEF ProtocolTypes
<1>6. AllStale(n)
  BY <1>4 DEF AllStale
<1> HIDE DEF n
<1>7. ~n.verifying /\ n.writes = <<>> /\ ~n.tx.current
  BY <1>3, <1>4
<1>8. ProtocolInv(n)
  BY <1>6, <1>7 DEF ProtocolInv
<1>9. InFlight(n) <=> InFlight(q)
  BY <1>3, <1>4 DEF InFlight
<1>10. QED
  BY <1>3, <1>4, <1>5, <1>6, <1>7, <1>8, <1>9 DEF Sound, n

\* Record fields that the steps reset have their types.
LEMMA StaleTypes ==
  /\ [r \in Regs |-> Stale] \in [Regs -> 0..Stale]
  /\ [r \in Regs |-> NoOrigin] \in [Regs -> Origins]
  /\ 0 \in 0..Stale /\ Stale \in 0..Stale
  /\ Quiet = 1 /\ {0, Quiet, PollPause} \subseteq 0..(Quiet + PollPause)
  BY Constants DEF Origins, Quiet

\* change_address: a new epoch for the new address, after a quiet interval.
LEMMA ChangeAddressSound ==
  ASSUME NEW q, Sound(q), NEW a \in Slaves
  PROVE  LET n == ChangeAddress(q, a) IN
         /\ Sound(n) /\ AllStale(n) /\ n.writes = <<>> /\ ~n.tx.current
         /\ InFlight(n) <=> InFlight(q)
         /\ n.tx.slave = q.tx.slave /\ n.tx.reg = q.tx.reg
         /\ n.wait = Quiet /\ n.requested = a
<1> DEFINE e == NewEpoch(q)
           n == ChangeAddress(q, a)
<1>1. /\ Sound(e) /\ AllStale(e) /\ e.writes = <<>> /\ ~e.tx.current
      /\ InFlight(e) <=> InFlight(q)
      /\ e.tx.slave = q.tx.slave /\ e.tx.reg = q.tx.reg
  BY NewEpochSound
<1>2. n = [e EXCEPT !.requested = a, !.wait = Quiet]
  BY DEF ChangeAddress
<1> HIDE DEF e, n
<1>3. e \in ProtocolStates
  BY <1>1 DEF Sound, ProtocolTypes
<1>4. /\ n.tx = e.tx /\ n.writes = e.writes /\ n.pos = e.pos /\ n.age = e.age
      /\ n.verifying = e.verifying /\ n.wait = Quiet /\ n.requested = a
      /\ n.maintenance = e.maintenance
  BY <1>2, <1>3 DEF ProtocolStates
<1>5. n \in ProtocolStates
  BY <1>2, <1>3, StaleTypes DEF ProtocolStates
<1>6. AllStale(n)
  BY <1>1, <1>4 DEF AllStale
<1>7. Sound(n)
  BY <1>1, <1>4, <1>5, <1>6 DEF Sound, ProtocolTypes, ProtocolInv, InFlight
<1>8. InFlight(n) <=> InFlight(q)
  BY <1>1, <1>4 DEF InFlight
<1>9. QED
  BY <1>1, <1>4, <1>6, <1>7, <1>8 DEF n

\* pause_for_maintenance: a new epoch in which nothing is sent.
LEMMA PauseSound ==
  ASSUME NEW q, Sound(q)
  PROVE  LET n == PauseForMaintenance(q) IN
         /\ Sound(n) /\ AllStale(n) /\ n.writes = <<>> /\ ~n.tx.current
         /\ InFlight(n) <=> InFlight(q)
         /\ n.tx.slave = q.tx.slave /\ n.tx.reg = q.tx.reg
         /\ n.wait = q.wait /\ n.requested = q.requested /\ n.maintenance
<1> DEFINE e == NewEpoch(q)
           n == PauseForMaintenance(q)
<1>1. /\ Sound(e) /\ AllStale(e) /\ e.writes = <<>> /\ ~e.tx.current
      /\ InFlight(e) <=> InFlight(q)
      /\ e.tx.slave = q.tx.slave /\ e.tx.reg = q.tx.reg
      /\ e.wait = q.wait /\ e.requested = q.requested
  BY NewEpochSound
<1>2. n = [e EXCEPT !.maintenance = TRUE]
  BY DEF PauseForMaintenance
<1> HIDE DEF e, n
<1>3. e \in ProtocolStates
  BY <1>1 DEF Sound, ProtocolTypes
<1>4. /\ n.tx = e.tx /\ n.writes = e.writes /\ n.pos = e.pos /\ n.age = e.age
      /\ n.verifying = e.verifying /\ n.wait = e.wait /\ n.requested = e.requested /\ n.maintenance
  BY <1>2, <1>3 DEF ProtocolStates
<1>5. n \in ProtocolStates
  BY <1>2, <1>3 DEF ProtocolStates
<1>6. AllStale(n)
  BY <1>1, <1>4 DEF AllStale
<1>7. Sound(n)
  BY <1>1, <1>4, <1>5, <1>6 DEF Sound, ProtocolTypes, ProtocolInv, InFlight
<1>8. InFlight(n) <=> InFlight(q)
  BY <1>1, <1>4 DEF InFlight
<1>9. QED
  BY <1>1, <1>4, <1>6, <1>7, <1>8 DEF n

\* resume_after_maintenance_failure: nothing is trusted, and the frame and writes in hand stay.
LEMMA ResumeSound ==
  ASSUME NEW q, Sound(q)
  PROVE  LET n == ResumeAfterFailure(q) IN
         /\ Sound(n) /\ AllStale(n)
         /\ n.tx = q.tx /\ n.wait = q.wait /\ n.requested = q.requested
         /\ n.writes = q.writes /\ Sent(n) = Sent(q)
<1> DEFINE n == ResumeAfterFailure(q)
<1>1. q \in ProtocolStates
  BY DEF Sound, ProtocolTypes
<1>2. n = [q EXCEPT !.age = [r \in Regs |-> Stale], !.from = [r \in Regs |-> NoOrigin],
                    !.maintenance = FALSE, !.poll = 0]
  BY <1>1 DEF ResumeAfterFailure, Invalidated, ProtocolStates
<1> HIDE DEF n
<1>3. /\ n.tx = q.tx /\ n.wait = q.wait /\ n.requested = q.requested
      /\ n.writes = q.writes /\ n.pos = q.pos /\ n.verifying = q.verifying
      /\ n.age = [r \in Regs |-> Stale] /\ ~n.maintenance
  BY <1>1, <1>2 DEF ProtocolStates
<1>4. n \in ProtocolStates
  BY <1>1, <1>2, StaleTypes, Constants DEF ProtocolStates
<1>5. AllStale(n)
  BY <1>3 DEF AllStale
<1>6. Sound(n)
  BY <1>3, <1>4, <1>5 DEF Sound, ProtocolTypes, ProtocolInv, InFlight
<1>7. Sent(n) = Sent(q)
  BY <1>3 DEF Sent
<1>8. QED
  BY <1>3, <1>5, <1>6, <1>7 DEF n

\* A command given up with no transaction in flight: no write and no value is left.
LEMMA AbortedSound ==
  ASSUME NEW q, Sound(q), q.tx = NoTx
  PROVE  LET n == Aborted(q) IN
         /\ Sound(n) /\ AllStale(n) /\ n.tx = NoTx
         /\ n.wait = q.wait /\ n.requested = q.requested /\ n.writes = <<>> /\ ~n.verifying
         /\ n.active = q.active /\ n.poll = q.poll /\ n.maintenance = q.maintenance
<1> DEFINE n == Aborted(q)
<1>1. q \in ProtocolStates
  BY DEF Sound, ProtocolTypes
<1>2. n = [q EXCEPT !.age = [r \in Regs |-> Stale], !.from = [r \in Regs |-> NoOrigin],
                    !.writes = <<>>, !.pos = 0, !.verifying = FALSE]
  BY <1>1 DEF Aborted, Invalidated, ProtocolStates
<1> HIDE DEF n
<1>3. /\ n.tx = q.tx /\ n.wait = q.wait /\ n.requested = q.requested
      /\ n.writes = <<>> /\ n.pos = 0 /\ ~n.verifying
      /\ n.age = [r \in Regs |-> Stale]
      /\ n.active = q.active /\ n.poll = q.poll /\ n.maintenance = q.maintenance
  BY <1>1, <1>2 DEF ProtocolStates
<1>4. n \in ProtocolStates
  BY <1>1, <1>2, StaleTypes DEF ProtocolStates
<1>5. AllStale(n)
  BY <1>3 DEF AllStale
<1>6. ~InFlight(n) /\ ~n.tx.current
  BY <1>3 DEF InFlight, NoTx
<1>7. ProtocolInv(n)
  BY <1>3, <1>5, <1>6 DEF ProtocolInv
<1>8. Sound(n)
  BY <1>3, <1>4, <1>7 DEF Sound, ProtocolTypes
<1>9. QED
  BY <1>3, <1>5, <1>8 DEF n

\* What next() prepares asks the requested address, and keeps the writes or gives all up.
LEMMA PreparedSound ==
  ASSUME NEW q, Sound(q), CanSend(q)
  PROVE  LET s == Prepared(q) IN
         /\ Sound(s) /\ s.tx = NoTx /\ s.active = s.requested /\ s.requested = q.requested
         /\ s.wait = q.wait /\ ~s.maintenance
         /\ \/ s.writes = q.writes /\ Sent(s) = Sent(q) /\ s.age = q.age /\ s.from = q.from
            \/ s.writes = <<>> /\ AllStale(s)
<1> DEFINE w == Switched(q)
           s == Prepared(q)
<1>1. q \in ProtocolStates /\ q.tx = NoTx /\ ~q.maintenance
  BY DEF Sound, ProtocolTypes, CanSend, InFlight
<1>2. /\ w \in ProtocolStates /\ w.tx = NoTx /\ w.active = w.requested
      /\ w.requested = q.requested /\ w.wait = q.wait /\ ~w.maintenance
      /\ w.writes = q.writes /\ w.pos = q.pos /\ w.verifying = q.verifying
      /\ w.age = q.age /\ w.from = q.from
  <2>1. CASE q.active = q.requested
    BY <1>1, <2>1 DEF Switched
  <2>2. CASE q.active # q.requested
    BY <1>1, <2>2, Constants DEF Switched, ProtocolStates
  <2>3. QED
    BY <2>1, <2>2
<1> HIDE DEF w
<1>3. Sound(w) /\ Sent(w) = Sent(q)
  BY <1>1, <1>2 DEF Sound, ProtocolTypes, ProtocolInv, InFlight, AllStale, Sent
<1>4. CASE s = w
  BY <1>2, <1>3, <1>4
<1>5. CASE s = Aborted(w)
  BY <1>2, <1>3, <1>5, AbortedSound
<1>6. s = w \/ s = Aborted(w)
  BY DEF Prepared, w
<1>7. QED
  BY <1>4, <1>5, <1>6

\* next(): the transaction asks the requested slave, and a write it queues is counted once.
LEMMA WithNextSound ==
  ASSUME NEW q, Sound(q), CanSend(q)
  PROVE  LET n == WithNext(q) IN
         /\ Sound(n) /\ InFlight(n) /\ n.tx.current /\ n.requested = q.requested
         /\ n.tx \in Transactions
         /\ \/ n.age = q.age /\ n.from = q.from
            \/ AllStale(n)
         /\ \/ n.writes = <<>> /\ n.tx.function = 3
            \/ n.writes = q.writes /\ q.writes # <<>>
                 /\ Sent(n) = Sent(q) + IF n.tx.function = 6 THEN 1 ELSE 0
<1> DEFINE s == Prepared(q)
           n == WithNext(q)
           w == s.writes[s.pos + 1]
           tx == IF s.writes # <<>>
                 THEN [slave |-> s.active, function |-> IF s.verifying THEN 3 ELSE 6,
                       reg |-> w.reg, value |-> w.value, current |-> TRUE]
                 ELSE [slave |-> s.active, function |-> 3, reg |-> s.poll, value |-> 1, current |-> TRUE]
<1>1. /\ Sound(s) /\ s.tx = NoTx /\ s.active = s.requested /\ s.requested = q.requested
      /\ s.wait = q.wait /\ ~s.maintenance
      /\ \/ s.writes = q.writes /\ Sent(s) = Sent(q) /\ s.age = q.age /\ s.from = q.from
         \/ s.writes = <<>> /\ AllStale(s)
  BY PreparedSound
<1>2. n = [s EXCEPT !.tx = tx]
  BY DEF WithNext
<1> HIDE DEF s, n
<1>3. s \in ProtocolStates /\ (s.writes # <<>> => s.pos < Len(s.writes) /\ s.writes \in Commands)
  BY <1>1 DEF Sound, ProtocolTypes, ProtocolInv, ProtocolStates
<1>4. /\ tx \in Transactions /\ tx.slave = s.active /\ tx.current
      /\ tx.function = IF s.writes # <<>> /\ ~s.verifying THEN 6 ELSE 3
  <2>1. CASE s.writes # <<>>
    <3>1. s.pos + 1 \in 1..Len(s.writes)
      BY <1>3, <2>1, CommandTypes DEF ProtocolStates
    <3>2. w.reg \in Regs /\ w.value \in Values
      BY <1>3, <2>1, <3>1, CommandTypes
    <3> HIDE DEF w
    <3>3. QED
      BY <1>3, <2>1, <3>2 DEF Transactions, ProtocolStates
  <2>2. CASE s.writes = <<>>
    BY <1>3, <2>2 DEF Transactions, ProtocolStates
  <2>3. QED
    BY <2>1, <2>2
<1> HIDE DEF tx
<1>5. tx # NoTx
  BY <1>4, NoTxFacts
<1>6. /\ n.tx = tx /\ n.requested = s.requested /\ n.age = s.age /\ n.from = s.from
      /\ n.writes = s.writes /\ n.pos = s.pos /\ n.verifying = s.verifying
      /\ n.maintenance = s.maintenance /\ n \in ProtocolStates
  BY <1>2, <1>3, <1>4 DEF ProtocolStates
<1>7. ProtocolInv(n)
  BY <1>1, <1>3, <1>4, <1>5, <1>6 DEF ProtocolInv, InFlight, Sound
<1>8. Sound(n)
  BY <1>1, <1>6, <1>7 DEF Sound, ProtocolTypes
<1>9. Sent(s) = s.pos + IF s.verifying THEN 1 ELSE 0
  BY <1>1 DEF Sent, NoTx
<1>10. s.pos \in Nat
  BY <1>3 DEF ProtocolStates
<1>11. s.writes # <<>> => Sent(n) = Sent(s) + IF n.tx.function = 6 THEN 1 ELSE 0
  BY <1>4, <1>6, <1>9, <1>10 DEF Sent
<1>12. AllStale(s) => AllStale(n)
  BY <1>6 DEF AllStale
<1>13. QED
  BY <1>1, <1>4, <1>5, <1>6, <1>8, <1>11, <1>12 DEF n, InFlight

\* A record whose transaction ends stays sound.
LEMMA EndedSound ==
  ASSUME NEW q, Sound(q)
  PROVE  LET n == [q EXCEPT !.tx = NoTx] IN
         /\ Sound(n) /\ n.tx = NoTx /\ n.requested = q.requested /\ n.writes = q.writes
         /\ n.pos = q.pos /\ n.verifying = q.verifying /\ n.age = q.age /\ n.from = q.from
<1> DEFINE n == [q EXCEPT !.tx = NoTx]
<1>1. q \in ProtocolStates
  BY DEF Sound, ProtocolTypes
<1>2. /\ n \in ProtocolStates /\ n.tx = NoTx /\ n.requested = q.requested /\ n.writes = q.writes
      /\ n.pos = q.pos /\ n.verifying = q.verifying /\ n.age = q.age /\ n.from = q.from
      /\ n.maintenance = q.maintenance
  BY <1>1 DEF ProtocolStates
<1> HIDE DEF n
<1>3. NoTx.function # 6 /\ ~NoTx.current
  BY DEF NoTx
<1>4. Sound(n)
  BY <1>2, <1>3 DEF Sound, ProtocolTypes, ProtocolInv, InFlight, AllStale
<1>5. QED
  BY <1>2, <1>4 DEF n

\* advance_poll moves the round of polling and nothing else.
LEMMA AdvancePollSound ==
  ASSUME NEW q, Sound(q), q.tx = NoTx
  PROVE  LET n == AdvancePoll(q) IN
         /\ Sound(n) /\ n.tx = NoTx /\ n.requested = q.requested /\ n.writes = q.writes
         /\ Sent(n) = Sent(q) /\ n.age = q.age /\ n.from = q.from
<1> DEFINE n == AdvancePoll(q)
<1>1. q \in ProtocolStates
  BY DEF Sound, ProtocolTypes
<1>2. ~(q.poll + 1 = NumRegs) => q.poll + 1 \in Regs
  BY <1>1, Constants DEF ProtocolStates, Regs
<1>3. /\ n \in ProtocolStates /\ n.tx = NoTx /\ n.requested = q.requested /\ n.writes = q.writes
      /\ n.pos = q.pos /\ n.verifying = q.verifying /\ n.age = q.age /\ n.from = q.from
      /\ n.maintenance = q.maintenance
  BY <1>1, <1>2, Constants, StaleTypes DEF AdvancePoll, ProtocolStates
<1> HIDE DEF n
<1>4. Sound(n)
  BY <1>3 DEF Sound, ProtocolTypes, ProtocolInv, InFlight, AllStale
<1>5. Sent(n) = Sent(q)
  BY <1>3 DEF Sent
<1>6. QED
  BY <1>3, <1>4, <1>5 DEF n

\* A wait or a poll position that is set changes nothing the invariant is about.
LEMMA RetimedSound ==
  ASSUME NEW q, Sound(q), NEW n \in ProtocolStates,
         /\ n.tx = q.tx /\ n.requested = q.requested /\ n.writes = q.writes /\ n.pos = q.pos
         /\ n.verifying = q.verifying /\ n.age = q.age /\ n.maintenance = q.maintenance
  PROVE  Sound(n) /\ Sent(n) = Sent(q)
  BY DEF Sound, ProtocolTypes, ProtocolInv, InFlight, AllStale, Sent

\* finish_stale: a callback of an older epoch ends the frame and makes nothing fresh.
LEMMA FinishStaleSound ==
  ASSUME NEW q, Sound(q), InFlight(q), ~q.tx.current
  PROVE  LET n == FinishStale(q) IN
         /\ Sound(n) /\ n.tx = NoTx /\ n.requested = q.requested /\ n.writes = <<>>
         /\ n.wait = Quiet /\ n.age = q.age /\ n.from = q.from
<1> DEFINE e == [q EXCEPT !.tx = NoTx]
           n == FinishStale(q)
<1>1. /\ Sound(e) /\ e.tx = NoTx /\ e.requested = q.requested /\ e.writes = q.writes
      /\ e.age = q.age /\ e.from = q.from
  BY EndedSound
<1>2. q \in ProtocolStates /\ q.writes = <<>>
  BY DEF Sound, ProtocolTypes, ProtocolInv
<1>3. n = [e EXCEPT !.wait = Quiet, !.poll = 0]
  BY <1>2 DEF FinishStale, ProtocolStates
<1> HIDE DEF e, n
<1>4. e \in ProtocolStates
  BY <1>1 DEF Sound, ProtocolTypes
<1>5. /\ n \in ProtocolStates /\ n.tx = e.tx /\ n.requested = e.requested /\ n.writes = e.writes
      /\ n.pos = e.pos /\ n.verifying = e.verifying /\ n.age = e.age /\ n.from = e.from
      /\ n.maintenance = e.maintenance /\ n.wait = Quiet
  BY <1>3, <1>4, StaleTypes, Constants DEF ProtocolStates
<1>6. Sound(n)
  BY <1>1, <1>5, RetimedSound
<1>7. QED
  BY <1>1, <1>2, <1>5, <1>6 DEF n

\* failure(): the transaction ends, the command is given up, and no value becomes fresh.
LEMMA FailureSound ==
  ASSUME NEW q, Sound(q)
  PROVE  LET n == Failure(q) IN
         /\ Sound(n) /\ n.tx = NoTx /\ n.requested = q.requested
         /\ InFlight(q) => n.wait = Quiet /\ n.writes = <<>>
         /\ ~InFlight(q) => n = q
         /\ \A r \in Regs : n.age[r] # Stale => n.age[r] = q.age[r] /\ n.from[r] = q.from[r]
<1> DEFINE e == [q EXCEPT !.tx = NoTx]
           n == Failure(q)
<1>1. CASE ~InFlight(q)
  <2>1. n = q
    BY <1>1 DEF Failure
  <2>2. QED
    BY <1>1, <2>1 DEF InFlight
<1>2. CASE InFlight(q) /\ ~q.tx.current
  <2>1. n = FinishStale(q)
    BY <1>2 DEF Failure
  <2> HIDE DEF n
  <2>2. /\ Sound(n) /\ n.tx = NoTx /\ n.requested = q.requested /\ n.writes = <<>>
        /\ n.wait = Quiet /\ n.age = q.age /\ n.from = q.from
    BY <1>2, <2>1, FinishStaleSound
  <2>3. QED
    BY <1>2, <2>2 DEF n
<1>3. CASE InFlight(q) /\ q.tx.current /\ (q.writes # <<>> \/ q.tx.reg \in Core)
  <2> DEFINE a == Aborted(e)
  <2>1. n = [a EXCEPT !.poll = 0, !.wait = Quiet]
    BY <1>3 DEF Failure
  <2>2. Sound(e) /\ e.tx = NoTx /\ e.requested = q.requested
    BY EndedSound
  <2> HIDE DEF e, n
  <2>3. /\ Sound(a) /\ AllStale(a) /\ a.tx = NoTx /\ a.requested = e.requested /\ a.writes = <<>>
    BY <2>2, AbortedSound
  <2> HIDE DEF a
  <2>4. a \in ProtocolStates
    BY <2>3 DEF Sound, ProtocolTypes
  <2>5. /\ n \in ProtocolStates /\ n.tx = a.tx /\ n.requested = a.requested /\ n.writes = a.writes
        /\ n.pos = a.pos /\ n.verifying = a.verifying /\ n.age = a.age
        /\ n.maintenance = a.maintenance /\ n.wait = Quiet
    BY <2>1, <2>4, StaleTypes, Constants DEF ProtocolStates
  <2>6. Sound(n)
    BY <2>3, <2>5, RetimedSound
  <2>7. \A r \in Regs : n.age[r] = Stale
    BY <2>3, <2>5 DEF AllStale
  <2>8. QED
    BY <1>3, <2>2, <2>3, <2>5, <2>6, <2>7 DEF n
<1>4. CASE InFlight(q) /\ q.tx.current /\ ~(q.writes # <<>> \/ q.tx.reg \in Core)
  <2> DEFINE a == AdvancePoll(e)
  <2>1. n = [a EXCEPT !.age[q.tx.reg] = Stale, !.from[q.tx.reg] = NoOrigin, !.wait = Quiet]
    BY <1>4 DEF Failure
  <2>2. /\ Sound(e) /\ e.tx = NoTx /\ e.requested = q.requested /\ e.writes = q.writes
        /\ e.age = q.age /\ e.from = q.from
    BY EndedSound
  <2> HIDE DEF e, n
  <2>3. /\ Sound(a) /\ a.tx = NoTx /\ a.requested = e.requested /\ a.writes = e.writes
        /\ a.age = e.age /\ a.from = e.from
    BY <2>2, AdvancePollSound
  <2> HIDE DEF a
  <2>4. a \in ProtocolStates
    BY <2>3 DEF Sound, ProtocolTypes
  <2>5. /\ n \in ProtocolStates /\ n.tx = a.tx /\ n.requested = a.requested /\ n.writes = a.writes
        /\ n.pos = a.pos /\ n.verifying = a.verifying
        /\ n.maintenance = a.maintenance /\ n.wait = Quiet
    BY <2>1, <2>4, StaleTypes DEF ProtocolStates, Origins
  <2>6. \A r \in Regs : n.age[r] = Stale \/ (n.age[r] = a.age[r] /\ n.from[r] = a.from[r])
    BY <2>1, <2>4 DEF ProtocolStates
  <2>7. Sound(n)
    BY <2>3, <2>5, <2>6 DEF Sound, ProtocolTypes, ProtocolInv, InFlight, AllStale
  <2>8. QED
    BY <1>4, <2>2, <2>3, <2>5, <2>6, <2>7 DEF n
<1>5. QED
  BY <1>1, <1>2, <1>3, <1>4

\* The record with the value of its transaction's register read from `origin`.
Seen(q, origin) == [q EXCEPT !.age[q.tx.reg] = 0, !.from[q.tx.reg] = origin]

\* A value read by a current transaction keeps the record sound.
LEMMA SeenSound ==
  ASSUME NEW q, Sound(q), InFlight(q), q.tx.current, NEW origin \in Origins
  PROVE  LET n == Seen(q, origin) IN
         /\ Sound(n) /\ n.tx = q.tx /\ n.requested = q.requested /\ n.writes = q.writes
         /\ n.pos = q.pos /\ n.verifying = q.verifying
         /\ n.from[q.tx.reg] = origin
         /\ \A r \in Regs \ {q.tx.reg} : n.age[r] = q.age[r] /\ n.from[r] = q.from[r]
<1> DEFINE n == Seen(q, origin)
<1>1. q \in ProtocolStates /\ q.tx \in Transactions /\ q.tx.reg \in Regs
  BY DEF Sound, ProtocolTypes, ProtocolStates, InFlight, Transactions
<1>2. /\ n \in ProtocolStates /\ n.tx = q.tx /\ n.requested = q.requested /\ n.writes = q.writes
      /\ n.pos = q.pos /\ n.verifying = q.verifying /\ n.maintenance = q.maintenance
  BY <1>1, StaleTypes DEF ProtocolStates, Seen
<1>3. /\ n.from[q.tx.reg] = origin
      /\ \A r \in Regs \ {q.tx.reg} : n.age[r] = q.age[r] /\ n.from[r] = q.from[r]
  BY <1>1 DEF ProtocolStates, Seen
<1> HIDE DEF n
<1>4. Sound(n)
  BY <1>2 DEF Sound, ProtocolTypes, ProtocolInv, InFlight
<1>5. QED
  BY <1>2, <1>3, <1>4 DEF n

\* The readback of a write: the command goes on, ends or is given up; it ends when the last
\* write was sent.
LEMMA ReadBackSound ==
  ASSUME NEW q, Sound(q), q.verifying, InFlight(q), NEW value
  PROVE  LET n == ReadBack(q, value) IN
         /\ Sound(n) /\ n.tx = NoTx /\ n.requested = q.requested
         /\ \/ n.writes = <<>>
            \/ n.writes = q.writes /\ Sent(n) = Sent(q)
         /\ q.pos + 1 = Len(q.writes) =>
              n.writes = <<>> /\ q.writes # <<>> /\ Sent(q) = Len(q.writes)
         /\ AllStale(n) \/ (n.age = q.age /\ n.from = q.from)
<1> DEFINE e == [q EXCEPT !.tx = NoTx]
           n == ReadBack(q, value)
<1>1. q \in ProtocolStates
  BY DEF Sound, ProtocolTypes
<1>2. q.writes # <<>> /\ q.writes \in Commands /\ q.pos \in Nat /\ q.pos < Len(q.writes)
  BY <1>1 DEF Sound, ProtocolInv, ProtocolStates
<1>3. Sent(q) = q.pos + 1
  BY DEF Sent
<1>4. CASE value # q.tx.value
  <2> DEFINE a == Aborted(e)
  <2>1. n = [a EXCEPT !.poll = 0, !.wait = Quiet]
    BY <1>4 DEF ReadBack
  <2>2. Sound(e) /\ e.tx = NoTx /\ e.requested = q.requested
    BY EndedSound
  <2> HIDE DEF e, n
  <2>3. /\ Sound(a) /\ AllStale(a) /\ a.tx = NoTx /\ a.requested = e.requested /\ a.writes = <<>>
    BY <2>2, AbortedSound
  <2> HIDE DEF a
  <2>4. a \in ProtocolStates
    BY <2>3 DEF Sound, ProtocolTypes
  <2>5. /\ n \in ProtocolStates /\ n.tx = a.tx /\ n.requested = a.requested /\ n.writes = a.writes
        /\ n.pos = a.pos /\ n.verifying = a.verifying /\ n.age = a.age
        /\ n.maintenance = a.maintenance
    BY <2>1, <2>4, StaleTypes, Constants DEF ProtocolStates
  <2>6. Sound(n)
    BY <2>3, <2>5, RetimedSound
  <2>7. AllStale(n)
    BY <2>3, <2>5 DEF AllStale
  <2>8. QED
    BY <1>2, <1>3, <2>2, <2>3, <2>5, <2>6, <2>7 DEF n
<1>5. CASE value = q.tx.value
  <2> DEFINE last == q.pos + 1 = Len(q.writes)
             ws == IF last THEN <<>> ELSE q.writes
             ps == IF last THEN 0 ELSE q.pos + 1
  <2>0. ws \in Commands \cup {<<>>} /\ ps \in Nat
    BY <1>2
  <2>1. n = [q EXCEPT !.tx = NoTx, !.verifying = FALSE, !.wait = 0, !.writes = ws, !.pos = ps]
    BY <1>5 DEF ReadBack
  <2> HIDE DEF n, ws, ps
  <2>2a. /\ n.tx = NoTx /\ n.requested = q.requested /\ ~n.verifying
         /\ n.writes = ws /\ n.pos = ps
         /\ n.age = q.age /\ n.from = q.from /\ n.maintenance = q.maintenance
    BY <1>1, <2>1 DEF ProtocolStates
  <2>2. /\ n.tx = NoTx /\ n.requested = q.requested /\ ~n.verifying
        /\ n.writes = (IF last THEN <<>> ELSE q.writes)
        /\ n.pos = (IF last THEN 0 ELSE q.pos + 1)
        /\ n.age = q.age /\ n.from = q.from /\ n.maintenance = q.maintenance
    BY <2>2a DEF ws, ps
  <2>3. n \in ProtocolStates
    BY <1>1, <2>0, <2>1, StaleTypes DEF ProtocolStates
  <2>4. Len(q.writes) \in Nat
    BY <1>2, CommandTypes
  <2>5. NoTx.function # 6 /\ ~NoTx.current
    BY DEF NoTx
  <2>6. ProtocolTypes(n)
    BY <1>2, <2>2, <2>3, <2>4 DEF ProtocolTypes
  <2>7. n.writes # <<>> => n.pos < Len(n.writes)
    BY <1>2, <2>2, <2>4
  <2>8. n.maintenance => n.writes = <<>> /\ AllStale(n)
    BY <1>2, <2>2 DEF Sound, ProtocolInv
  <2>9. Sound(n)
    BY <2>2, <2>5, <2>6, <2>7, <2>8 DEF Sound, ProtocolInv, InFlight
  <2>10. ~last => Sent(n) = Sent(q)
    BY <1>2, <1>3, <2>2, <2>5 DEF Sent
  <2>11. QED
    BY <1>2, <1>3, <2>2, <2>9, <2>10 DEF n
<1>6. QED
  BY <1>4, <1>5

\* response(): a value becomes fresh only if the transaction is a current one, and then it is
\* that of its register and from the reply's origin; a confirmed command has sent every write.
LEMMA ResponseSound ==
  ASSUME NEW q, Sound(q), NEW good, NEW value, NEW origin \in Origins
  PROVE  LET n == Response(q, good, value, origin) IN
         /\ Sound(n) /\ n.tx = NoTx /\ n.requested = q.requested
         /\ \/ n.writes = <<>>
            \/ n.writes = q.writes /\ Sent(n) = Sent(q)
         /\ Confirms(q, good, value) =>
              n.writes = <<>> /\ q.writes # <<>> /\ Sent(q) = Len(q.writes)
         /\ \A r \in Regs : n.age[r] # Stale =>
              \/ n.age[r] = q.age[r] /\ n.from[r] = q.from[r]
              \/ InFlight(q) /\ q.tx.current /\ r = q.tx.reg /\ n.from[r] = origin
<1> DEFINE n == Response(q, good, value, origin)
           seen == Seen(q, origin)
<1>1. CASE ~InFlight(q)
  <2>1. n = q /\ ~Confirms(q, good, value)
    BY <1>1 DEF Response, Confirms
  <2>2. QED
    BY <1>1, <2>1 DEF InFlight
<1>2. CASE InFlight(q) /\ ~q.tx.current
  <2>1. n = FinishStale(q) /\ ~Confirms(q, good, value)
    BY <1>2 DEF Response, Confirms
  <2> HIDE DEF n
  <2>2. /\ Sound(n) /\ n.tx = NoTx /\ n.requested = q.requested /\ n.writes = <<>>
        /\ n.age = q.age /\ n.from = q.from
    BY <1>2, <2>1, FinishStaleSound
  <2>3. QED
    BY <2>1, <2>2 DEF n
<1>3. CASE InFlight(q) /\ q.tx.current /\ ~good
  <2>1. n = Failure(q) /\ ~Confirms(q, good, value)
    BY <1>3 DEF Response, Confirms
  <2> HIDE DEF n
  <2>2. /\ Sound(n) /\ n.tx = NoTx /\ n.requested = q.requested /\ n.writes = <<>>
        /\ \A r \in Regs : n.age[r] # Stale => n.age[r] = q.age[r] /\ n.from[r] = q.from[r]
    BY <1>3, <2>1, FailureSound
  <2>3. QED
    BY <2>1, <2>2 DEF n
<1>4. CASE InFlight(q) /\ q.tx.current /\ good /\ q.tx.function = 6
  <2>1. n = [q EXCEPT !.tx = NoTx, !.verifying = TRUE, !.wait = 0]
    BY <1>4 DEF Response
  <2>2. q \in ProtocolStates /\ q.writes # <<>> /\ ~q.verifying /\ ~q.maintenance
    BY <1>4 DEF Sound, ProtocolTypes, ProtocolInv
  <2> HIDE DEF n
  <2>3. /\ n \in ProtocolStates /\ n.tx = NoTx /\ n.requested = q.requested /\ n.verifying
        /\ n.writes = q.writes /\ n.pos = q.pos /\ n.age = q.age /\ n.from = q.from
        /\ n.maintenance = q.maintenance
    BY <2>1, <2>2, StaleTypes DEF ProtocolStates
  <2>4. NoTx.function # 6 /\ ~NoTx.current
    BY DEF NoTx
  <2>5. Sound(n)
    BY <2>2, <2>3, <2>4 DEF Sound, ProtocolTypes, ProtocolInv, InFlight
  <2>6. Sent(n) = Sent(q)
    BY <1>4, <2>3 DEF Sent
  <2>7. ~Confirms(q, good, value)
    BY <2>2 DEF Confirms
  <2>8. QED
    BY <2>3, <2>5, <2>6, <2>7 DEF n
<1>5. CASE InFlight(q) /\ q.tx.current /\ good /\ q.tx.function # 6
  <2>1. n = IF q.verifying THEN ReadBack(seen, value) ELSE AdvancePoll([seen EXCEPT !.tx = NoTx])
    BY <1>5 DEF Response, Seen
  <2> HIDE DEF n
  <2>2. /\ Sound(seen) /\ seen.tx = q.tx /\ seen.requested = q.requested /\ seen.writes = q.writes
        /\ seen.pos = q.pos /\ seen.verifying = q.verifying
        /\ seen.from[q.tx.reg] = origin
        /\ \A r \in Regs \ {q.tx.reg} : seen.age[r] = q.age[r] /\ seen.from[r] = q.from[r]
    BY <1>5, SeenSound
  <2> HIDE DEF seen
  <2>3. Sent(seen) = Sent(q) /\ InFlight(seen)
    BY <1>5, <2>2 DEF Sent, InFlight
  <2>4. CASE q.verifying
    <3>1. /\ Sound(n) /\ n.tx = NoTx /\ n.requested = seen.requested
          /\ \/ n.writes = <<>>
             \/ n.writes = seen.writes /\ Sent(n) = Sent(seen)
          /\ seen.pos + 1 = Len(seen.writes) =>
               n.writes = <<>> /\ seen.writes # <<>> /\ Sent(seen) = Len(seen.writes)
          /\ AllStale(n) \/ (n.age = seen.age /\ n.from = seen.from)
      BY <2>1, <2>2, <2>3, <2>4, ReadBackSound
    <3>2. Confirms(q, good, value) => q.pos + 1 = Len(q.writes)
      BY DEF Confirms
    <3>3. ASSUME NEW r \in Regs, n.age[r] # Stale
          PROVE  \/ n.age[r] = q.age[r] /\ n.from[r] = q.from[r]
                 \/ r = q.tx.reg /\ n.from[r] = origin
      BY <2>2, <3>1, <3>3 DEF AllStale
    <3>4. QED
      BY <1>5, <2>2, <2>3, <3>1, <3>2, <3>3 DEF n
  <2>5. CASE ~q.verifying
    <3> DEFINE e == [seen EXCEPT !.tx = NoTx]
    <3>1. /\ Sound(e) /\ e.tx = NoTx /\ e.requested = seen.requested /\ e.writes = seen.writes
          /\ e.pos = seen.pos /\ e.verifying = seen.verifying
          /\ e.age = seen.age /\ e.from = seen.from
      BY <2>2, EndedSound
    <3>2. n = AdvancePoll(e)
      BY <2>1, <2>5
    <3> HIDE DEF e
    <3>3. /\ Sound(n) /\ n.tx = NoTx /\ n.requested = e.requested /\ n.writes = e.writes
          /\ Sent(n) = Sent(e) /\ n.age = e.age /\ n.from = e.from
      BY <3>1, <3>2, AdvancePollSound
    <3>4. Sent(e) = Sent(q)
      BY <1>5, <2>2, <2>5, <3>1 DEF Sent, NoTx
    <3>5. ~Confirms(q, good, value)
      BY <2>5 DEF Confirms
    <3>6. ASSUME NEW r \in Regs
          PROVE  \/ n.age[r] = q.age[r] /\ n.from[r] = q.from[r]
                 \/ r = q.tx.reg /\ n.from[r] = origin
      BY <2>2, <3>1, <3>3
    <3>7. QED
      BY <1>5, <2>2, <3>1, <3>3, <3>4, <3>5, <3>6 DEF n
  <2>6. QED
    BY <2>4, <2>5
<1>6. QED
  BY <1>1, <1>2, <1>3, <1>4, <1>5
------------------------------------------------------------------------------
(* The inductive invariant.                                                      *)

\* A probe that is busy has a slave to ask.
ScannerOK == sc \in ScannerStates /\ (Busy => sc.slave \in Slaves)

\* Frames and late replies have their types.
HubOK == frames \in Seq(Frames) /\ late \in SUBSET Replies

\* So do the other variables.
RestOK ==
  /\ ran \in BOOLEAN /\ fault \in BOOLEAN /\ reset \in BOOLEAN
  /\ result \in {"confirmed", "other"} /\ unsent \in Int
  /\ pending \in Slaves /\ flash \in Slaves /\ unstored \in BOOLEAN

\* A probe past its drain finds no transaction in flight.
Drained == ~fault /\ sc.phase \in {"quiet", "in_flight", "cooldown"} => ~InFlight(p)

\* While a late reply is under way nobody may send: the quiet intervals cover it.
LateInv ==
  ~fault /\ late # {} =>
    /\ frames = <<>>
    /\ \/ p.wait > 0 /\ (sc.phase = "quiet" => sc.left > 0)
       \/ sc.phase = "cooldown" /\ sc.left > 0

\* After a watchdog fired no probe is past its cooldown, and none was answered.
FaultInv == fault => sc.phase \in {"idle", "cooldown"} /\ sc.outcome # "responded"

\* The frame in the hub asks what its sender waits for.
MatchInv ==
  ~fault => \A k \in DOMAIN frames :
    /\ frames[k].src = "scanner" => frames[k].slave = sc.slave /\ frames[k].reg = sc.reg
    /\ frames[k].src = "protocol" => frames[k].slave = p.tx.slave /\ frames[k].reg = p.tx.reg

\* A command is confirmed when it has ended.
ResultInv == result = "confirmed" => p.writes = <<>>

\* The inductive invariant: the properties, and what each action needs to keep them.
Inv ==
  /\ Sound(p) /\ ScannerOK /\ HubOK /\ RestOK
  /\ OneMaster /\ Drained /\ LateInv /\ FaultInv /\ MatchInv
  /\ ValuesTrue /\ WritesOnce /\ ResultInv /\ AddressStored

\* Fields of the scanner's records have their types.
LEMMA ScannerTypes ==
  /\ Quiet \in 0..Quiet /\ 0 \in 0..Quiet /\ Quiet > 0
  /\ Watchdog \in 0..Watchdog /\ 0 \in 0..Watchdog /\ NoOrigin \in Origins
  /\ Idle \in ScannerStates /\ Idle.phase = "idle" /\ Idle.outcome = "none"
<1>1. /\ Quiet \in 0..Quiet /\ 0 \in 0..Quiet /\ Quiet > 0
      /\ Watchdog \in 0..Watchdog /\ 0 \in 0..Watchdog /\ NoOrigin \in Origins
  BY GuanjieAssumption DEF Quiet, Origins
<1>2. QED
  BY <1>1, Constants DEF Idle, ScannerStates

\* Scanner::abort enters the cooldown with a gateway error.
LEMMA AbortedScanTypes ==
  ASSUME NEW s \in ScannerStates
  PROVE  LET n == AbortedScan(s) IN
         /\ n \in ScannerStates /\ n.phase = "cooldown" /\ n.left = Quiet
         /\ n.outcome = "gateway_error" /\ n.slave = s.slave /\ n.reg = s.reg
  BY ScannerTypes DEF AbortedScan, ScannerStates

\* How a probe may end.
Outcomes == {"responded", "timeout", "modbus_exception", "gateway_error"}

\* Scanner::finish enters the cooldown with the outcome and origin.
LEMMA FinishedTypes ==
  ASSUME NEW s \in ScannerStates, NEW origin \in Origins,
         NEW outcome \in Outcomes
  PROVE  LET n == Finished(s, outcome, origin) IN
         /\ n \in ScannerStates /\ n.phase = "cooldown" /\ n.left = Quiet
         /\ n.outcome = outcome /\ n.origin = origin /\ n.slave = s.slave /\ n.reg = s.reg
  BY ScannerTypes DEF Finished, ScannerStates, Outcomes

\* Scanner::begin starts with the drain.
LEMMA BegunTypes ==
  ASSUME NEW a \in Slaves, NEW r \in Regs
  PROVE  LET n == Begun(a, r) IN
         n \in ScannerStates /\ n.phase = "drain" /\ n.outcome = "gateway_error" /\ n.slave = a
  BY ScannerTypes DEF Begun, Idle, ScannerStates

\* The hub's queue after one frame.
LEMMA Appended ==
  ASSUME NEW f \in Frames
  PROVE  LET n == Append(<<>>, f) IN
         n \in Seq(Frames) /\ Len(n) = 1 /\ n[1] = f /\ DOMAIN n = {1}
  OBVIOUS

\* What the proofs use of sequences.
LEMMA SequenceFacts ==
  ASSUME NEW T, NEW s \in Seq(T)
  PROVE  /\ \A k \in DOMAIN s : s[k] \in T
         /\ s = <<>> <=> Len(s) = 0
         /\ Len(s) \in Nat /\ DOMAIN s = 1..Len(s)
         /\ s # <<>> => Tail(s) \in Seq(T) /\ Len(Tail(s)) = Len(s) - 1 /\ Head(s) = s[1]
         /\ Len(s) <= 1 /\ s # <<>> => Tail(s) = <<>> /\ DOMAIN s = {1}
<1>1. Len(s) \in Nat /\ DOMAIN s = 1..Len(s) /\ \A k \in DOMAIN s : s[k] \in T
  BY ElementOfSeq, LenProperties
<1>2. s = <<>> <=> Len(s) = 0
  BY EmptySeq
<1>3. s # <<>> => Tail(s) \in Seq(T) /\ Len(Tail(s)) = Len(s) - 1 /\ Head(s) = s[1]
  BY HeadTailProperties
<1>4. ASSUME Len(s) <= 1, s # <<>>
      PROVE  Tail(s) = <<>> /\ DOMAIN s = {1}
  <2>1. Len(s) = 1
    BY <1>1, <1>2, <1>4
  <2>2. Tail(s) \in Seq(T) /\ Len(Tail(s)) = 0
    BY <1>3, <1>4, <2>1
  <2>3. Tail(s) = <<>>
    BY <2>2, EmptySeq
  <2>4. QED
    BY <1>1, <2>1, <2>3
<1>5. QED
  BY <1>1, <1>2, <1>3, <1>4

\* With no sender waiting, and no watchdog fired, the hub is empty.
LEMMA NoFrames ==
  ASSUME Inv, ~fault, sc.phase # "in_flight", ~InFlight(p)
  PROVE  frames = <<>>
<1>1. frames \in Seq(Frames)
  BY DEF Inv, HubOK
<1>2. \A k \in DOMAIN frames : frames[k].src \in {"protocol", "scanner"}
  <2>1. \A k \in DOMAIN frames : frames[k] \in Frames
    BY <1>1, SequenceFacts
  <2>2. QED
    BY <2>1 DEF Frames
<1>3. DOMAIN frames = {}
  BY <1>2 DEF Inv, OneMaster
<1>4. Len(frames) = 0
  <2>1. Len(frames) \in Nat /\ 1..Len(frames) = {}
    BY <1>1, <1>3, SequenceFacts
  <2>2. 1 \notin 1..Len(frames)
    BY <2>1
  <2>3. QED
    BY <2>1, <2>2
<1>5. QED
  BY <1>1, <1>4, SequenceFacts

\* With no watchdog fired the frame in the hub is the only one, and its sender waits for it.
LEMMA OneFrame ==
  ASSUME Inv, ~fault, frames # <<>>
  PROVE  /\ Tail(frames) = <<>> /\ DOMAIN frames = {1} /\ OnWire = frames[1] /\ late = {}
         /\ OnWire.src = "scanner" <=> sc.phase = "in_flight"
         /\ OnWire.src = "protocol" <=> InFlight(p)
         /\ OnWire.src \in {"scanner", "protocol"}
<1>1. frames \in Seq(Frames) /\ Len(frames) <= 1
  BY DEF Inv, HubOK, OneMaster
<1>2. Tail(frames) = <<>> /\ DOMAIN frames = {1} /\ OnWire = frames[1]
  BY <1>1, SequenceFacts DEF OnWire
<1>3. late = {}
  BY DEF Inv, LateInv
<1>4. frames[1] \in Frames
  BY <1>1, <1>2, SequenceFacts
<1>5. QED
  BY <1>2, <1>3, <1>4 DEF Inv, OneMaster, Frames

\* The numbers of writes are numbers.
LEMMA SentTypes ==
  ASSUME NEW q, Sound(q)
  PROVE  Sent(q) \in Nat /\ Len(q.writes) \in Nat
<1>1. q.pos \in Nat /\ q.writes \in Commands \cup {<<>>}
  BY DEF Sound, ProtocolTypes, ProtocolStates
<1>2. QED
  BY <1>1, CommandTypes DEF Sent

\* One unit of time keeps the invariant: late replies arrive within it, values only age.
LEMMA TickInv == Inv /\ Tick => Inv'
<1> SUFFICES ASSUME Inv, Tick PROVE Inv'
  OBVIOUS
<1>1. p \in ProtocolStates /\ sc \in ScannerStates
  BY DEF Inv, Sound, ProtocolTypes, ScannerOK
<1> DEFINE ages == [r \in Regs |-> IF p.age[r] = Stale THEN Stale ELSE p.age[r] + 1]
           froms == [r \in Regs |-> IF p.age[r] >= Fresh THEN NoOrigin ELSE p.from[r]]
<1>2. ages \in [Regs -> 0..Stale] /\ froms \in [Regs -> Origins]
  <2>1. p.age \in [Regs -> 0..Stale] /\ p.from \in [Regs -> Origins]
    BY <1>1 DEF ProtocolStates
  <2>2. QED
    BY <2>1, Constants DEF Origins
<1>3. p' = [p EXCEPT !.wait = Less(p.wait), !.age = ages, !.from = froms]
  BY DEF Tick
<1> HIDE DEF ages, froms
<1>4. Less(p.wait) \in 0..(Quiet + PollPause)
  <2>1. p.wait \in 0..(Quiet + PollPause)
    BY <1>1 DEF ProtocolStates
  <2>2. QED
    BY <2>1, Constants DEF Less, Quiet
<1>5. /\ p' \in ProtocolStates /\ p'.tx = p.tx /\ p'.requested = p.requested /\ p'.writes = p.writes
      /\ p'.pos = p.pos /\ p'.verifying = p.verifying /\ p'.maintenance = p.maintenance
      /\ p'.age = ages /\ p'.from = froms
  BY <1>1, <1>2, <1>3, <1>4 DEF ProtocolStates
<1>6. AllStale(p) => AllStale(p')
  BY <1>5 DEF AllStale, ages
<1>7. Sound(p')
  BY <1>5, <1>6 DEF Inv, Sound, ProtocolTypes, ProtocolInv, InFlight
<1>8. /\ sc' \in ScannerStates /\ sc'.phase = sc.phase /\ sc'.slave = sc.slave /\ sc'.reg = sc.reg
      /\ sc'.outcome = sc.outcome /\ sc'.origin = sc.origin
  <2>1. Less(sc.left) \in 0..Quiet /\ Less(sc.lease) \in 0..Watchdog
    <3>1. sc.left \in 0..Quiet /\ sc.lease \in 0..Watchdog
      BY <1>1 DEF ScannerStates
    <3>2. QED
      BY <3>1, GuanjieAssumption DEF Less, Quiet
  <2>2. sc' = [sc EXCEPT !.left = Less(sc.left), !.lease = Less(sc.lease)]
    BY DEF Tick
  <2>3. QED
    BY <1>1, <2>1, <2>2 DEF ScannerStates
<1>9. late' = {} /\ ran' = FALSE /\ UNCHANGED <<fault, reset, pending, flash, result, frames, unsent, unstored>>
  BY DEF Tick
<1>10. ScannerOK' /\ HubOK' /\ RestOK'
  BY <1>8, <1>9 DEF Inv, ScannerOK, HubOK, RestOK, Busy
<1>11. OneMaster' /\ Drained' /\ LateInv' /\ FaultInv' /\ MatchInv'
  BY <1>5, <1>8, <1>9 DEF Inv, OneMaster, Drained, LateInv, FaultInv, MatchInv, InFlight, Busy
<1>12. ASSUME NEW r \in Regs, p'.age[r] # Stale
       PROVE  p.age[r] # Stale /\ p'.from[r] = p.from[r]
  <2>1. p.age[r] \in 0..Stale
    BY <1>1 DEF ProtocolStates
  <2>2. p.age[r] # Stale /\ p.age[r] + 1 # Stale
    BY <1>5, <1>12 DEF ages
  <2>3. ~(p.age[r] >= Fresh)
    BY <2>1, <2>2, Constants
  <2>4. QED
    BY <1>5, <2>2, <2>3 DEF froms
<1>13. ValuesTrue'
  BY <1>5, <1>8, <1>9, <1>12 DEF Inv, ValuesTrue
<1>14. WritesOnce' /\ ResultInv' /\ AddressStored'
  BY <1>5, <1>9 DEF Inv, WritesOnce, ResultInv, AddressStored
<1>15. QED
  BY <1>7, <1>10, <1>11, <1>13, <1>14 DEF Inv

\* The values q keeps were p's: what the rest of a step starts from.
Keeps(q) ==
  /\ Sound(q) /\ q.tx = p.tx /\ q.wait = p.wait /\ q.requested = p.requested
  /\ q.writes = p.writes /\ Sent(q) = Sent(p)
  /\ \A r \in Regs : q.age[r] # Stale => q.age[r] = p.age[r] /\ q.from[r] = p.from[r]

\* next() and its frame keep the invariant: a frame goes to an empty hub.
LEMMA PollOrWriteInv ==
  ASSUME Inv, ~Busy, NEW q, Keeps(q), PollOrWrite(q),
         UNCHANGED <<pending, late, unstored>>, reset' \in BOOLEAN, flash' \in {flash, pending},
         ran' = TRUE
  PROVE  Inv'
<1>1. sc' = sc /\ fault' = fault
  BY DEF PollOrWrite
<1>2. sc.phase = "idle" /\ q.requested = p.requested
  BY DEF Busy, Keeps
<1> DEFINE s == WithNext(q)
           f == Frame("protocol", s.tx.slave, s.tx.function, s.tx.reg)
<1>3. \/ ~CanSend(q) /\ p' = q /\ UNCHANGED <<frames, unsent>>
      \/ /\ CanSend(q) /\ p' = s /\ frames' = Append(frames, f)
         /\ unsent' = IF s.tx.function = 6 THEN unsent - 1 ELSE unsent
      \/ CanSend(q) /\ p' = Failure(s) /\ UNCHANGED <<frames, unsent>>
  BY DEF PollOrWrite
<1>4. result' = IF p'.writes # p.writes THEN "other" ELSE result
  BY DEF PollOrWrite
<1>5. CanSend(q) =>
        /\ Sound(s) /\ InFlight(s) /\ s.tx.current /\ s.requested = q.requested
        /\ s.tx \in Transactions
        /\ \/ s.age = q.age /\ s.from = q.from
           \/ AllStale(s)
        /\ \/ s.writes = <<>> /\ s.tx.function = 3
           \/ s.writes = q.writes /\ q.writes # <<>>
                /\ Sent(s) = Sent(q) + IF s.tx.function = 6 THEN 1 ELSE 0
  BY WithNextSound DEF Keeps
<1> HIDE DEF s
<1>6. CanSend(q) =>
        LET n == Failure(s) IN
        /\ Sound(n) /\ n.tx = NoTx /\ n.requested = s.requested /\ n.writes = <<>>
        /\ \A r \in Regs : n.age[r] # Stale => n.age[r] = s.age[r] /\ n.from[r] = s.from[r]
  BY <1>5, FailureSound
<1>7. Sound(p') /\ p'.requested = p.requested
  BY <1>2, <1>3, <1>5, <1>6 DEF Keeps
<1>8. ASSUME NEW r \in Regs, p'.age[r] # Stale
      PROVE  p.age[r] # Stale /\ p'.from[r] = p.from[r]
  BY <1>3, <1>5, <1>6, <1>8 DEF Keeps, AllStale
<1>9. f \in Frames \/ ~CanSend(q)
  BY <1>5 DEF Frames, Frame, Transactions
<1>10. f.src = "protocol" /\ f.slave = s.tx.slave /\ f.reg = s.tx.reg
  BY DEF Frame
<1>11. ~fault /\ CanSend(q) => frames = <<>> /\ late = {}
  <2> SUFFICES ASSUME ~fault, CanSend(q) PROVE frames = <<>> /\ late = {}
    OBVIOUS
  <2>1. ~InFlight(p) /\ p.wait = 0
    BY DEF CanSend, Keeps, InFlight
  <2>2. QED
    BY <1>2, <2>1, NoFrames DEF Inv, LateInv
<1>12. ScannerOK' /\ HubOK' /\ RestOK'
  <2>1. ScannerOK'
    BY <1>1 DEF Inv, ScannerOK, Busy
  <2>2. frames \in Seq(Frames) /\ late \in SUBSET Replies
    BY DEF Inv, HubOK
  <2>3. HubOK'
    <3> HIDE DEF f
    <3>1. frames' = frames \/ (f \in Frames /\ frames' = Append(frames, f))
      BY <1>3, <1>9
    <3>2. QED
      BY <2>2, <3>1 DEF HubOK
  <2>4. RestOK'
    BY <1>1, <1>3, <1>4 DEF Inv, RestOK
  <2>5. QED
    BY <2>1, <2>3, <2>4
<1>13. ASSUME fault
       PROVE  OneMaster' /\ Drained' /\ LateInv' /\ FaultInv' /\ MatchInv'
  <2>1. sc'.phase = "idle" /\ ~Busy'
    BY <1>1, <1>2 DEF Busy
  <2>2. OneMaster' /\ Drained' /\ LateInv' /\ FaultInv' /\ MatchInv'
    BY <1>1, <1>13, <2>1 DEF Inv, OneMaster, Drained, LateInv, FaultInv, MatchInv
  <2>3. QED
    BY <2>2
<1>14. ASSUME ~fault, ~CanSend(q)
       PROVE  OneMaster' /\ Drained' /\ LateInv' /\ FaultInv' /\ MatchInv'
  <2>1. p' = q /\ frames' = frames /\ late' = late
    BY <1>3, <1>14
  <2>2. p'.tx = p.tx /\ p'.wait = p.wait
    BY <2>1 DEF Keeps
  <2>3. OneMaster' /\ Drained' /\ LateInv' /\ FaultInv' /\ MatchInv'
    BY <1>1, <1>2, <2>1, <2>2 DEF Inv, OneMaster, Drained, LateInv, FaultInv, MatchInv, InFlight, Busy
  <2>4. QED
    BY <2>3
<1>15. ASSUME ~fault, CanSend(q), p' = s, frames' = Append(frames, f)
       PROVE  OneMaster' /\ Drained' /\ LateInv' /\ FaultInv' /\ MatchInv'
  <2> HIDE DEF f
  <2>1. /\ Len(frames') = 1 /\ frames'[1] = f /\ DOMAIN frames' = {1} /\ late' = {}
    BY <1>9, <1>11, <1>15, Appended
  <2>2. InFlight(p') /\ p'.tx = s.tx
    BY <1>5, <1>15
  <2>3. sc'.phase = "idle" /\ ~Busy' /\ ~fault'
    BY <1>1, <1>2, <1>15 DEF Busy
  <2>4. OneMaster' /\ Drained' /\ LateInv' /\ FaultInv' /\ MatchInv'
    BY <1>10, <2>1, <2>2, <2>3 DEF OneMaster, Drained, LateInv, FaultInv, MatchInv
  <2>5. QED
    BY <2>4
<1>16. ASSUME ~fault, CanSend(q), p' = Failure(s), frames' = frames
       PROVE  OneMaster' /\ Drained' /\ LateInv' /\ FaultInv' /\ MatchInv'
  <2>1. frames' = <<>> /\ late' = {} /\ DOMAIN frames' = {} /\ Len(frames') = 0
    BY <1>11, <1>16
  <2>2. ~InFlight(p')
    BY <1>6, <1>16 DEF InFlight
  <2>3. sc'.phase = "idle" /\ ~Busy' /\ ~fault'
    BY <1>1, <1>2, <1>16 DEF Busy
  <2>4. OneMaster' /\ Drained' /\ LateInv' /\ FaultInv' /\ MatchInv'
    BY <2>1, <2>2, <2>3 DEF OneMaster, Drained, LateInv, FaultInv, MatchInv
  <2>5. QED
    BY <2>4
<1>17. OneMaster' /\ Drained' /\ LateInv' /\ FaultInv' /\ MatchInv'
  BY <1>3, <1>13, <1>14, <1>15, <1>16
<1>18. ValuesTrue'
  <2>1. fault' /\ p'.maintenance => AllStale(p')
    BY <1>7 DEF Sound, ProtocolInv
  <2>2. QED
    BY <1>1, <1>7, <1>8, <2>1 DEF Inv, ValuesTrue, AllStale
<1>19. WritesOnce' /\ ResultInv'
  <2>1. /\ p.writes # <<>> => Len(p.writes) - unsent = Sent(p)
        /\ result = "confirmed" => unsent = 0 /\ p.writes = <<>>
    BY DEF Inv, WritesOnce, ResultInv, Sent
  <2>2. Sent(p) \in Nat /\ Len(p.writes) \in Nat /\ unsent \in Int
    BY SentTypes DEF Inv, RestOK
  <2>3. \/ p'.writes = <<>> /\ unsent' = unsent
        \/ p'.writes = p.writes /\ p.writes # <<>> /\ Sent(p') = Sent(p) /\ unsent' = unsent
        \/ p'.writes = p.writes /\ p.writes # <<>> /\ Sent(p') = Sent(p) + 1 /\ unsent' = unsent - 1
    BY <1>3, <1>5, <1>6, <2>2 DEF Keeps
  <2>4. p'.writes # <<>> => Len(p'.writes) - unsent' = Sent(p')
    BY <2>1, <2>2, <2>3
  <2>5. result' = "confirmed" => unsent' = 0 /\ p'.writes = <<>>
    BY <1>4, <2>1, <2>3
  <2>6. QED
    BY <2>4, <2>5 DEF WritesOnce, ResultInv, Sent
<1>20. AddressStored'
  BY <1>7 DEF Inv, AddressStored
<1>21. QED
  BY <1>7, <1>12, <1>17, <1>18, <1>19, <1>20 DEF Inv

\* A step of the probe keeps the invariant: its frame goes to an empty hub after a quiet
\* interval, and a watchdog gives everything up.
LEMMA ScanInv ==
  ASSUME Inv, Busy, Scan, UNCHANGED <<reset, flash, pending, late, unstored>>, ran' = TRUE
  PROVE  Inv'
<1>0. Sound(p) /\ sc \in ScannerStates /\ sc.slave \in Slaves /\ ~reset
  BY DEF Inv, ScannerOK, OneMaster
<1>1. CASE sc.lease = 0
  <2> DEFINE n == PauseForMaintenance(p)
             s == AbortedScan(sc)
  <2>1. fault' = TRUE /\ p' = n /\ UNCHANGED <<result, unsent>>
    BY <1>1 DEF Scan
  <2>2. /\ Sound(n) /\ AllStale(n) /\ n.writes = <<>> /\ n.requested = p.requested
    BY <1>0, PauseSound
  <2>3. s \in ScannerStates /\ s.phase = "cooldown" /\ s.left = Quiet
        /\ s.outcome = "gateway_error" /\ s.slave = sc.slave
    BY <1>0, AbortedScanTypes
  <2>4. \/ s.phase = "drain"
        \/ s.phase = "quiet"
        \/ s.phase = "cooldown" /\ s.left = 0
        \/ sc' = s /\ frames' = frames
    BY <1>1 DEF Scan
  <2> HIDE DEF n, s
  <2>5. sc' = s /\ frames' = frames
    BY <2>3, <2>4 DEF Quiet
  <2>6. Sound(p') /\ ScannerOK' /\ HubOK' /\ RestOK'
    BY <1>0, <2>1, <2>2, <2>3, <2>5 DEF Inv, ScannerOK, HubOK, RestOK
  <2>7. OneMaster' /\ Drained' /\ LateInv' /\ FaultInv' /\ MatchInv'
    BY <1>0, <2>1, <2>3, <2>5 DEF OneMaster, Drained, LateInv, FaultInv, MatchInv
  <2>8. ValuesTrue' /\ WritesOnce' /\ ResultInv' /\ AddressStored'
    BY <2>1, <2>2, <2>3, <2>5 DEF Inv, ValuesTrue, AllStale, WritesOnce, ResultInv, AddressStored
  <2>9. QED
    BY <2>6, <2>7, <2>8 DEF Inv
<1>2. CASE sc.lease # 0
  <2>1. p' = p /\ fault' = fault /\ UNCHANGED <<result, unsent>>
    BY <1>2 DEF Scan, Inv, RestOK
  <2>2. \/ /\ sc.phase = "drain" /\ frames' = frames
           /\ sc' = IF InFlight(p) THEN sc ELSE [sc EXCEPT !.phase = "quiet", !.left = Quiet]
        \/ /\ sc.phase = "quiet" /\ sc.left = 0 /\ sc' = [sc EXCEPT !.phase = "in_flight"]
           /\ frames' = Append(frames, Frame("scanner", sc.slave, 3, sc.reg))
        \/ /\ sc.phase = "quiet" /\ sc' = Finished(sc, "gateway_error", NoOrigin)
           /\ frames' = frames
        \/ sc.phase = "cooldown" /\ sc.left = 0 /\ sc' = Idle /\ frames' = frames
        \/ sc' = sc /\ frames' = frames
    BY <1>2 DEF Scan
  <2>3. Sound(p') /\ RestOK' /\ WritesOnce' /\ ResultInv' /\ AddressStored'
    BY <1>0, <2>1 DEF Inv, RestOK, WritesOnce, ResultInv, AddressStored
  <2>4. ValuesTrue' <=>
          (sc'.outcome = "responded" => sc'.origin = <<sc'.slave, sc'.reg>>)
    BY <2>1 DEF Inv, ValuesTrue
  <2>5. CASE sc' = sc /\ frames' = frames
    BY <2>1, <2>3, <2>5 DEF Inv, ScannerOK, HubOK, OneMaster, Drained, LateInv, FaultInv, MatchInv,
                            InFlight, Busy, ValuesTrue
  <2>6. CASE sc.phase = "drain" /\ ~InFlight(p) /\ frames' = frames
             /\ sc' = [sc EXCEPT !.phase = "quiet", !.left = Quiet]
    <3>1. Quiet \in 0..Quiet /\ Quiet > 0
      BY DEF Quiet
    <3>2. /\ sc' \in ScannerStates /\ sc'.phase = "quiet" /\ sc'.left = Quiet
          /\ sc'.slave = sc.slave /\ sc'.reg = sc.reg
          /\ sc'.outcome = sc.outcome /\ sc'.origin = sc.origin
      BY <1>0, <2>6, <3>1 DEF ScannerStates
    <3>3. ~fault
      BY <2>6 DEF Inv, FaultInv
    <3>4. ScannerOK' /\ HubOK' /\ FaultInv' /\ ValuesTrue'
      BY <1>0, <2>1, <2>4, <2>6, <3>2, <3>3 DEF Inv, ScannerOK, HubOK, FaultInv, ValuesTrue
    <3>5. ~InFlight(p')
      BY <2>1, <2>6
    <3>6. OneMaster' /\ Drained' /\ LateInv' /\ MatchInv'
      BY <1>0, <2>1, <2>6, <3>1, <3>2, <3>5
         DEF Inv, OneMaster, Drained, LateInv, MatchInv
    <3>7. QED
      BY <2>3, <3>4, <3>6 DEF Inv
  <2>7. CASE sc.phase = "quiet" /\ sc.left = 0 /\ sc' = [sc EXCEPT !.phase = "in_flight"]
             /\ frames' = Append(frames, Frame("scanner", sc.slave, 3, sc.reg))
    <3> DEFINE f == Frame("scanner", sc.slave, 3, sc.reg)
    <3>1. /\ sc' \in ScannerStates /\ sc'.phase = "in_flight"
          /\ sc'.slave = sc.slave /\ sc'.reg = sc.reg
          /\ sc'.outcome = sc.outcome /\ sc'.origin = sc.origin
      BY <1>0, <2>7 DEF ScannerStates
    <3>2. f \in Frames /\ f.src = "scanner" /\ f.slave = sc.slave /\ f.reg = sc.reg
      BY <1>0 DEF Frame, Frames, ScannerStates
    <3>3. ~fault /\ ~InFlight(p)
      BY <2>7 DEF Inv, FaultInv, Drained
    <3>4. frames = <<>> /\ late = {}
      BY <2>7, <3>3, NoFrames DEF Inv, LateInv
    <3> HIDE DEF f
    <3>5. /\ frames' \in Seq(Frames) /\ Len(frames') = 1 /\ frames'[1] = f
          /\ DOMAIN frames' = {1} /\ late' = {}
      BY <2>7, <3>2, <3>4, Appended DEF f
    <3>6. ScannerOK' /\ HubOK' /\ FaultInv' /\ ValuesTrue'
      BY <1>0, <2>1, <2>4, <3>1, <3>3, <3>5 DEF Inv, ScannerOK, HubOK, FaultInv, ValuesTrue
    <3>7. ~InFlight(p')
      BY <2>1, <3>3
    <3>8. OneMaster' /\ Drained' /\ LateInv' /\ MatchInv'
      BY <1>0, <3>1, <3>2, <3>5, <3>7 DEF OneMaster, Drained, LateInv, MatchInv
    <3>9. QED
      BY <2>3, <3>6, <3>8 DEF Inv
  <2>8. CASE sc.phase = "quiet" /\ frames' = frames /\ sc' = Finished(sc, "gateway_error", NoOrigin)
    <3>1. /\ sc' \in ScannerStates /\ sc'.phase = "cooldown" /\ sc'.left = Quiet
          /\ sc'.slave = sc.slave /\ sc'.outcome = "gateway_error" /\ Quiet > 0
      BY <1>0, <2>8, ScannerTypes, FinishedTypes DEF Outcomes
    <3>2. ~fault /\ ~InFlight(p)
      BY <2>8 DEF Inv, FaultInv, Drained
    <3>3. frames' = <<>> /\ Len(frames') = 0 /\ DOMAIN frames' = {}
      BY <2>8, <3>2, NoFrames
    <3>4. ScannerOK' /\ HubOK' /\ FaultInv' /\ ValuesTrue'
      BY <1>0, <2>1, <2>4, <2>8, <3>1, <3>2 DEF Inv, ScannerOK, HubOK, FaultInv, ValuesTrue
    <3>5. ~InFlight(p')
      BY <2>1, <3>2
    <3>6. OneMaster' /\ Drained' /\ LateInv' /\ MatchInv'
      BY <1>0, <3>1, <3>3, <3>5 DEF OneMaster, Drained, LateInv, MatchInv
    <3>7. QED
      BY <2>3, <3>4, <3>6 DEF Inv
  <2>9. CASE sc.phase = "cooldown" /\ sc.left = 0 /\ sc' = Idle /\ frames' = frames
    <3>1. sc' \in ScannerStates /\ sc'.phase = "idle" /\ sc'.outcome = "none" /\ ~Busy'
      BY <2>9, ScannerTypes DEF Busy
    <3>2. ScannerOK' /\ HubOK' /\ FaultInv' /\ ValuesTrue'
      BY <2>1, <2>4, <2>9, <3>1 DEF Inv, ScannerOK, HubOK, FaultInv, ValuesTrue
    <3>3. ~fault => ~InFlight(p) /\ frames = <<>>
      BY <2>9, NoFrames DEF Inv, Drained
    <3>4. ~fault => late = {} \/ p.wait > 0
      BY <2>9 DEF Inv, LateInv
    <3>5. ~fault' => ~InFlight(p') /\ frames' = <<>> /\ Len(frames') = 0 /\ DOMAIN frames' = {}
      BY <2>1, <2>9, <3>3
    <3>6. OneMaster' /\ Drained' /\ LateInv' /\ MatchInv'
      BY <2>1, <3>1, <3>4, <3>5 DEF OneMaster, Drained, LateInv, MatchInv
    <3>7. QED
      BY <2>3, <3>2, <3>6 DEF Inv
  <2>10. QED
    BY <2>2, <2>5, <2>6, <2>7, <2>8, <2>9
<1>3. QED
  BY <1>1, <1>2

\* A step that keeps the hub, the probe and the rest of the transaction in flight.
LEMMA EpochInv ==
  ASSUME Inv, ~Busy, Sound(p'), AllStale(p'), p'.writes = <<>>,
         InFlight(p') <=> InFlight(p),
         p'.tx.slave = p.tx.slave, p'.tx.reg = p.tx.reg,
         p'.wait = p.wait \/ p'.wait > 0,
         flash' \in Slaves, pending' \in Slaves, unstored' \in BOOLEAN, AddressStored',
         reset' \in BOOLEAN, result' = "other",
         UNCHANGED <<sc, fault, frames, late, ran, unsent>>
  PROVE  Inv'
<1>1. ScannerOK' /\ HubOK' /\ RestOK'
  BY DEF Inv, ScannerOK, HubOK, RestOK, Busy
<1>2. OneMaster' /\ Drained' /\ LateInv' /\ FaultInv' /\ MatchInv'
  BY DEF Inv, OneMaster, Drained, LateInv, FaultInv, MatchInv, Busy
<1>3. ValuesTrue' /\ WritesOnce' /\ ResultInv'
  BY DEF Inv, ValuesTrue, AllStale, WritesOnce, ResultInv
<1>4. QED
  BY <1>1, <1>2, <1>3 DEF Inv

\* A step that touches only the stored address and the last result.
LEMMA StorageInv ==
  ASSUME Inv, result' \in {result, "other"},
         flash' \in Slaves, pending' \in Slaves, unstored' \in BOOLEAN, AddressStored',
         UNCHANGED <<p, sc, fault, reset, frames, late, ran, unsent>>
  PROVE  Inv'
<1>1. Sound(p') /\ ScannerOK' /\ HubOK' /\ RestOK'
  BY DEF Inv, Sound, ScannerOK, HubOK, RestOK, Busy
<1>2. OneMaster' /\ Drained' /\ LateInv' /\ FaultInv' /\ MatchInv'
  BY DEF Inv, OneMaster, Drained, LateInv, FaultInv, MatchInv, InFlight, Busy
<1>3. ValuesTrue' /\ WritesOnce' /\ ResultInv'
  BY DEF Inv, ValuesTrue, WritesOnce, ResultInv
<1>4. QED
  BY <1>1, <1>2, <1>3 DEF Inv

\* request_wifi_reset keeps the invariant: no probe is busy.
LEMMA RequestWifiResetInv == Inv /\ RequestWifiReset => Inv'
<1> SUFFICES ASSUME Inv, RequestWifiReset PROVE Inv'
  OBVIOUS
<1>1. p' = PauseForMaintenance(p)
  BY DEF RequestWifiReset
<1>2. /\ Sound(p') /\ AllStale(p') /\ p'.writes = <<>> /\ (InFlight(p') <=> InFlight(p))
      /\ p'.tx.slave = p.tx.slave /\ p'.tx.reg = p.tx.reg
      /\ p'.wait = p.wait /\ p'.requested = p.requested
  BY <1>1, PauseSound DEF Inv
<1>3. /\ flash' \in Slaves /\ pending' \in Slaves /\ unstored' \in BOOLEAN
      /\ AddressStored'
  BY <1>2 DEF Inv, RestOK, AddressStored, RequestWifiReset
<1>4. QED
  BY <1>2, <1>3, EpochInv DEF RequestWifiReset

\* What save() and sync() leave of a preference that holds addresses; when both work,
\* address a is stored and nothing else is pending.
LEMMA StoresFacts ==
  ASSUME NEW m \in [pending : Slaves, flash : Slaves], NEW a \in Slaves,
         NEW saved \in BOOLEAN, NEW synced \in BOOLEAN,
         NEW n \in Stores(m, a, saved, synced)
  PROVE  /\ n \in [pending : Slaves, flash : Slaves]
         /\ saved /\ synced => n.pending = a /\ n.flash = a
<1> DEFINE s == IF saved THEN [m EXCEPT !.pending = a] ELSE m
           t == [s EXCEPT !.flash = s.pending]
<1>1. s \in [pending : Slaves, flash : Slaves] /\ (saved => s.pending = a)
  OBVIOUS
<1>2. n \in {s, t} /\ (synced => n = t)
  BY DEF Stores
<1> HIDE DEF s
<1>3. t \in [pending : Slaves, flash : Slaves] /\ t.pending = s.pending /\ t.flash = s.pending
  BY <1>1
<1>4. QED
  BY <1>1, <1>2, <1>3

\* request_address keeps the invariant, whether it stored the address, failed and was
\* undone, or was refused.
LEMMA RequestAddressInv == ASSUME NEW a \in Slaves PROVE Inv /\ RequestAddress(a) => Inv'
<1> SUFFICES ASSUME Inv, RequestAddress(a) PROVE Inv'
  OBVIOUS
<1>0. /\ result' = "other" /\ UNCHANGED <<sc, fault, reset, frames, late, ran, unsent>>
      /\ pending \in Slaves /\ flash \in Slaves /\ unstored \in BOOLEAN
      /\ p.requested \in Slaves
  BY DEF Inv, RestOK, Sound, ProtocolTypes, ProtocolStates, RequestAddress
<1>1. CASE ~Busy /\ p' = ChangeAddress(p, a) /\ pending' = a /\ flash' = a /\ unstored' = FALSE
  <2>1. /\ Sound(p') /\ AllStale(p') /\ p'.writes = <<>> /\ (InFlight(p') <=> InFlight(p))
        /\ p'.tx.slave = p.tx.slave /\ p'.tx.reg = p.tx.reg
        /\ p'.wait = Quiet /\ p'.requested = a
    BY <1>1, ChangeAddressSound DEF Inv
  <2>2. reset' \in BOOLEAN /\ Quiet > 0
    BY <1>0 DEF Inv, RestOK, Quiet
  <2>3. AddressStored'
    BY <1>1, <2>1 DEF AddressStored
  <2>4. QED
    BY <1>0, <1>1, <2>1, <2>2, <2>3, EpochInv
<1>2. CASE UNCHANGED <<p, pending, flash, unstored>>
  <2>1. AddressStored'
    BY <1>2 DEF Inv, AddressStored
  <2>2. QED
    BY <1>0, <1>2, <2>1, StorageInv
<1>3. ASSUME p' = p,
             NEW tried \in {[pending |-> pending, flash |-> flash]} \cup
                           Stores([pending |-> pending, flash |-> flash], a, TRUE, FALSE),
             NEW saved \in BOOLEAN, NEW synced \in BOOLEAN,
             NEW left \in RolledBack(tried, saved, synced),
             pending' = left.pending, flash' = left.flash, unstored' = ~(saved /\ synced)
      PROVE  Inv'
  <2>1. [pending |-> pending, flash |-> flash] \in [pending : Slaves, flash : Slaves]
    BY <1>0
  <2>2. tried \in [pending : Slaves, flash : Slaves]
    BY <1>3, <2>1, StoresFacts
  <2>3. left \in Stores(tried, p.requested, saved, synced)
    BY <1>3 DEF RolledBack
  <2>4. /\ left \in [pending : Slaves, flash : Slaves]
        /\ saved /\ synced => left.pending = p.requested /\ left.flash = p.requested
    BY <1>0, <2>2, <2>3, StoresFacts
  <2>5. pending' \in Slaves /\ flash' \in Slaves /\ unstored' \in BOOLEAN
    BY <1>3, <2>4
  <2>6. AddressStored'
    BY <1>3, <2>4 DEF AddressStored
  <2>7. QED
    BY <1>0, <1>3, <2>5, <2>6, StorageInv
<1>4. QED
  BY <1>1, <1>2, <1>3 DEF RequestAddress

\* scanner_probe keeps the invariant: a probe starts behind what is in flight.
LEMMA ScannerProbeInv ==
  ASSUME NEW a \in Slaves, NEW r \in Regs PROVE Inv /\ ScannerProbe(a, r) => Inv'
<1> SUFFICES ASSUME Inv, ScannerProbe(a, r) PROVE Inv'
  OBVIOUS
<1>1. UNCHANGED <<p, fault, reset, pending, flash, result, frames, late, ran, unsent, unstored>>
  BY DEF ScannerProbe
<1>2. CASE sc' = sc
  BY <1>1, <1>2 DEF Inv, Sound, ScannerOK, HubOK, RestOK, OneMaster, Drained, LateInv,
              FaultInv, MatchInv, ValuesTrue, WritesOnce, ResultInv, AddressStored,
              InFlight, Busy
<1>3. CASE ~fault /\ ~reset /\ ~Busy /\ sc' = Begun(a, r)
  <2>1. /\ sc' \in ScannerStates /\ sc'.phase = "drain" /\ sc'.outcome = "gateway_error"
        /\ sc'.slave = a
    BY <1>3, BegunTypes
  <2>2. sc.phase = "idle"
    BY <1>3 DEF Busy
  <2>3. Sound(p') /\ ScannerOK' /\ HubOK' /\ RestOK'
    BY <1>1, <2>1 DEF Inv, ScannerOK, HubOK, RestOK
  <2>4. \A k \in DOMAIN frames : ~fault => frames[k].src # "scanner"
    BY <2>2 DEF Inv, OneMaster
  <2>5. OneMaster' /\ Drained' /\ LateInv' /\ FaultInv' /\ MatchInv'
    BY <1>1, <1>3, <2>1, <2>2, <2>4
       DEF Inv, OneMaster, Drained, LateInv, FaultInv, MatchInv, InFlight
  <2>6. ValuesTrue' /\ WritesOnce' /\ ResultInv' /\ AddressStored'
    BY <1>1, <2>1 DEF Inv, ValuesTrue, WritesOnce, ResultInv, AddressStored
  <2>7. QED
    BY <2>3, <2>5, <2>6 DEF Inv
<1>4. QED
  BY <1>2, <1>3 DEF ScannerProbe

\* A flush keeps the invariant: a failed change that was undone left nothing pending.
LEMMA FlushInv == Inv /\ Flush => Inv'
<1> SUFFICES ASSUME Inv, Flush PROVE Inv'
  OBVIOUS
<1>1. /\ flash' = pending
      /\ UNCHANGED <<p, sc, fault, reset, pending, result, frames, late, ran, unsent, unstored>>
  BY DEF Flush
<1>2. /\ flash' \in Slaves /\ pending' \in Slaves /\ unstored' \in BOOLEAN
      /\ AddressStored'
  BY <1>1 DEF Inv, RestOK, AddressStored
<1>3. QED
  BY <1>1, <1>2, StorageInv

\* A command keeps the invariant: it starts where nothing is pending.
LEMMA CommandInv == ASSUME NEW ws \in Commands PROVE Inv /\ Command(ws) => Inv'
<1> SUFFICES ASSUME Inv, Command(ws) PROVE Inv'
  OBVIOUS
<1>1. result' = "other" /\ UNCHANGED <<sc, fault, reset, pending, flash, frames, late, ran, unstored>>
  BY DEF Command
<1>2. CASE p' = p /\ unsent' = unsent
  BY <1>1, <1>2 DEF Inv, Sound, ScannerOK, HubOK, RestOK, OneMaster, Drained, LateInv,
              FaultInv, MatchInv, ValuesTrue, WritesOnce, ResultInv, AddressStored,
              InFlight, Busy
<1>3. CASE /\ Ready(p) /\ p.writes = <<>> /\ unsent' = Len(ws)
           /\ p' = [p EXCEPT !.writes = ws, !.pos = 0]
  <2>1. p \in ProtocolStates /\ ~p.maintenance /\ \E r \in Regs : p.age[r] # Stale
    BY <1>3, Constants DEF Inv, Sound, ProtocolTypes, Ready
  <2>2. ws # <<>> /\ Len(ws) \in Nat /\ Len(ws) > 0
    <3>1. ws \in Seq([reg : Regs, value : Nat]) /\ ws # <<>>
      BY CommandsAssumption
    <3>2. QED
      BY <3>1, EmptySeq
  <2>3. /\ p' \in ProtocolStates /\ p'.tx = p.tx /\ p'.requested = p.requested
        /\ p'.writes = ws /\ p'.pos = 0 /\ p'.verifying = p.verifying
        /\ p'.maintenance = p.maintenance /\ p'.wait = p.wait
        /\ p'.age = p.age /\ p'.from = p.from
    BY <1>3, <2>1 DEF ProtocolStates
  <2>4. ~p.verifying /\ (InFlight(p) => p.tx.current /\ p.tx.function # 6)
    BY <1>3, <2>1 DEF Inv, Sound, ProtocolInv, AllStale
  <2>5. NoTx.function # 6
    BY DEF NoTx
  <2>6. p.tx.function # 6
    BY <2>4, <2>5 DEF InFlight
  <2>7. Sound(p')
    BY <2>1, <2>2, <2>3, <2>4 DEF Inv, Sound, ProtocolTypes, ProtocolInv, InFlight
  <2>8. ScannerOK' /\ HubOK' /\ RestOK'
    BY <1>1, <1>3, <2>2 DEF Inv, ScannerOK, HubOK, RestOK, Busy
  <2>9. OneMaster' /\ Drained' /\ LateInv' /\ FaultInv' /\ MatchInv'
    BY <1>1, <2>3 DEF Inv, OneMaster, Drained, LateInv, FaultInv, MatchInv, InFlight, Busy
  <2>10. ValuesTrue' /\ ResultInv' /\ AddressStored'
    BY <1>1, <2>3 DEF Inv, ValuesTrue, ResultInv, AddressStored
  <2>11. WritesOnce'
    BY <1>1, <1>3, <2>2, <2>3, <2>4, <2>6 DEF WritesOnce
  <2>12. QED
    BY <2>7, <2>8, <2>9, <2>10, <2>11 DEF Inv
<1>4. QED
  BY <1>2, <1>3 DEF Command

\* A record just set up is sound.
LEMMA SetupInv ==
  ASSUME NEW a \in Slaves
  PROVE  LET n == Setup(a) IN
         /\ Sound(n) /\ n.requested = a /\ ~InFlight(n) /\ AllStale(n) /\ n.writes = <<>>
<1> DEFINE n == Setup(a)
<1>1. n \in ProtocolStates
  BY StaleTypes, Constants DEF Setup, ProtocolStates
<1>2. /\ n.requested = a /\ n.tx = NoTx /\ n.writes = <<>> /\ n.pos = 0 /\ ~n.verifying
      /\ ~n.maintenance /\ n.age = [r \in Regs |-> Stale]
  BY DEF Setup
<1> HIDE DEF n
<1>3. AllStale(n) /\ ~InFlight(n)
  BY <1>2 DEF AllStale, InFlight
<1>4. ProtocolInv(n)
  BY <1>2, <1>3 DEF ProtocolInv
<1>5. Sound(n)
  BY <1>1, <1>2, <1>4 DEF Sound, ProtocolTypes
<1>6. QED
  BY <1>2, <1>3, <1>5 DEF n

\* An address that could be loaded is the stored one, and either one is valid.
LEMMA LoadedFacts ==
  ASSUME NEW a \in Slaves, NEW failed \in BOOLEAN
  PROVE  Loaded(a, failed) \in Slaves /\ (~failed => Loaded(a, failed) = a)
  BY GuanjieAssumption DEF Loaded, Default

\* The invariant holds at setup.
LEMMA InitInv == Init => Inv
<1> SUFFICES ASSUME Init PROVE Inv
  OBVIOUS
<1>1. /\ Sound(p) /\ ~InFlight(p) /\ AllStale(p) /\ p.writes = <<>>
      /\ flash \in Slaves /\ pending = flash /\ unstored \in BOOLEAN
      /\ ~unstored => p.requested = flash
  BY LoadedFacts, SetupInv DEF Init
<1>2. sc \in ScannerStates /\ sc.phase = "idle" /\ sc.outcome = "none" /\ ~Busy
  BY ScannerTypes DEF Init, Busy
<1>3. frames = <<>> /\ Len(frames) = 0 /\ DOMAIN frames = {} /\ late = {}
  BY DEF Init
<1>4. fault = FALSE /\ reset = FALSE /\ result = "other" /\ ran = TRUE /\ unsent = 0
  BY DEF Init
<1>5. ScannerOK /\ HubOK /\ RestOK
  <2>1. <<>> \in Seq(Frames)
    BY EmptySeq
  <2>2. ScannerOK
    BY <1>2 DEF ScannerOK
  <2>3. HubOK
    BY <1>3, <2>1 DEF HubOK
  <2>4. RestOK
    <3>1. ran \in BOOLEAN /\ fault \in BOOLEAN /\ reset \in BOOLEAN
      BY <1>4
    <3>2. result \in {"confirmed", "other"} /\ unsent \in Int
      BY <1>4
    <3>3. QED
      BY <1>1, <3>1, <3>2 DEF RestOK
  <2>5. QED
    BY <2>2, <2>3, <2>4
<1>6. OneMaster /\ Drained /\ LateInv /\ FaultInv /\ MatchInv
  BY <1>1, <1>2, <1>3, <1>4 DEF OneMaster, Drained, LateInv, FaultInv, MatchInv
<1>7. ValuesTrue /\ WritesOnce /\ ResultInv /\ AddressStored
  BY <1>1, <1>2, <1>4 DEF ValuesTrue, AllStale, WritesOnce, ResultInv, AddressStored
<1>8. QED
  BY <1>1, <1>5, <1>6, <1>7 DEF Inv

\* The invariant holds after a restart that finds a stored address.
LEMMA RestartInv == ASSUME NEW a \in Slaves PROVE Restart(a) => Inv'
<1> SUFFICES ASSUME Restart(a) PROVE Inv'
  OBVIOUS
<1>0. /\ unstored' \in BOOLEAN /\ p' = Setup(Loaded(a, unstored'))
      /\ flash' = a /\ pending' = a
  BY DEF Restart
<1>1. /\ Sound(p') /\ ~InFlight(p') /\ AllStale(p') /\ p'.writes = <<>>
      /\ ~unstored' => p'.requested = a
  BY <1>0, LoadedFacts, SetupInv
<1>2. sc' \in ScannerStates /\ sc'.phase = "idle" /\ sc'.outcome = "none" /\ ~Busy'
  BY ScannerTypes DEF Restart, Busy
<1>3. frames' = <<>> /\ Len(frames') = 0 /\ DOMAIN frames' = {} /\ late' = {}
  BY DEF Restart
<1>4. fault' = FALSE /\ reset' = FALSE /\ result' = "other" /\ ran' = TRUE /\ unsent' = 0
  BY DEF Restart
<1>5. ScannerOK' /\ HubOK' /\ RestOK'
  <2>1. <<>> \in Seq(Frames)
    BY EmptySeq
  <2>2. ScannerOK'
    BY <1>2 DEF ScannerOK
  <2>3. HubOK'
    BY <1>3, <2>1 DEF HubOK
  <2>4. RestOK'
    <3>1. ran' \in BOOLEAN /\ fault' \in BOOLEAN /\ reset' \in BOOLEAN
      BY <1>4
    <3>2. result' \in {"confirmed", "other"} /\ unsent' \in Int
      BY <1>4
    <3>3. QED
      BY <1>0, <3>1, <3>2 DEF RestOK
  <2>5. QED
    BY <2>2, <2>3, <2>4
<1>6. OneMaster' /\ Drained' /\ LateInv' /\ FaultInv' /\ MatchInv'
  BY <1>1, <1>2, <1>3, <1>4 DEF OneMaster, Drained, LateInv, FaultInv, MatchInv
<1>7. ValuesTrue' /\ WritesOnce' /\ ResultInv' /\ AddressStored'
  BY <1>0, <1>1, <1>2, <1>4 DEF ValuesTrue, AllStale, WritesOnce, ResultInv, AddressStored
<1>8. QED
  BY <1>1, <1>5, <1>6, <1>7 DEF Inv

\* loop() keeps the invariant, the path of a failed WiFi reset included.
LEMMA LoopInv == Inv /\ Loop => Inv'
<1> SUFFICES ASSUME Inv, Loop PROVE Inv'
  OBVIOUS
<1>1. ran' = TRUE /\ UNCHANGED <<pending, late, unstored>>
  BY DEF Loop
<1>2. CASE UNCHANGED <<reset, flash>> /\ Busy /\ Scan
  BY <1>1, <1>2, ScanInv
<1>3. CASE UNCHANGED <<reset, flash>> /\ ~Busy /\ PollOrWrite(p)
  <2>1. Keeps(p)
    BY DEF Keeps, Inv
  <2>2. reset' \in BOOLEAN
    BY <1>3 DEF Inv, RestOK
  <2>3. QED
    BY <1>1, <1>3, <2>1, <2>2, PollOrWriteInv
<1>4. CASE /\ reset /\ reset' = FALSE /\ flash' \in {flash, pending}
           /\ PollOrWrite(ResumeAfterFailure(p))
  <2> DEFINE q == ResumeAfterFailure(p)
  <2>1. /\ Sound(q) /\ AllStale(q)
        /\ q.tx = p.tx /\ q.wait = p.wait /\ q.requested = p.requested
        /\ q.writes = p.writes /\ Sent(q) = Sent(p)
    BY ResumeSound DEF Inv
  <2> HIDE DEF q
  <2>2. Keeps(q)
    BY <2>1 DEF Keeps, AllStale
  <2>3. ~Busy
    BY <1>4 DEF Inv, OneMaster
  <2>4. PollOrWrite(q)
    BY <1>4 DEF q
  <2>5. QED
    BY <1>1, <1>4, <2>2, <2>3, <2>4, PollOrWriteInv
<1>5. QED
  BY <1>2, <1>3, <1>4 DEF Loop

\* The step of a callback that ends the frame of a probe.
LEMMA ProbeEndedInv ==
  ASSUME Inv, frames # <<>>, sc.phase = "in_flight",
         NEW outcome \in Outcomes,
         NEW origin \in Origins, sc' = Finished(sc, outcome, origin),
         outcome = "responded" => origin = <<sc.slave, sc.reg>>,
         frames' = Tail(frames), late' \in SUBSET Replies,
         UNCHANGED <<p, fault, reset, pending, flash, result, ran, unsent, unstored>>
  PROVE  Inv'
<1>1. ~fault /\ ~InFlight(p) /\ sc \in ScannerStates /\ sc.slave \in Slaves /\ ~reset
  BY DEF Inv, FaultInv, Drained, ScannerOK, OneMaster, Busy
<1>2. /\ sc' \in ScannerStates /\ sc'.phase = "cooldown" /\ sc'.left = Quiet /\ Quiet > 0
      /\ sc'.slave = sc.slave /\ sc'.reg = sc.reg
      /\ sc'.outcome = outcome /\ sc'.origin = origin
  <2> DEFINE n == Finished(sc, outcome, origin)
  <2>1. /\ n \in ScannerStates /\ n.phase = "cooldown" /\ n.left = Quiet
        /\ n.outcome = outcome /\ n.origin = origin /\ n.slave = sc.slave /\ n.reg = sc.reg
    BY <1>1, FinishedTypes
  <2>2. sc' = n
    OBVIOUS
  <2> HIDE DEF n
  <2>3. QED
    BY <2>1, <2>2, ScannerTypes
<1>3. frames' = <<>> /\ Len(frames') = 0 /\ DOMAIN frames' = {}
  BY <1>1, OneFrame
<1>4. Sound(p') /\ ~InFlight(p')
  BY <1>1 DEF Inv
<1>5. ScannerOK' /\ HubOK' /\ RestOK'
  <2>1. <<>> \in Seq(Frames)
    BY EmptySeq
  <2>2. QED
    BY <1>1, <1>2, <1>3, <2>1 DEF Inv, ScannerOK, HubOK, RestOK
<1>6. OneMaster' /\ Drained' /\ LateInv' /\ FaultInv' /\ MatchInv'
  <2>1. ~fault' /\ ~reset'
    BY <1>1
  <2>2. OneMaster'
    <3>1. sc'.phase # "in_flight" /\ Len(frames') <= 1
      BY <1>2, <1>3
    <3>2. \A k \in DOMAIN frames' : FALSE
      BY <1>3
    <3>3. QED
      BY <1>4, <2>1, <3>1, <3>2 DEF OneMaster
  <2>3. Drained' /\ FaultInv'
    BY <1>4, <2>1 DEF Drained, FaultInv
  <2>4. LateInv'
    BY <1>2, <1>3 DEF LateInv
  <2>5. MatchInv'
    BY <1>3 DEF MatchInv
  <2>6. QED
    BY <2>2, <2>3, <2>4, <2>5
<1>7. ValuesTrue' /\ WritesOnce' /\ ResultInv' /\ AddressStored'
  BY <1>2 DEF Inv, ValuesTrue, WritesOnce, ResultInv, AddressStored
<1>8. QED
  BY <1>4, <1>5, <1>6, <1>7 DEF Inv

\* The step of a callback that ends a transaction of the protocol.
LEMMA TransactionEndedInv ==
  ASSUME Inv, frames # <<>>, sc.phase # "in_flight",
         Sound(p'), p'.tx = NoTx, p'.requested = p.requested,
         p'.writes = <<>> \/ (p'.writes = p.writes /\ Sent(p') = Sent(p)),
         \A r \in Regs : p'.age[r] # Stale =>
           \/ p'.age[r] = p.age[r] /\ p'.from[r] = p.from[r]
           \/ ~fault => p'.from[r] = <<p.requested, r>>,
         \/ result' = "other"
         \/ result' = result /\ (p'.writes = p.writes \/ p'.writes = <<>>)
         \/ result' = "confirmed" /\ p'.writes = <<>> /\ p.writes # <<>> /\ Sent(p) = Len(p.writes),
         frames' = Tail(frames), late' \in SUBSET Replies,
         ~fault /\ late' # {} => p'.wait > 0,
         UNCHANGED <<sc, fault, reset, pending, flash, ran, unsent, unstored>>
  PROVE  Inv'
<1>1. frames' \in Seq(Frames)
  BY SequenceFacts DEF Inv, HubOK
<1>2. ScannerOK' /\ HubOK' /\ RestOK'
  BY <1>1 DEF Inv, ScannerOK, HubOK, RestOK, Busy
<1>3. ~fault => /\ frames' = <<>> /\ Len(frames') = 0 /\ DOMAIN frames' = {}
                /\ sc.phase \notin {"quiet", "in_flight", "cooldown"}
  BY OneFrame DEF Inv, Drained
<1>4. ~InFlight(p')
  BY DEF InFlight
<1>5. OneMaster' /\ Drained' /\ LateInv' /\ FaultInv' /\ MatchInv'
  BY <1>3, <1>4 DEF Inv, OneMaster, Drained, LateInv, FaultInv, MatchInv, Busy
<1>6. ValuesTrue'
  <2>1. fault' /\ p'.maintenance => AllStale(p')
    BY DEF Sound, ProtocolInv
  <2>2. QED
    BY <2>1 DEF Inv, ValuesTrue, AllStale
<1>7. WritesOnce' /\ ResultInv'
  <2>1. /\ p.writes # <<>> => Len(p.writes) - unsent = Sent(p)
        /\ result = "confirmed" => unsent = 0 /\ p.writes = <<>>
    BY DEF Inv, WritesOnce, ResultInv, Sent
  <2>2. Sent(p) \in Nat /\ Len(p.writes) \in Nat /\ unsent \in Int
    BY SentTypes DEF Inv, RestOK
  <2>3. p'.writes # <<>> => Len(p'.writes) - unsent' = Sent(p')
    BY <2>1
  <2>4. result' = "confirmed" => unsent' = 0 /\ p'.writes = <<>>
    BY <2>1, <2>2
  <2>5. QED
    BY <2>3, <2>4 DEF WritesOnce, ResultInv, Sent
<1>8. AddressStored'
  BY DEF Inv, AddressStored
<1>9. QED
  BY <1>2, <1>5, <1>6, <1>7, <1>8 DEF Inv

\* A reply keeps the invariant, whichever frame it answers.
LEMMA HubRepliesInv ==
  ASSUME NEW good \in BOOLEAN, NEW value PROVE Inv /\ HubReplies(good, value) => Inv'
<1> SUFFICES ASSUME Inv, HubReplies(good, value) PROVE Inv'
  OBVIOUS
<1>1. /\ frames # <<>> /\ frames' = Tail(frames)
      /\ UNCHANGED <<fault, reset, pending, flash, ran, unsent, unstored>>
  BY DEF HubReplies
<1>2. OnWire \in Frames /\ Reply(OnWire) \in Replies /\ late \in SUBSET Replies
  <2>1. frames \in Seq(Frames) /\ late \in SUBSET Replies
    BY DEF Inv, HubOK
  <2>2. Head(frames) \in Frames
    BY <1>1, <2>1, HeadTailProperties
  <2>3. QED
    BY <2>1, <2>2 DEF OnWire, Reply, Frames, Replies
<1>3. PICK r \in Replies :
        /\ OnResponse(r, good, value) /\ late' \in SUBSET Replies
        /\ ~fault => r = Reply(OnWire) /\ late' = {}
  <2>1. CASE OnResponse(Reply(OnWire), good, value) /\ late' = late
    BY <1>1, <1>2, <2>1, OneFrame
  <2>2. CASE \E r \in late : /\ OnResponse(r, good, value)
                              /\ late' = (late \ {r}) \cup {Reply(OnWire)}
    BY <1>1, <1>2, <2>2, OneFrame
  <2>3. QED
    BY <2>1, <2>2 DEF HubReplies
<1> DEFINE origin == <<r.slave, r.reg>>
<1>4. origin \in Origins
  BY DEF Replies, Origins
<1>5. ~fault => origin = <<OnWire.slave, OnWire.reg>>
  BY <1>3 DEF Reply
<1> HIDE DEF origin
<1>6. CASE sc.phase = "in_flight"
  <2>1. ~fault
    BY <1>6 DEF Inv, FaultInv
  <2>2. OnWire.slave = sc.slave /\ OnWire.reg = sc.reg
    BY <1>1, <1>6, <2>1, OneFrame DEF Inv, MatchInv
  <2>3. /\ UNCHANGED <<p, result>>
        /\ \/ sc' = Finished(sc, "responded", origin)
           \/ sc' = Finished(sc, "gateway_error", NoOrigin)
    BY <1>3, <1>6 DEF OnResponse, origin
  <2>4. NoOrigin \in Origins
    BY ScannerTypes
  <2>5. QED
    BY <1>1, <1>3, <1>4, <1>5, <1>6, <2>1, <2>2, <2>3, <2>4, ProbeEndedInv DEF Outcomes
<1>7. CASE sc.phase # "in_flight"
  <2>1. /\ p' = Response(p, good, value, origin) /\ sc' = sc
        /\ result' = CASE Confirms(p, good, value) -> "confirmed"
                       [] ~Confirms(p, good, value) /\ p'.writes # p.writes -> "other"
                       [] OTHER -> result
    BY <1>3, <1>7 DEF OnResponse, origin
  <2>2. /\ Sound(p') /\ p'.tx = NoTx /\ p'.requested = p.requested
        /\ \/ p'.writes = <<>>
           \/ p'.writes = p.writes /\ Sent(p') = Sent(p)
        /\ Confirms(p, good, value) =>
             p'.writes = <<>> /\ p.writes # <<>> /\ Sent(p) = Len(p.writes)
        /\ \A x \in Regs : p'.age[x] # Stale =>
             \/ p'.age[x] = p.age[x] /\ p'.from[x] = p.from[x]
             \/ InFlight(p) /\ p.tx.current /\ x = p.tx.reg /\ p'.from[x] = origin
    BY <1>4, <2>1, ResponseSound DEF Inv
  <2>3. InFlight(p) /\ p.tx.current => p.tx.slave = p.requested
    BY DEF Inv, Sound, ProtocolInv
  <2>4. ~fault => origin = <<p.tx.slave, p.tx.reg>>
    BY <1>1, <1>5, <1>7, OneFrame DEF Inv, MatchInv
  <2>5. \A x \in Regs : p'.age[x] # Stale =>
           \/ p'.age[x] = p.age[x] /\ p'.from[x] = p.from[x]
           \/ ~fault => p'.from[x] = <<p.requested, x>>
    BY <2>2, <2>3, <2>4
  <2>6. \/ result' = "other"
        \/ result' = result /\ (p'.writes = p.writes \/ p'.writes = <<>>)
        \/ result' = "confirmed" /\ p'.writes = <<>> /\ p.writes # <<>> /\ Sent(p) = Len(p.writes)
    BY <2>1, <2>2
  <2>7. QED
    BY <1>1, <1>3, <1>7, <2>1, <2>2, <2>5, <2>6, TransactionEndedInv
<1>8. QED
  BY <1>6, <1>7

\* A frame that fails keeps the invariant; its late reply finds a quiet interval.
LEMMA HubFailsInv ==
  ASSUME NEW outcome \in {"timeout", "modbus_exception", "gateway_error"}
  PROVE  Inv /\ HubFails(outcome) => Inv'
<1> SUFFICES ASSUME Inv, HubFails(outcome) PROVE Inv'
  OBVIOUS
<1>1. /\ frames # <<>> /\ frames' = Tail(frames) /\ OnFailure(outcome)
      /\ UNCHANGED <<fault, reset, pending, flash, ran, unsent, unstored>>
  BY DEF HubFails
<1>2. late' \in SUBSET Replies
  <2>1. frames \in Seq(Frames) /\ late \in SUBSET Replies
    BY DEF Inv, HubOK
  <2>2. Head(frames) \in Frames
    BY <1>1, <2>1, HeadTailProperties
  <2>3. Reply(OnWire) \in Replies
    BY <2>2 DEF OnWire, Reply, Frames, Replies
  <2>4. QED
    BY <2>1, <2>3 DEF HubFails
<1>3. CASE sc.phase = "in_flight"
  <2>1. sc' = Finished(sc, outcome, NoOrigin) /\ UNCHANGED <<p, result>> /\ NoOrigin \in Origins
    BY <1>1, <1>3, ScannerTypes DEF OnFailure
  <2>2. QED
    BY <1>1, <1>2, <1>3, <2>1, ProbeEndedInv DEF Outcomes
<1>4. CASE sc.phase # "in_flight"
  <2>1. /\ p' = Failure(p) /\ sc' = sc
        /\ result' = IF p.writes # p'.writes THEN "other" ELSE result
    BY <1>1, <1>4 DEF OnFailure
  <2>2. /\ Sound(p') /\ p'.tx = NoTx /\ p'.requested = p.requested
        /\ InFlight(p) => p'.wait = Quiet /\ p'.writes = <<>>
        /\ ~InFlight(p) => p' = p
        /\ \A r \in Regs : p'.age[r] # Stale => p'.age[r] = p.age[r] /\ p'.from[r] = p.from[r]
    BY <2>1, FailureSound DEF Inv
  <2>3. ~fault => InFlight(p)
    BY <1>1, <1>4, OneFrame
  <2>4. ~fault => p'.wait > 0
    BY <2>2, <2>3, ScannerTypes
  <2>5. p'.writes = <<>> \/ (p'.writes = p.writes /\ Sent(p') = Sent(p))
    BY <2>2
  <2>6. QED
    BY <1>1, <1>2, <1>4, <2>1, <2>2, <2>4, <2>5, TransactionEndedInv
<1>5. QED
  BY <1>3, <1>4
------------------------------------------------------------------------------
\* Every step keeps the invariant.
LEMMA StepInv == Inv /\ [Next]_vars => Inv'
<1> SUFFICES ASSUME Inv, [Next]_vars PROVE Inv'
  OBVIOUS
<1>1. CASE Tick
  BY <1>1, TickInv
<1>2. CASE Loop
  BY <1>2, LoopInv
<1>3. CASE LoopReboots \/ Reboot
  <2>1. pending \in Slaves /\ flash \in Slaves
    BY DEF Inv, RestOK
  <2>2. QED
    BY <1>3, <2>1, RestartInv DEF LoopReboots, Reboot
<1>4. CASE RequestWifiReset
  BY <1>4, RequestWifiResetInv
<1>5. CASE Flush
  BY <1>5, FlushInv
<1>6. CASE \E s \in Slaves : RequestAddress(s) \/ \E r \in Regs : ScannerProbe(s, r)
  BY <1>6, RequestAddressInv, ScannerProbeInv
<1>7. CASE \E ws \in Commands : Command(ws)
  BY <1>7, CommandInv
<1>8. CASE \E good \in BOOLEAN, v \in Values : HubReplies(good, v)
  BY <1>8, HubRepliesInv
<1>9. CASE \E o \in {"timeout", "modbus_exception", "gateway_error"} : HubFails(o)
  BY <1>9, HubFailsInv
<1>10. CASE UNCHANGED vars
  BY <1>10 DEF vars, Inv, Sound, ScannerOK, HubOK, RestOK, OneMaster, Drained, LateInv,
              FaultInv, MatchInv, ValuesTrue, WritesOnce, ResultInv, AddressStored,
              InFlight, Busy
<1>11. QED
  BY <1>1, <1>2, <1>3, <1>4, <1>5, <1>6, <1>7, <1>8, <1>9, <1>10 DEF Next

\* The invariant holds always.
LEMMA Invariance == Spec => []Inv
<1>1. QED
  BY InitInv, StepInv, PTL DEF Spec

\* Types of every variable, for all constants.  (guanjie.h, protocol.h, scanner.h)
THEOREM TypesCorrect == Spec => []TypeOK
<1>1. Inv => TypeOK
  BY DEF Inv, TypeOK, Sound, ProtocolTypes, ScannerOK, HubOK, RestOK
<1>2. QED
  BY <1>1, Invariance, PTL

\* While no watchdog has fired, polling, writes and probes never have two frames in the hub, and
\* a callback always finds the sender it is for; a WiFi reset never meets a probe.  (loop(),
\* scanner_probe(), request_wifi_reset())
THEOREM OneMasterHolds == Spec => []OneMaster
<1>1. Inv => OneMaster
  BY DEF Inv
<1>2. QED
  BY <1>1, Invariance, PTL

\* A fresh value was read from its register of the slave asked for, and an answered probe from
\* its own: no late reply or one of an older address is taken for it.  (on_response, response())
THEOREM ValuesTrueHold == Spec => []ValuesTrue
<1>1. Inv => ValuesTrue
  BY DEF Inv
<1>2. QED
  BY <1>1, Invariance, PTL

\* Each write is sent at most once, a confirmed command sent all of its writes, and the stored
\* address is the one in force.  (next(), response(), request_address())
THEOREM CommandsTrueHold == Spec => []CommandsTrue
<1>1. Inv => CommandsTrue
  BY DEF Inv, CommandsTrue
<1>2. QED
  BY <1>1, Invariance, PTL
==============================================================================
