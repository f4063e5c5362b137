--------------------------- MODULE CoordinatorProofs ---------------------------
(* Proofs about Coordinator for any number of Scans, Gateways, Buses, addresses   *)
(* and callers.  First the helpers, then EndStep, the shape every end of a Scan   *)
(* has, the inductive invariant Inv with one lemma per action, and the theorems.  *)
EXTENDS Coordinator, TLAPS, FiniteSetTheorems, SequenceTheorems
------------------------------------------------------------------------------
(* The inductive invariant. *)

\* A Scan is in _tasks while it runs, its task runs only then, and an id not handed
\* out has none.
TasksMatch ==
  \A i \in ScanIds :
    /\ task[i] = "none" <=> ~Used(i)
    /\ task[i] \in {"scheduled", "running"} => Running(i)
    /\ i \in tasks <=> Running(i)

\* A Scan that asked for a Bus is on it.
BusOfKey ==
  \A i \in ScanIds : Used(i) /\ scan[i].key[2] # NoBus => scan[i].bus = scan[i].key[2]

\* The keys of Scans that run together do not conflict.
KeysApart ==
  \A i, j \in ScanIds : i # j /\ Running(i) /\ Running(j) => ~Conflicts(scan[i].key, scan[j].key)

\* The order of ended Scans holds no other.
TerminalEnded == \A k \in DOMAIN terminal : Ended(terminal[k])

\* A call of async_shutdown that began refuses new Scans and has every running one in
\* its snapshot; one that returned left none.
SnapshotsComplete ==
  \A c \in Callers :
    /\ caller[c] # "idle" => shuttingDown
    /\ caller[c] \in {"grace", "gather"} => \A i \in ScanIds : Running(i) => i \in snapshot[c]
    /\ caller[c] = "done" => \A i \in ScanIds : ~Running(i)

\* What relates the records to the Scans.
Records == RecordsAgree /\ BusOfKey /\ KeysApart /\ TerminalEnded

\* The inductive invariant.
Inv == TypeOK /\ Records /\ TasksMatch /\ SnapshotsComplete
------------------------------------------------------------------------------
(* Helpers. *)

\* A state of a Scan has the fields and types of ScanStates.
LEMMA StateFields ==
  ASSUME NEW s \in ScanStates
  PROVE  /\ s.key \in Keys /\ s.bus \in Buses \cup {NoBus}
         /\ s.phase \in {"running"} \cup EndPhases
         /\ s.cancel \in BOOLEAN /\ s.emitted \in SUBSET Addresses /\ s.completed \in Nat
         /\ s # Unused /\ s.phase # "unused"
  BY DEF ScanStates, Unused, EndPhases

\* A Scan is unused, running or ended, and the last two have their state.
LEMMA Phases ==
  ASSUME TypeOK, NEW i \in ScanIds
  PROVE  /\ Used(i) => scan[i] \in ScanStates
         /\ Used(i) <=> Running(i) \/ Ended(i)
         /\ ~(Running(i) /\ Ended(i))
<1>1. scan[i] \in ScanStates \/ scan[i] = Unused
  BY DEF TypeOK
<1>2. CASE scan[i] = Unused
  BY <1>2 DEF Used, Unused, Running, Ended, EndPhases
<1>3. CASE scan[i] \in ScanStates
  BY <1>3, StateFields DEF Used, Running, Ended, EndPhases
<1>4. QED
  BY <1>1, <1>2, <1>3

\* No Scan holds the key NoScan stands for.
LEMMA NoScanFresh == \A i \in ScanIds : i # NoScan
  BY CoordinatorAssumption

\* The newest of an order of different Scans are different Scans of that order.
LEMMA NewestFacts ==
  ASSUME NEW order \in Seq(ScanIds), IsInjective(order)
  PROVE  /\ Newest(order) \in Seq(ScanIds) /\ Len(Newest(order)) <= MaxHistory
         /\ IsInjective(Newest(order))
         /\ Range(Newest(order)) \subseteq Range(order)
<1> DEFINE n == Len(order)
           m == n - MaxHistory + 1
           new == SubSeq(order, m, n)
<1>1. n \in Nat /\ MaxHistory \in Nat \ {0} /\ DOMAIN order = 1..n
  BY CoordinatorAssumption, LenProperties
<1>2. CASE n <= MaxHistory
  <2>1. Newest(order) = order
    BY <1>1, <1>2 DEF Newest
  <2>2. QED
    BY <2>1, <1>2
<1>3. CASE n > MaxHistory
  <2>1. Newest(order) = new
    BY <1>1, <1>3 DEF Newest
  <2>2. m \in 1..n /\ n - m + 1 = MaxHistory /\ \A k \in m..n : order[k] \in ScanIds
    BY <1>1, <1>3, ElementOfSeq
  <2>3. /\ new \in Seq(ScanIds) /\ Len(new) = MaxHistory
        /\ \A k \in 1..MaxHistory : new[k] = order[m + k - 1]
    <3> HIDE DEF m, n
    <3>1. m \in Int /\ n \in Int
      BY <1>1, <2>2
    <3>2. QED
      BY <3>1, <2>2, SubSeqProperties
  <2>4. DOMAIN new = 1..MaxHistory
    BY <2>3, LenProperties
  <2>5. \A k \in 1..MaxHistory : m + k - 1 \in 1..n
    BY <1>1, <2>2
  <2> HIDE DEF new, m
  <2>6. IsInjective(new)
    <3> SUFFICES ASSUME NEW a \in 1..MaxHistory, NEW b \in 1..MaxHistory, new[a] = new[b]
                 PROVE  a = b
      BY <2>4 DEF IsInjective
    <3>1. order[m + a - 1] = order[m + b - 1]
      BY <2>3
    <3>2. m + a - 1 = m + b - 1
      BY <3>1, <2>5, <1>1 DEF IsInjective
    <3>3. QED
      BY <3>2, <2>2, <1>1
  <2>7. Range(new) \subseteq Range(order)
    BY <2>3, <2>4, <2>5, <1>1 DEF Range
  <2>8. QED
    BY <2>1, <2>3, <2>6, <2>7, <1>1
<1>4. QED
  BY <1>1, <1>2, <1>3

\* An order followed by other Scans.
LEMMA AppendedFacts ==
  ASSUME NEW old \in Seq(ScanIds), IsInjective(old),
         NEW new \in Seq(ScanIds), IsInjective(new),
         Range(old) \cap Range(new) = {}
  PROVE  /\ old \o new \in Seq(ScanIds) /\ IsInjective(old \o new)
         /\ Range(old \o new) = Range(old) \cup Range(new)
<1> DEFINE both == old \o new
           n == Len(old)
           m == Len(new)
<1>1. n \in Nat /\ m \in Nat /\ DOMAIN old = 1..n /\ DOMAIN new = 1..m
  BY LenProperties
<1>2. /\ both \in Seq(ScanIds) /\ Len(both) = n + m
      /\ \A k \in 1..n + m : both[k] = IF k <= n THEN old[k] ELSE new[k - n]
  BY ConcatProperties
<1>3. DOMAIN both = 1..(n + m)
  BY <1>2, LenProperties
<1> HIDE DEF both, n, m
<1>4. \A k \in 1..n : k \in DOMAIN both /\ both[k] = old[k] /\ both[k] \in Range(old)
  <2> TAKE k \in 1..n
  <2>1. k \in 1..n + m /\ k <= n
    BY <1>1
  <2>2. both[k] = old[k] /\ k \in DOMAIN both
    BY <1>2, <1>3, <2>1
  <2>3. QED
    BY <1>1, <2>2 DEF Range
<1>5. \A k \in DOMAIN both :
        k \notin 1..n => k - n \in 1..m /\ both[k] = new[k - n] /\ both[k] \in Range(new)
  <2> SUFFICES ASSUME NEW k \in DOMAIN both, k \notin 1..n
               PROVE  k - n \in 1..m /\ both[k] = new[k - n] /\ both[k] \in Range(new)
    OBVIOUS
  <2>1. k \in 1..n + m /\ ~(k <= n) /\ k - n \in 1..m
    BY <1>1, <1>3
  <2>2. both[k] = new[k - n]
    BY <1>2, <2>1
  <2>3. QED
    BY <1>1, <2>1, <2>2 DEF Range
<1>6. \A k \in 1..m : k + n \in DOMAIN both /\ both[k + n] = new[k]
  BY <1>1, <1>2, <1>3
<1>7. IsInjective(both)
  <2> SUFFICES ASSUME NEW a \in DOMAIN both, NEW b \in DOMAIN both, both[a] = both[b]
               PROVE  a = b
    BY DEF IsInjective
  <2>1. CASE a \in 1..n /\ b \in 1..n
    BY <2>1, <1>1, <1>4 DEF IsInjective
  <2>2. CASE a \notin 1..n /\ b \notin 1..n
    <3>1. a - n = b - n
      BY <2>2, <1>1, <1>5 DEF IsInjective
    <3>2. QED
      BY <3>1, <1>1, <1>3
  <2>3. CASE ~(a \in 1..n <=> b \in 1..n)
    BY <2>3, <1>4, <1>5
  <2>4. QED
    BY <2>1, <2>2, <2>3
<1>8. Range(both) = Range(old) \cup Range(new)
  <2>1. \A x \in Range(both) : x \in Range(old) \cup Range(new)
    BY <1>4, <1>5 DEF Range
  <2>2. \A x \in Range(old) : x \in Range(both)
    BY <1>1, <1>4 DEF Range
  <2>3. \A x \in Range(new) : x \in Range(both)
    BY <1>1, <1>6 DEF Range
  <2>4. QED
    BY <2>1, <2>2, <2>3
<1>9. QED
  BY <1>2, <1>7, <1>8 DEF both
------------------------------------------------------------------------------
(* The end of Scans, however they end. *)

\* s is how a running Scan is, t how it ended.
EndState(s, t) ==
  /\ t \in ScanStates /\ t.key = s.key /\ t.bus = s.bus /\ t.phase \in EndPhases
  /\ t.completed = Cardinality(t.emitted)
  /\ t.phase = "completed" => t.emitted = Addresses /\ ~t.cancel
  /\ s.cancel => t.phase # "completed"

\* The Scans of ids end together.
EndStep(ids) ==
  /\ \A i \in ids : i \in ScanIds /\ Running(i)
  /\ scan' \in [ScanIds -> ScanStates \cup {Unused}]
  /\ \A i \in ScanIds : IF i \in ids THEN EndState(scan[i], scan'[i]) ELSE scan'[i] = scan[i]
  /\ active' = SlotsDropped(ids)
  /\ \E order \in Seq(ScanIds) :
       /\ IsInjective(order) /\ Range(order) = ids
       /\ RecordTerminal(order)
       /\ tasks' = tasks \ (ids \cup Forgotten(terminal \o order))

\* Who runs and who has ended after the end of some Scans.
LEMMA EndPhasesAfter ==
  ASSUME TypeOK, NEW ids, EndStep(ids), NEW i \in ScanIds
  PROVE  /\ Running(i)' <=> Running(i) /\ i \notin ids
         /\ Ended(i)' <=> Ended(i) \/ i \in ids
         /\ Used(i)' <=> Used(i)
         /\ Used(i) => scan'[i].key = scan[i].key /\ scan'[i].bus = scan[i].bus
         /\ Ended(i) => i \notin ids
<1>1. CASE i \notin ids
  BY <1>1 DEF EndStep, Running, Ended, Used
<1>2. CASE i \in ids
  <2>1. /\ Running(i) /\ scan'[i] \in ScanStates /\ scan'[i].phase \in EndPhases
        /\ scan'[i].key = scan[i].key /\ scan'[i].bus = scan[i].bus
    BY <1>2 DEF EndStep, EndState
  <2>2. scan'[i] # Unused /\ Used(i) /\ ~Ended(i)
    BY <2>1, Phases, StateFields
  <2>3. QED
    BY <1>2, <2>1, <2>2 DEF Running, Ended, Used, EndPhases
<1>3. QED
  BY <1>1, <1>2

\* HistoryAgrees for one Scan.
HistoryOf(i) ==
  /\ i \in refused => Ended(i)
  /\ i \in pending <=> Running(i) \/ i \in refused
  /\ recorded[i] = IF Ended(i) /\ i \notin refused THEN scan[i].phase ELSE "none"

\* The variables EndStep sets keep their types.
LEMMA EndTypes ==
  ASSUME TypeOK, Records, NEW ids, EndStep(ids)
  PROVE  /\ scan' \in [ScanIds -> ScanStates \cup {Unused}]
         /\ scans' \in SUBSET ScanIds /\ tasks' \in SUBSET ScanIds
         /\ active' \in [Keys -> ScanIds \cup {NoScan}]
         /\ terminal' \in Seq(ScanIds)
         /\ pending' \in SUBSET ScanIds /\ refused' \in SUBSET ScanIds
         /\ recorded' \in [ScanIds -> EndPhases \cup {"none"}]
<1>1. active' \in [Keys -> ScanIds \cup {NoScan}]
  BY DEF EndStep, SlotsDropped, TypeOK
<1>2. PICK order \in Seq(ScanIds) :
        /\ IsInjective(order) /\ Range(order) = ids /\ RecordTerminal(order)
        /\ tasks' = tasks \ (ids \cup Forgotten(terminal \o order))
  BY DEF EndStep
<1>3. /\ scans' \in SUBSET ScanIds /\ pending' \in SUBSET ScanIds
      /\ tasks' \in SUBSET ScanIds /\ refused' \in SUBSET ScanIds
  BY <1>2 DEF EndStep, RecordTerminal, Remember, NotPending, TypeOK
<1>4. recorded' \in [ScanIds -> EndPhases \cup {"none"}]
  <2>1. \A i \in ids : FinalStatus(i) \in EndPhases
    BY DEF EndStep, EndState, FinalStatus
  <2>2. PICK taken \in SUBSET ids :
          recorded' = [i \in ScanIds |-> IF i \in taken THEN FinalStatus(i) ELSE recorded[i]]
    BY <1>2 DEF RecordTerminal, Remember
  <2>3. QED
    BY <2>1, <2>2 DEF TypeOK
<1>5. terminal' \in Seq(ScanIds)
  <2>1. Range(terminal) \cap Range(order) = {}
    <3>1. \A k \in DOMAIN terminal : terminal[k] \in ScanIds /\ Ended(terminal[k])
      BY LenProperties, ElementOfSeq DEF Records, TerminalEnded, TypeOK
    <3>2. \A i \in ids : i \in ScanIds /\ ~Ended(i)
      BY Phases DEF EndStep
    <3>3. QED
      BY <1>2, <3>1, <3>2 DEF Range
  <2>2. terminal \in Seq(ScanIds) /\ IsInjective(terminal)
    BY DEF TypeOK, Records, RecordsAgree, OnlyEndedForgotten
  <2>3. terminal \o order \in Seq(ScanIds) /\ IsInjective(terminal \o order)
    BY <1>2, <2>1, <2>2, AppendedFacts
  <2>4. QED
    BY <1>2, <2>3, NewestFacts DEF RecordTerminal
<1>6. QED
  BY <1>1, <1>3, <1>4, <1>5 DEF EndStep

\* A key is held by the Scans that still run, and by no other.
LEMMA EndKeepsSlots ==
  ASSUME TypeOK, Records, NEW ids, EndStep(ids)
  PROVE  SlotsMatchRunning'
<1>1. SUFFICES ASSUME NEW i \in ScanIds, NEW key \in Keys
               PROVE  active'[key] = i <=> Running(i)' /\ scan'[i].key = key
  BY DEF SlotsMatchRunning
<1>2. active'[key] = IF \E j \in ids : scan[j].key = key /\ active[key] = j THEN NoScan ELSE active[key]
  BY DEF EndStep, SlotsDropped
<1>3. active[key] = i <=> Running(i) /\ scan[i].key = key
  BY DEF Records, RecordsAgree, SlotsMatchRunning
<1>4. Running(i) => scan'[i].key = scan[i].key
  BY EndPhasesAfter, Phases
<1>5. Running(i)' <=> Running(i) /\ i \notin ids
  BY EndPhasesAfter
<1>6. CASE i \in ids
  BY <1>2, <1>3, <1>5, <1>6, NoScanFresh
<1>7. CASE i \notin ids
  <2>1. active'[key] = i <=> active[key] = i
    BY <1>2, <1>7, NoScanFresh
  <2>2. QED
    BY <2>1, <1>3, <1>4, <1>5, <1>7
<1>8. QED
  BY <1>6, <1>7

\* Counts and phases stay right.
LEMMA EndKeepsCounts ==
  ASSUME TypeOK, Records, NEW ids, EndStep(ids)
  PROVE  CountsAgree'
<1>1. SUFFICES ASSUME NEW i \in ScanIds, Used(i)'
               PROVE  /\ scan'[i].completed = Cardinality(scan'[i].emitted)
                      /\ scan'[i].phase = "completed" =>
                           scan'[i].emitted = Addresses /\ ~scan'[i].cancel
  BY DEF CountsAgree
<1>2. CASE i \in ids
  BY <1>2 DEF EndStep, EndState
<1>3. CASE i \notin ids
  <2>1. scan'[i] = scan[i] /\ Used(i)
    BY <1>1, <1>3, EndPhasesAfter DEF EndStep
  <2>2. QED
    BY <2>1 DEF Records, RecordsAgree, CountsAgree
<1>4. QED
  BY <1>2, <1>3

\* The history learns how each of them ended, or refuses to.
LEMMA EndKeepsHistory ==
  ASSUME TypeOK, Records, NEW ids, EndStep(ids)
  PROVE  HistoryAgrees'
<1>1. PICK order : Range(order) = ids /\ RecordTerminal(order)
  BY DEF EndStep
<1>2. PICK taken \in SUBSET ids :
        /\ pending' = pending \ taken
        /\ recorded' = [i \in ScanIds |-> IF i \in taken THEN scan'[i].phase ELSE recorded[i]]
        /\ refused' = refused \cup (ids \ taken)
  BY <1>1 DEF RecordTerminal, Remember, NotPending, FinalStatus
<1>3. SUFFICES ASSUME NEW i \in ScanIds
               PROVE  HistoryOf(i)'
  BY DEF HistoryAgrees, HistoryOf
<1>4. HistoryOf(i)
  BY DEF Records, RecordsAgree, HistoryAgrees, HistoryOf
<1>5. CASE i \in ids
  <2>1. Running(i) /\ ~Ended(i) /\ ~Running(i)' /\ Ended(i)'
    BY <1>5, EndPhasesAfter, Phases DEF EndStep
  <2>2. i \notin refused /\ i \in pending /\ recorded[i] = "none"
    BY <1>4, <2>1 DEF HistoryOf
  <2>3. /\ i \in refused' <=> i \notin taken
        /\ i \in pending' <=> i \notin taken
        /\ recorded'[i] = IF i \in taken THEN scan'[i].phase ELSE "none"
    BY <1>2, <1>5, <2>2
  <2>4. QED
    BY <2>1, <2>3 DEF HistoryOf
<1>6. CASE i \notin ids
  <2>1. scan'[i] = scan[i] /\ (Ended(i)' <=> Ended(i)) /\ (Running(i)' <=> Running(i))
    BY <1>6, EndPhasesAfter DEF EndStep
  <2>2. /\ i \in refused' <=> i \in refused
        /\ i \in pending' <=> i \in pending
        /\ recorded'[i] = recorded[i]
    BY <1>2, <1>6
  <2>3. QED
    BY <1>4, <2>1, <2>2 DEF HistoryOf
<1>7. QED
  BY <1>5, <1>6

\* The ended Scans are remembered, the oldest forgotten.
LEMMA EndKeepsOrder ==
  ASSUME TypeOK, Records, TasksMatch, NEW ids, EndStep(ids)
  PROVE  OnlyEndedForgotten' /\ TerminalEnded' /\ \A i \in ScanIds : i \in tasks' <=> Running(i)'
<1>1. PICK order \in Seq(ScanIds) :
        /\ IsInjective(order) /\ Range(order) = ids /\ RecordTerminal(order)
        /\ tasks' = tasks \ (ids \cup Forgotten(terminal \o order))
  BY DEF EndStep
<1> DEFINE both == terminal \o order
           new == Newest(both)
<1>2. /\ terminal \in Seq(ScanIds) /\ IsInjective(terminal)
      /\ scans = {i \in ScanIds : Running(i)} \cup Range(terminal)
  BY DEF TypeOK, Records, RecordsAgree, OnlyEndedForgotten
<1>3. \A i \in Range(terminal) : i \in ScanIds /\ Ended(i)
  BY LenProperties, ElementOfSeq DEF Records, TerminalEnded, TypeOK, Range
<1>4. \A i \in ids : i \in ScanIds /\ Running(i) /\ ~Ended(i)
  BY Phases DEF EndStep
<1>5. /\ both \in Seq(ScanIds) /\ IsInjective(both)
      /\ Range(both) = Range(terminal) \cup ids
  <2>1. Range(terminal) \cap Range(order) = {}
    BY <1>1, <1>3, <1>4
  <2>2. QED
    BY <1>1, <1>2, <2>1, AppendedFacts
<1>6. /\ new \in Seq(ScanIds) /\ Len(new) <= MaxHistory /\ IsInjective(new)
      /\ Range(new) \subseteq Range(both)
  <2> HIDE DEF both
  <2> QED
    BY <1>5, NewestFacts
<1>7. /\ terminal' = new /\ scans' = scans \ (Range(both) \ Range(new))
      /\ tasks' = tasks \ (ids \cup (Range(both) \ Range(new)))
  BY <1>1 DEF RecordTerminal, Forgotten
<1> HIDE DEF new, both
<1>8. \A i \in Range(both) : i \in ScanIds /\ Ended(i)' /\ ~Running(i)'
  <2> TAKE i \in Range(both)
  <2>1. i \in ScanIds /\ (Ended(i) \/ i \in ids)
    BY <1>3, <1>4, <1>5
  <2>2. Ended(i)' /\ ~Running(i)'
    BY <2>1, EndPhasesAfter, Phases
  <2>3. QED
    BY <2>1, <2>2
<1>9. \A i \in ScanIds : Running(i) <=> Running(i)' \/ i \in ids
  BY <1>4, EndPhasesAfter
<1>10. scans' = {i \in ScanIds : Running(i)'} \cup Range(new)
  <2>1. ASSUME NEW i PROVE i \in scans' <=> (i \in ScanIds /\ Running(i)') \/ i \in Range(new)
    <3>1. i \in scans <=> (i \in ScanIds /\ Running(i)') \/ i \in Range(both)
      BY <1>2, <1>4, <1>5, <1>9
    <3>2. QED
      BY <1>6, <1>7, <1>8, <3>1
  <2>2. QED
    BY <2>1
<1>11. \A i \in ScanIds : i \in tasks' <=> Running(i)'
  <2> TAKE i \in ScanIds
  <2>1. i \in tasks <=> Running(i)
    BY DEF TasksMatch
  <2>2. i \in tasks' <=> i \in tasks /\ i \notin ids /\ ~(i \in Range(both) /\ i \notin Range(new))
    BY <1>7
  <2>3. QED
    BY <2>1, <2>2, <1>8, <1>9, EndPhasesAfter
<1>12. TerminalEnded'
  <2>1. \A k \in DOMAIN new : new[k] \in Range(both)
    BY <1>6 DEF Range
  <2>2. \A i \in Range(both) : scan'[i].phase \in EndPhases
    BY <1>8 DEF Ended
  <2>3. \A k \in DOMAIN terminal' : scan'[terminal'[k]].phase \in EndPhases
    BY <1>7, <2>1, <2>2
  <2>4. QED
    BY <2>3 DEF TerminalEnded, Ended
<1>13. QED
  BY <1>6, <1>7, <1>10, <1>11, <1>12 DEF OnlyEndedForgotten

\* The Scans left are as far apart as before.
LEMMA EndKeepsRecords ==
  ASSUME TypeOK, Records, TasksMatch, NEW ids, EndStep(ids)
  PROVE  Records' /\ \A i \in ScanIds : i \in tasks' <=> Running(i)'
<1>1. BusOfKey'
  <2>1. \A i \in ScanIds : Used(i)' =>
          Used(i) /\ scan'[i].key = scan[i].key /\ scan'[i].bus = scan[i].bus
    BY EndPhasesAfter
  <2>2. QED
    BY <2>1 DEF Records, BusOfKey
<1>2. KeysApart'
  <2>1. \A i \in ScanIds : Running(i)' => Running(i) /\ scan'[i].key = scan[i].key
    BY EndPhasesAfter, Phases
  <2>2. QED
    BY <2>1 DEF Records, KeysApart, Conflicts
<1>3. QED
  BY <1>1, <1>2, EndKeepsSlots, EndKeepsCounts, EndKeepsHistory, EndKeepsOrder
     DEF Records, RecordsAgree
------------------------------------------------------------------------------
(* Every end of a Scan is an EndStep. *)

\* Every way the provider or the task ends leaves a running Scan ended, each outcome
\* counted once.
LEMMA EndStates ==
  ASSUME TypeOK, Records, NEW i \in ScanIds, Running(i)
  PROVE  /\ \A a \in Addresses : EndState(scan[i], WithError(scan[i], a))
         /\ \A t \in AsReturned(scan[i]) : EndState(scan[i], t)
         /\ EndState(scan[i], [scan[i] EXCEPT !.cancel = TRUE, !.phase = "cancelled"])
         /\ EndState(scan[i], [scan[i] EXCEPT !.phase = "cancelled"])
<1> DEFINE s == scan[i]
<1>1. s \in ScanStates /\ s.completed = Cardinality(s.emitted)
  BY Phases DEF Records, RecordsAgree, CountsAgree
<1> HIDE DEF s
<1>2. ASSUME NEW a \in Addresses PROVE EndState(s, WithError(s, a))
  <2> DEFINE t == WithError(s, a)
             count == IF a \in s.emitted THEN s.completed ELSE s.completed + 1
  <2>1. /\ s.emitted \in SUBSET Addresses /\ s.completed \in Nat
        /\ s.emitted \cup {a} \in SUBSET Addresses
    BY <1>1, StateFields
  <2>2. count = Cardinality(s.emitted \cup {a}) /\ count \in Nat
    <3>1. IsFiniteSet(s.emitted)
      BY <2>1, CoordinatorAssumption, FS_Subset
    <3>2. Cardinality(s.emitted \cup {a}) =
            IF a \in s.emitted THEN Cardinality(s.emitted) ELSE Cardinality(s.emitted) + 1
      BY <3>1, FS_AddElement
    <3>3. QED
      BY <1>1, <2>1, <3>2
  <2>3. t = [s EXCEPT !.phase = "failed", !.completed = count, !.emitted = s.emitted \cup {a}]
    BY <1>1 DEF WithError, ScanStates
  <2> HIDE DEF count, t
  <2>4. t \in ScanStates
    BY <1>1, <2>1, <2>2, <2>3 DEF ScanStates, EndPhases
  <2>5. t.key = s.key /\ t.bus = s.bus /\ t.phase = "failed"
        /\ t.completed = count /\ t.emitted = s.emitted \cup {a}
    BY <1>1, <2>3 DEF ScanStates
  <2>6. EndState(s, t)
    BY <2>2, <2>4, <2>5 DEF EndState, EndPhases
  <2>7. QED
    BY <2>6 DEF t
<1>3. ASSUME NEW p \in EndPhases, NEW b \in BOOLEAN,
             p = "completed" => s.emitted = Addresses /\ ~b,
             s.cancel => p # "completed",
             NEW t, t = [s EXCEPT !.cancel = b, !.phase = p]
      PROVE  EndState(s, t)
  <2>1. t \in ScanStates
    BY <1>1, <1>3 DEF ScanStates
  <2>2. /\ t.key = s.key /\ t.bus = s.bus /\ t.phase = p
        /\ t.completed = s.completed /\ t.emitted = s.emitted
    BY <1>1, <1>3 DEF ScanStates
  <2>3. t.cancel = b
    BY <1>1, <1>3 DEF ScanStates
  <2>4. t.phase = "completed" => t.emitted = Addresses /\ ~t.cancel
    BY <1>3, <2>2, <2>3
  <2>5. s.cancel => t.phase # "completed"
    BY <1>3, <2>2
  <2>6. t.completed = Cardinality(t.emitted)
    BY <1>1, <2>2
  <2>7. QED
    BY <2>1, <2>2, <2>4, <2>5, <2>6, <1>3 DEF EndState
<1>4. \A p \in EndPhases : [s EXCEPT !.phase = p] = [s EXCEPT !.cancel = s.cancel, !.phase = p]
  BY <1>1 DEF ScanStates
<1>5. s.cancel \in BOOLEAN /\ s.emitted \in SUBSET Addresses
  BY <1>1, StateFields
<1>6. \A t \in AsReturned(s) : EndState(s, t)
  <2> TAKE t \in AsReturned(s)
  <2>1. CASE s.cancel
    <3>1. t = [s EXCEPT !.cancel = s.cancel, !.phase = "cancelled"]
      BY <1>4, <2>1 DEF AsReturned, EndPhases
    <3>2. QED
      BY <1>3, <1>5, <3>1 DEF EndPhases
  <2>2. CASE ~s.cancel /\ Addresses \subseteq s.emitted
    <3>1. t = [s EXCEPT !.cancel = s.cancel, !.phase = "completed"] /\ s.emitted = Addresses
      BY <1>4, <1>5, <2>2 DEF AsReturned, EndPhases
    <3>2. QED
      BY <1>3, <1>5, <2>2, <3>1 DEF EndPhases
  <2>3. CASE ~s.cancel /\ ~(Addresses \subseteq s.emitted)
    <3>1. \E a \in Addresses : t = WithError(s, a)
      BY <2>3 DEF AsReturned
    <3>2. QED
      BY <1>2, <3>1
  <2>4. QED
    BY <2>1, <2>2, <2>3
<1>7. EndState(s, [s EXCEPT !.cancel = TRUE, !.phase = "cancelled"])
  BY <1>3 DEF EndPhases
<1>8. EndState(s, [s EXCEPT !.phase = "cancelled"])
  BY <1>3, <1>4, <1>5 DEF EndPhases
<1>9. QED
  BY <1>2, <1>6, <1>7, <1>8 DEF s

\* The finally block of _run ends its Scan.
LEMMA FinishEnds ==
  ASSUME TypeOK, NEW i \in ScanIds, Running(i),
         NEW state, EndState(scan[i], state), Finish(i, state)
  PROVE  EndStep({i})
<1>1. /\ scan' \in [ScanIds -> ScanStates \cup {Unused}]
      /\ scan'[i] = state
      /\ \A j \in ScanIds : j # i => scan'[j] = scan[j]
  <2>1. scan' = [scan EXCEPT ![i] = state] /\ state \in ScanStates
    BY DEF Finish, EndState
  <2>2. QED
    BY <2>1 DEF TypeOK
<1>2. active' = SlotsDropped({i})
  <2>1. active' = IF active[scan[i].key] = i THEN [active EXCEPT ![scan[i].key] = NoScan] ELSE active
    BY DEF Finish, Dropped
  <2>2. active \in [Keys -> ScanIds \cup {NoScan}]
    BY DEF TypeOK
  <2>3. SlotsDropped({i}) =
          [key \in Keys |-> IF scan[i].key = key /\ active[key] = i THEN NoScan ELSE active[key]]
    BY DEF SlotsDropped
  <2>4. QED
    BY <2>1, <2>2, <2>3
<1>3. \E order \in Seq(ScanIds) :
        /\ IsInjective(order) /\ Range(order) = {i}
        /\ RecordTerminal(order)
        /\ tasks' = tasks \ ({i} \cup Forgotten(terminal \o order))
  <2> DEFINE order == <<i>>
  <2>1. order \in Seq(ScanIds) /\ IsInjective(order) /\ Range(order) = {i}
    BY DEF IsInjective, Range
  <2>2. RecordTerminal(order) /\ tasks' = tasks \ ({i} \cup Forgotten(terminal \o order))
    BY DEF Finish
  <2>3. QED
    BY <2>1, <2>2
<1>4. QED
  BY <1>1, <1>2, <1>3 DEF EndStep

\* An order of some Scans is a sequence of them, each once.
LEMMA InOrderFacts ==
  ASSUME NEW ids \in SUBSET ScanIds, NEW order \in InOrder(ids)
  PROVE  order \in Seq(ScanIds) /\ IsInjective(order) /\ Range(order) = ids
<1>1. MaxScans \in Nat
  BY CoordinatorAssumption
<1>2. IsFiniteSet(ScanIds)
  BY <1>1, FS_Interval DEF ScanIds
<1>3. IsFiniteSet(ids) /\ Cardinality(ids) \in Nat
  BY <1>2, FS_Subset, FS_CardinalityType
<1> DEFINE n == Cardinality(ids)
<1>4. /\ order \in [1..n -> ids] /\ Range(order) = ids /\ DOMAIN order = 1..n
      /\ \A j, k \in DOMAIN order : j < k => order[j] < order[k]
  BY DEF InOrder
<1> HIDE DEF n
<1>5. \A j \in DOMAIN order : order[j] \in Nat
  <2>1. \A i \in ids : i \in Nat
    BY <1>1 DEF ScanIds
  <2>2. \A j \in DOMAIN order : order[j] \in ids
    BY <1>4
  <2>3. QED
    BY <2>1, <2>2
<1>6. IsInjective(order)
  <2> SUFFICES ASSUME NEW a \in DOMAIN order, NEW b \in DOMAIN order, order[a] = order[b]
               PROVE  a = b
    BY DEF IsInjective
  <2>1. ~(a < b) /\ ~(b < a)
    BY <1>4, <1>5
  <2>2. QED
    BY <1>3, <1>4, <2>1 DEF n
<1>7. order \in Seq(ScanIds)
  BY <1>3, <1>4, IsASeq DEF n
<1>8. QED
  BY <1>4, <1>6, <1>7

\* async_shutdown ends the Scans whose tasks never ran.
LEMMA ShutdownEndsThem ==
  ASSUME TypeOK, Records, NEW c \in Callers, ShutdownEnds(c)
  PROVE  EndStep(Stuck(c))
<1> DEFINE ids == Stuck(c)
<1>1. ids \in SUBSET ScanIds /\ \A i \in ids : Running(i)
  BY DEF Stuck, TypeOK
<1>2. scan' = [i \in ScanIds |-> IF i \in ids THEN [scan[i] EXCEPT !.phase = "cancelled"] ELSE scan[i]]
  BY DEF ShutdownEnds
<1>3. active' = SlotsDropped(ids)
  BY DEF ShutdownEnds
<1>4. PICK order \in InOrder(ids) :
        /\ RecordTerminal(order)
        /\ tasks' = tasks \ (ids \cup Forgotten(terminal \o order))
  BY DEF ShutdownEnds
<1> HIDE DEF ids
<1>5. \A i \in ids : EndState(scan[i], scan'[i])
  BY <1>1, <1>2, EndStates
<1>6. \A i \in ScanIds : i \notin ids => scan'[i] = scan[i]
  BY <1>2
<1>7. scan' \in [ScanIds -> ScanStates \cup {Unused}]
  <2>1. \A i \in ScanIds : scan'[i] \in ScanStates \cup {Unused}
    BY <1>5, <1>6 DEF EndState, TypeOK
  <2>2. scan' = [i \in ScanIds |-> scan'[i]]
    BY <1>2
  <2>3. QED
    BY <2>1, <2>2
<1>8. EndStep(ids)
  BY <1>1, <1>3, <1>4, <1>5, <1>6, <1>7, InOrderFacts DEF EndStep
<1>9. QED
  BY <1>8 DEF ids
------------------------------------------------------------------------------
(* Steps on which running Scans go on. *)

\* A running Scan goes on: the same key, one count for each outcome, and a Bus only
\* when its key named none.
GoesOn(s, t) ==
  /\ t \in ScanStates /\ s.phase = "running" /\ t.phase = "running" /\ t.key = s.key
  /\ t.completed = Cardinality(t.emitted)
  /\ s.key[2] # NoBus => t.bus = s.bus
  /\ s.cancel => t.cancel

\* Nothing starts or ends.
LiveStep ==
  /\ scan' \in [ScanIds -> ScanStates \cup {Unused}]
  /\ \A i \in ScanIds : scan'[i] = scan[i] \/ GoesOn(scan[i], scan'[i])
  /\ UNCHANGED <<scans, active, tasks, terminal, historyVars>>

\* Who runs stays.
LEMMA LivePhases ==
  ASSUME TypeOK, LiveStep, NEW i \in ScanIds
  PROVE  /\ Running(i)' <=> Running(i)
         /\ Ended(i)' <=> Ended(i)
         /\ Used(i)' <=> Used(i)
         /\ scan'[i].key = scan[i].key
         /\ Ended(i) => scan'[i] = scan[i]
         /\ Used(i) /\ scan[i].key[2] # NoBus => scan'[i].bus = scan[i].bus
<1>1. CASE scan'[i] = scan[i]
  BY <1>1 DEF Running, Ended, Used
<1>2. CASE GoesOn(scan[i], scan'[i])
  <2>1. scan'[i] # Unused /\ scan[i] # Unused
    BY <1>2, StateFields DEF GoesOn, Unused
  <2>2. QED
    BY <1>2, <2>1 DEF GoesOn, Running, Ended, Used, EndPhases
<1>3. QED
  BY <1>1, <1>2 DEF LiveStep

\* The records stay right.
LEMMA LiveKeepsRecords ==
  ASSUME TypeOK, Records, LiveStep
  PROVE  Records'
<1>1. SlotsMatchRunning'
  BY LivePhases DEF Records, RecordsAgree, SlotsMatchRunning, LiveStep
<1>2. CountsAgree'
  <2>1. SUFFICES ASSUME NEW i \in ScanIds, Used(i)'
                 PROVE  /\ scan'[i].completed = Cardinality(scan'[i].emitted)
                        /\ scan'[i].phase = "completed" =>
                             scan'[i].emitted = Addresses /\ ~scan'[i].cancel
    BY DEF CountsAgree
  <2>2. CASE scan'[i] = scan[i]
    BY <2>1, <2>2, LivePhases DEF Records, RecordsAgree, CountsAgree
  <2>3. CASE GoesOn(scan[i], scan'[i])
    BY <2>3 DEF GoesOn
  <2>4. QED
    BY <2>2, <2>3 DEF LiveStep
<1>3. HistoryAgrees'
  <2>1. SUFFICES ASSUME NEW i \in ScanIds
                 PROVE  HistoryOf(i)'
    BY DEF HistoryAgrees, HistoryOf
  <2>2. pending' = pending /\ recorded' = recorded /\ refused' = refused
    BY DEF LiveStep, historyVars
  <2>3. HistoryOf(i)
    BY DEF Records, RecordsAgree, HistoryAgrees, HistoryOf
  <2>4. QED
    BY <2>2, <2>3, LivePhases DEF HistoryOf
<1>4. OnlyEndedForgotten'
  <2>1. {i \in ScanIds : Running(i)'} = {i \in ScanIds : Running(i)}
    BY LivePhases
  <2>2. scans' = scans /\ terminal' = terminal /\ tasks' = tasks
    BY DEF LiveStep
  <2>3. QED
    BY <2>1, <2>2, LivePhases DEF Records, RecordsAgree, OnlyEndedForgotten
<1>5. BusOfKey'
  BY LivePhases DEF Records, BusOfKey
<1>6. KeysApart'
  BY LivePhases DEF Records, KeysApart, Conflicts
<1>7. TerminalEnded'
  <2>1. \A k \in DOMAIN terminal : terminal[k] \in ScanIds /\ Ended(terminal[k])
    BY LenProperties, ElementOfSeq DEF Records, TerminalEnded, TypeOK
  <2>2. \A i \in ScanIds : Ended(i) => scan'[i].phase \in EndPhases
    BY LivePhases DEF Ended
  <2>3. \A k \in DOMAIN terminal : scan'[terminal[k]].phase \in EndPhases
    BY <2>1, <2>2
  <2>4. QED
    BY <2>3 DEF TerminalEnded, Ended, LiveStep
<1>8. QED
  BY <1>1, <1>2, <1>3, <1>4, <1>5, <1>6, <1>7 DEF Records, RecordsAgree

\* One running Scan goes on.
LEMMA OneGoesOn ==
  ASSUME TypeOK, NEW i \in ScanIds, NEW state, GoesOn(scan[i], state),
         scan' = [scan EXCEPT ![i] = state],
         UNCHANGED <<scans, active, tasks, terminal, historyVars>>
  PROVE  LiveStep
<1>1. state \in ScanStates
  BY DEF GoesOn
<1>2. scan' \in [ScanIds -> ScanStates \cup {Unused}]
  BY <1>1 DEF TypeOK
<1>3. \A j \in ScanIds : scan'[j] = IF j = i THEN state ELSE scan[j]
  BY DEF TypeOK
<1>4. QED
  BY <1>2, <1>3 DEF LiveStep

\* A Scan that emits an outcome goes on, with the address counted once.
LEMMA EmitGoesOn ==
  ASSUME TypeOK, Records, NEW i \in ScanIds, Running(i), NEW a \in Addresses, Emit(i, a)
  PROVE  LiveStep
<1> DEFINE s == scan[i]
           t == [s EXCEPT !.completed = @ + 1, !.emitted = @ \cup {a}]
<1>1. s \in ScanStates /\ s.completed = Cardinality(s.emitted) /\ s.phase = "running"
  BY Phases DEF Records, RecordsAgree, CountsAgree, Running
<1>2. scan' = [scan EXCEPT ![i] = t] /\ a \notin s.emitted
  BY DEF Emit
<1> HIDE DEF s
<1>3. s.emitted \in SUBSET Addresses /\ s.completed \in Nat
  BY <1>1, StateFields
<1>4. Cardinality(s.emitted \cup {a}) = s.completed + 1
  <2>1. IsFiniteSet(s.emitted)
    BY <1>3, CoordinatorAssumption, FS_Subset
  <2>2. QED
    BY <1>1, <1>2, <2>1, FS_AddElement
<1> DEFINE count == s.completed + 1
           found == s.emitted \cup {a}
<1>5. t = [s EXCEPT !.completed = count, !.emitted = found]
  OBVIOUS
<1>6. count \in Nat /\ found \in SUBSET Addresses /\ count = Cardinality(found)
  BY <1>3, <1>4
<1> HIDE DEF count, found, t
<1>7. t \in ScanStates /\ t.phase = s.phase /\ t.key = s.key /\ t.bus = s.bus
      /\ t.completed = count /\ t.emitted = found
  BY <1>1, <1>5, <1>6 DEF ScanStates
<1>8. t.cancel = s.cancel
  BY <1>1, <1>5 DEF ScanStates
<1>9. GoesOn(scan[i], t)
  BY <1>1, <1>6, <1>7, <1>8 DEF GoesOn, s
<1>10. QED
  BY <1>2, <1>9, OneGoesOn DEF Emit

\* A Scan that learns its Bus goes on: its key named none.
LEMMA BusFoundGoesOn ==
  ASSUME TypeOK, Records, NEW i \in ScanIds, Running(i), NEW b \in Buses, BusFound(i, b)
  PROVE  LiveStep
<1> DEFINE s == scan[i]
           t == [s EXCEPT !.bus = b]
<1>1. s \in ScanStates /\ s.completed = Cardinality(s.emitted) /\ s.phase = "running"
  BY Phases DEF Records, RecordsAgree, CountsAgree, Running
<1>2. scan' = [scan EXCEPT ![i] = t] /\ s.bus = NoBus
  BY DEF BusFound
<1>3. s.key[2] = NoBus
  <2>1. s.key[2] # NoBus => s.bus = s.key[2]
    BY <1>1, Phases DEF Records, BusOfKey
  <2>2. QED
    BY <1>2, <2>1
<1> HIDE DEF s
<1>4. t \in ScanStates /\ t.phase = s.phase /\ t.key = s.key
      /\ t.completed = s.completed /\ t.emitted = s.emitted
  BY <1>1 DEF ScanStates
<1>5. t.cancel = s.cancel
  BY <1>1 DEF ScanStates
<1>6. GoesOn(scan[i], t)
  BY <1>1, <1>3, <1>4, <1>5 DEF GoesOn, s
<1>7. QED
  BY <1>2, <1>6, OneGoesOn DEF BusFound

\* Asking a Scan to stop only sets its flag.
LEMMA CancelledGoesOn ==
  ASSUME TypeOK, Records, NEW i \in ScanIds, Running(i)
  PROVE  /\ GoesOn(scan[i], [scan[i] EXCEPT !.cancel = TRUE])
         /\ [scan[i] EXCEPT !.cancel = TRUE].bus = scan[i].bus
<1> DEFINE s == scan[i]
           t == [s EXCEPT !.cancel = TRUE]
<1>1. s \in ScanStates /\ s.completed = Cardinality(s.emitted) /\ s.phase = "running"
  BY Phases DEF Records, RecordsAgree, CountsAgree, Running
<1> HIDE DEF s
<1>2. t \in ScanStates /\ t.phase = s.phase /\ t.key = s.key /\ t.bus = s.bus
      /\ t.completed = s.completed /\ t.emitted = s.emitted
  BY <1>1 DEF ScanStates
<1>3. t.cancel
  BY <1>1 DEF ScanStates
<1>4. GoesOn(scan[i], t) /\ t.bus = s.bus
  BY <1>1, <1>2, <1>3 DEF GoesOn, s
<1>5. QED
  BY <1>4 DEF s

\* The cancel service lets its Scan go on.
LEMMA CancelGoesOn ==
  ASSUME TypeOK, Records, NEW i \in ScanIds, Cancel(i)
  PROVE  LiveStep
<1>1. scan' = [scan EXCEPT ![i] = [scan[i] EXCEPT !.cancel = TRUE]] /\ Running(i)
  BY DEF Cancel
<1>2. GoesOn(scan[i], [scan[i] EXCEPT !.cancel = TRUE])
  BY <1>1, CancelledGoesOn
<1>3. QED
  BY <1>1, <1>2, OneGoesOn DEF Cancel

\* So does a shutdown that asks every running Scan to stop.
LEMMA ShutdownBeginsGoesOn ==
  ASSUME TypeOK, Records, NEW c \in Callers, ShutdownBegins(c)
  PROVE  LiveStep
<1> DEFINE asked == {i \in tasks \cap scans : Running(i)}
<1>1. scan' = [i \in ScanIds |-> IF i \in asked THEN [scan[i] EXCEPT !.cancel = TRUE] ELSE scan[i]]
  BY DEF ShutdownBegins
<1>2. \A i \in asked : i \in ScanIds /\ Running(i)
  BY DEF TypeOK
<1> HIDE DEF asked
<1>3. \A i \in ScanIds : scan'[i] = scan[i] \/ GoesOn(scan[i], scan'[i])
  BY <1>1, <1>2, CancelledGoesOn
<1>4. scan' \in [ScanIds -> ScanStates \cup {Unused}]
  <2>1. \A i \in ScanIds : scan'[i] \in ScanStates \cup {Unused}
    BY <1>3 DEF GoesOn, TypeOK
  <2>2. scan' = [i \in ScanIds |-> scan'[i]]
    BY <1>1
  <2>3. QED
    BY <2>1, <2>2
<1>5. QED
  BY <1>3, <1>4 DEF LiveStep, ShutdownBegins
------------------------------------------------------------------------------
(* Starting a Scan. *)

\* A key that may be taken is nobody's, and conflicts with no running Scan's.
LEMMA FreeFacts ==
  ASSUME TypeOK, Records, NEW key \in Keys, Free(key)
  PROVE  /\ active[key] = NoScan
         /\ \A j \in ScanIds : Running(j) => ~Conflicts(key, scan[j].key)
<1>1. Conflicts(key, key)
  BY DEF Conflicts
<1>2. active[key] = NoScan
  BY <1>1 DEF Free
<1>3. ASSUME NEW j \in ScanIds, Running(j) PROVE ~Conflicts(key, scan[j].key)
  <2>1. scan[j].key \in Keys /\ active[scan[j].key] = j
    BY <1>3, Phases, StateFields DEF Records, RecordsAgree, SlotsMatchRunning
  <2>2. QED
    BY <2>1, NoScanFresh DEF Free
<1>4. QED
  BY <1>2, <1>3

\* A Scan Home Assistant refuses to schedule leaves the coordinator as it was.
LEMMA RefusedIsStutter ==
  ASSUME TypeOK, Records, NEW i \in ScanIds, NEW key \in Keys, Start(i, key, FALSE)
  PROVE  UNCHANGED vars
<1>1. active[key] = NoScan /\ active \in [Keys -> ScanIds \cup {NoScan}]
  BY FreeFacts DEF Start, TypeOK
<1>2. active' = Dropped([active EXCEPT ![key] = i], key, i)
  BY DEF Start
<1>3. active' = active
  BY <1>1, <1>2 DEF Dropped
<1>4. QED
  BY <1>3 DEF Start, vars, scanVars, shutdownVars, loopVars, historyVars

\* A Scan Home Assistant schedules: it alone changes, from unused to running.
LEMMA StartFacts ==
  ASSUME TypeOK, Records, NEW i \in ScanIds, NEW key \in Keys, Start(i, key, TRUE)
  PROVE  /\ scan' \in [ScanIds -> ScanStates \cup {Unused}]
         /\ ~Used(i) /\ ~Running(i) /\ ~Ended(i)
         /\ Running(i)' /\ Used(i)' /\ ~Ended(i)'
         /\ scan'[i].key = key /\ scan'[i].bus = key[2] /\ scan'[i].phase = "running"
         /\ scan'[i].emitted = {} /\ scan'[i].completed = 0
         /\ \A j \in ScanIds : j # i => scan'[j] = scan[j]
         /\ \A j \in ScanIds : j # i => (Running(j)' <=> Running(j)) /\ (Ended(j)' <=> Ended(j))
                                        /\ (Used(j)' <=> Used(j))
         /\ active' = [active EXCEPT ![key] = i]
<1> DEFINE new == [key |-> key, bus |-> key[2], phase |-> "running", cancel |-> FALSE,
                   emitted |-> {}, completed |-> 0]
<1>1. scan' = [scan EXCEPT ![i] = new] /\ ~Used(i) /\ active' = [active EXCEPT ![key] = i]
  BY DEF Start
<1>2. new \in ScanStates
  BY DEF ScanStates, Keys
<1>3. scan' \in [ScanIds -> ScanStates \cup {Unused}] /\ scan'[i] = new
      /\ \A j \in ScanIds : j # i => scan'[j] = scan[j]
  <2> HIDE DEF new
  <2> QED
    BY <1>1, <1>2 DEF TypeOK
<1>4. /\ new.key = key /\ new.bus = key[2] /\ new.phase = "running"
      /\ new.emitted = {} /\ new.completed = 0
  OBVIOUS
<1> HIDE DEF new
<1>5. new # Unused
  BY <1>4 DEF Unused
<1>6. ~Running(i) /\ ~Ended(i)
  BY <1>1, Phases
<1>7. Running(i)' /\ Used(i)' /\ ~Ended(i)'
  BY <1>3, <1>4, <1>5 DEF Running, Used, Ended, EndPhases
<1>8. \A j \in ScanIds : j # i => (Running(j)' <=> Running(j)) /\ (Ended(j)' <=> Ended(j))
                                  /\ (Used(j)' <=> Used(j))
  BY <1>3 DEF Running, Ended, Used
<1>9. QED
  BY <1>1, <1>3, <1>4, <1>6, <1>7, <1>8

\* A Scan that starts keeps the records right.
LEMMA StartKeepsRecords ==
  ASSUME TypeOK, Records, TasksMatch, NEW i \in ScanIds, NEW key \in Keys, Start(i, key, TRUE)
  PROVE  Records'
<1>1. SlotsMatchRunning'
  <2>1. SUFFICES ASSUME NEW j \in ScanIds, NEW other \in Keys
                 PROVE  active'[other] = j <=> Running(j)' /\ scan'[j].key = other
    BY DEF SlotsMatchRunning
  <2>2. active[other] = j <=> Running(j) /\ scan[j].key = other
    BY DEF Records, RecordsAgree, SlotsMatchRunning
  <2>3. active'[other] = IF other = key THEN i ELSE active[other]
    <3>1. active' = [active EXCEPT ![key] = i]
      BY StartFacts
    <3>2. QED
      BY <3>1 DEF TypeOK
  <2>4. active[key] = NoScan
    BY FreeFacts DEF Start
  <2>5. CASE j = i
    BY <2>2, <2>3, <2>5, StartFacts
  <2>6. CASE j # i
    <3>1. Running(j)' /\ scan'[j].key = other <=> active[other] = j
      BY <2>2, <2>6, StartFacts
    <3>2. other = key => active[other] # j
      BY <2>4, NoScanFresh
    <3>3. QED
      BY <2>3, <2>6, <3>1, <3>2
  <2>7. QED
    BY <2>5, <2>6
<1>2. CountsAgree'
  <2>1. SUFFICES ASSUME NEW j \in ScanIds, Used(j)'
                 PROVE  /\ scan'[j].completed = Cardinality(scan'[j].emitted)
                        /\ scan'[j].phase = "completed" =>
                             scan'[j].emitted = Addresses /\ ~scan'[j].cancel
    BY DEF CountsAgree
  <2>2. CASE j = i
    BY <2>2, StartFacts, FS_EmptySet
  <2>3. CASE j # i
    BY <2>1, <2>3, StartFacts DEF Records, RecordsAgree, CountsAgree
  <2>4. QED
    BY <2>2, <2>3
<1>3. HistoryAgrees'
  <2>1. SUFFICES ASSUME NEW j \in ScanIds
                 PROVE  HistoryOf(j)'
    BY DEF HistoryAgrees, HistoryOf
  <2>2. pending' = pending \cup {i} /\ recorded' = recorded /\ refused' = refused
    BY DEF Start
  <2>3. HistoryOf(j)
    BY DEF Records, RecordsAgree, HistoryAgrees, HistoryOf
  <2>4. CASE j = i
    BY <2>2, <2>3, <2>4, StartFacts DEF HistoryOf
  <2>5. CASE j # i
    BY <2>2, <2>3, <2>5, StartFacts DEF HistoryOf
  <2>6. QED
    BY <2>4, <2>5
<1>4. scans' = scans \cup {i} /\ tasks' = tasks \cup {i} /\ terminal' = terminal
  BY DEF Start
<1>5. OnlyEndedForgotten'
  <2>1. \A j \in ScanIds : Running(j)' <=> Running(j) \/ j = i
    BY StartFacts
  <2>2. scans' = {j \in ScanIds : Running(j)'} \cup Range(terminal')
    BY <2>1, <1>4 DEF Records, RecordsAgree, OnlyEndedForgotten
  <2>3. QED
    BY <2>1, <2>2, <1>4 DEF Records, RecordsAgree, OnlyEndedForgotten
<1>6. BusOfKey'
  <2>1. SUFFICES ASSUME NEW j \in ScanIds, Used(j)', scan'[j].key[2] # NoBus
                 PROVE  scan'[j].bus = scan'[j].key[2]
    BY DEF BusOfKey
  <2>2. CASE j = i
    BY <2>2, StartFacts
  <2>3. CASE j # i
    BY <2>1, <2>3, StartFacts DEF Records, BusOfKey
  <2>4. QED
    BY <2>2, <2>3
<1>7. KeysApart'
  <2>1. SUFFICES ASSUME NEW j \in ScanIds, NEW k \in ScanIds, j # k, Running(j)', Running(k)'
                 PROVE  ~Conflicts(scan'[j].key, scan'[k].key)
    BY DEF KeysApart, Conflicts
  <2>2. \A x \in ScanIds : Running(x) => ~Conflicts(key, scan[x].key)
    BY FreeFacts DEF Start
  <2>3. CASE j = i
    BY <2>1, <2>2, <2>3, StartFacts
  <2>4. CASE k = i
    <3>1. ~Conflicts(key, scan[j].key)
      BY <2>1, <2>2, <2>4, StartFacts
    <3>2. QED
      BY <2>1, <2>4, <3>1, StartFacts DEF Conflicts
  <2>5. CASE j # i /\ k # i
    BY <2>1, <2>5, StartFacts DEF Records, KeysApart
  <2>6. QED
    BY <2>3, <2>4, <2>5
<1>8. TerminalEnded'
  <2>1. \A k \in DOMAIN terminal : terminal[k] \in ScanIds /\ Ended(terminal[k])
    BY LenProperties, ElementOfSeq DEF Records, TerminalEnded, TypeOK
  <2>2. \A j \in ScanIds : Ended(j) => scan'[j].phase \in EndPhases
    BY StartFacts DEF Ended
  <2>3. \A k \in DOMAIN terminal : scan'[terminal[k]].phase \in EndPhases
    BY <2>1, <2>2
  <2>4. QED
    BY <2>3, <1>4 DEF TerminalEnded, Ended
<1>9. QED
  BY <1>1, <1>2, <1>3, <1>5, <1>6, <1>7, <1>8 DEF Records, RecordsAgree
------------------------------------------------------------------------------
(* Every step keeps Inv. *)

\* The initial state satisfies it.
LEMMA InitInv == Init => Inv
<1> SUFFICES ASSUME Init PROVE Inv
  OBVIOUS
<1>1. \A i \in ScanIds : ~Used(i) /\ ~Running(i) /\ ~Ended(i)
  BY DEF Init, Used, Running, Ended, Unused, EndPhases
<1>2. \A i \in ScanIds : i # NoScan
  BY NoScanFresh
<1>3. TypeOK
  <2>1. terminal \in Seq(ScanIds)
    BY DEF Init
  <2>2. scan \in [ScanIds -> ScanStates \cup {Unused}] /\ active \in [Keys -> ScanIds \cup {NoScan}]
    BY DEF Init
  <2>3. /\ caller \in [Callers -> {"idle", "grace", "gather", "done"}]
        /\ snapshot \in [Callers -> SUBSET ScanIds] /\ known \in [Gateways -> SUBSET Buses]
        /\ task \in [ScanIds -> {"none", "scheduled", "running", "done"}]
        /\ recorded \in [ScanIds -> EndPhases \cup {"none"}]
    BY DEF Init
  <2>4. scans = {} /\ tasks = {} /\ cancelled = {} /\ pending = {} /\ refused = {}
        /\ shuttingDown = FALSE
    BY DEF Init
  <2>5. QED
    BY <2>1, <2>2, <2>3, <2>4 DEF TypeOK
<1>4. SlotsMatchRunning
  BY <1>1, <1>2 DEF Init, SlotsMatchRunning
<1>5. CountsAgree /\ HistoryAgrees /\ BusOfKey /\ KeysApart /\ SnapshotsComplete
  BY <1>1 DEF Init, CountsAgree, HistoryAgrees, BusOfKey, KeysApart, SnapshotsComplete
<1>6. OnlyEndedForgotten /\ TerminalEnded
  <2>1. Len(terminal) <= MaxHistory /\ DOMAIN terminal = {}
    BY CoordinatorAssumption DEF Init
  <2>2. Range(terminal) = {} /\ IsInjective(terminal)
    BY <2>1 DEF Range, IsInjective
  <2>3. QED
    BY <1>1, <2>1, <2>2 DEF Init, OnlyEndedForgotten, TerminalEnded
<1>7. TasksMatch
  BY <1>1 DEF Init, TasksMatch
<1>8. QED
  BY <1>3, <1>4, <1>5, <1>6, <1>7 DEF Inv, Records, RecordsAgree

\* Steps that leave the coordinator's records and the history alone.
LEMMA QuietKeepsRecords ==
  ASSUME Records, UNCHANGED <<scanVars, historyVars>>
  PROVE  /\ Records'
         /\ \A i \in ScanIds : (Running(i)' <=> Running(i)) /\ (Used(i)' <=> Used(i))
<1> USE DEF scanVars, historyVars, Running, Used, Ended
<1>1. SlotsMatchRunning' /\ CountsAgree' /\ HistoryAgrees'
  BY DEF Records, RecordsAgree, SlotsMatchRunning, CountsAgree, HistoryAgrees
<1>2. OnlyEndedForgotten' /\ BusOfKey' /\ TerminalEnded'
  BY DEF Records, RecordsAgree, OnlyEndedForgotten, BusOfKey, TerminalEnded
<1>3. KeysApart'
  BY DEF Records, KeysApart, Conflicts
<1>4. QED
  BY <1>1, <1>2, <1>3 DEF Records, RecordsAgree

\* A Scan that starts.
LEMMA StartInv ==
  ASSUME Inv, NEW i \in ScanIds, NEW key \in Keys, Start(i, key, TRUE)
  PROVE  Inv'
<1> USE DEF Inv
<1>1. Records'
  BY StartKeepsRecords
<1>2. /\ scans' = scans \cup {i} /\ tasks' = tasks \cup {i} /\ pending' = pending \cup {i}
      /\ active' = [active EXCEPT ![key] = i] /\ task' = [task EXCEPT ![i] = "scheduled"]
      /\ UNCHANGED <<terminal, shuttingDown, caller, snapshot, known, cancelled, recorded, refused>>
      /\ ~shuttingDown
  BY DEF Start, shutdownVars
<1>3. TypeOK'
  BY <1>2, StartFacts DEF TypeOK
<1>4. TasksMatch'
  <2>1. SUFFICES ASSUME NEW j \in ScanIds
                 PROVE  /\ task'[j] = "none" <=> ~Used(j)'
                        /\ task'[j] \in {"scheduled", "running"} => Running(j)'
                        /\ j \in tasks' <=> Running(j)'
    BY DEF TasksMatch
  <2>2. task'[j] = IF j = i THEN "scheduled" ELSE task[j]
    BY <1>2 DEF TypeOK
  <2>3. CASE j = i
    <3>1. Running(i)' /\ Used(i)'
      BY StartFacts
    <3>2. task'[j] = "scheduled" /\ j \in tasks'
      BY <1>2, <2>2, <2>3
    <3>3. QED
      BY <2>3, <3>1, <3>2
  <2>4. CASE j # i
    <3>1. /\ task[j] = "none" <=> ~Used(j)
          /\ task[j] \in {"scheduled", "running"} => Running(j)
          /\ j \in tasks <=> Running(j)
      BY DEF TasksMatch
    <3>2. QED
      BY <1>2, <2>2, <2>4, <3>1, StartFacts
  <2>5. QED
    BY <2>3, <2>4
<1>5. SnapshotsComplete'
  <2>1. \A c \in Callers : caller[c] = "idle"
    BY <1>2 DEF SnapshotsComplete
  <2>2. QED
    BY <1>2, <2>1 DEF SnapshotsComplete
<1>6. QED
  BY <1>1, <1>3, <1>4, <1>5

\* A task that begins, or is over before it began.
LEMMA TaskStepInv ==
  ASSUME Inv, NEW i \in ScanIds, TaskBegins(i) \/ TaskSkipped(i)
  PROVE  Inv'
<1> USE DEF Inv
<1>1. /\ UNCHANGED <<scanVars, historyVars, shutdownVars, known, cancelled>>
      /\ task[i] = "scheduled"
      /\ \/ task' = [task EXCEPT ![i] = "running"]
         \/ task' = [task EXCEPT ![i] = "done"]
  BY DEF TaskBegins, TaskSkipped
<1>2. Records' /\ \A j \in ScanIds : (Running(j)' <=> Running(j)) /\ (Used(j)' <=> Used(j))
  BY <1>1, QuietKeepsRecords
<1>3. TypeOK'
  BY <1>1 DEF TypeOK, scanVars, historyVars, shutdownVars
<1>4. TasksMatch'
  <2>1. Running(i) /\ Used(i)
    BY <1>1, Phases DEF TasksMatch
  <2>2. \A j \in ScanIds : j # i => task'[j] = task[j]
    BY <1>1 DEF TypeOK
  <2>3. task'[i] \in {"running", "done"}
    BY <1>1 DEF TypeOK
  <2>4. tasks' = tasks
    BY <1>1 DEF scanVars
  <2>5. QED
    BY <1>2, <2>1, <2>2, <2>3, <2>4 DEF TasksMatch
<1>5. SnapshotsComplete'
  BY <1>1, <1>2 DEF SnapshotsComplete, shutdownVars
<1>6. QED
  BY <1>2, <1>3, <1>4, <1>5

\* Emissions, a found Bus and the cancel service.
LEMMA LiveInv ==
  ASSUME Inv, LiveStep, UNCHANGED <<shutdownVars, known, loopVars>>
  PROVE  Inv'
<1> USE DEF Inv
<1>1. Records'
  BY LiveKeepsRecords
<1>2. TypeOK'
  BY DEF LiveStep, TypeOK, shutdownVars, loopVars, historyVars
<1>3. TasksMatch'
  BY LivePhases DEF TasksMatch, LiveStep, loopVars
<1>4. SnapshotsComplete'
  BY LivePhases DEF SnapshotsComplete, shutdownVars
<1>5. QED
  BY <1>1, <1>2, <1>3, <1>4

\* The end of a Scan in its own task.
LEMMA FinishInv ==
  ASSUME Inv, NEW i \in ScanIds, Running(i),
         NEW state, EndState(scan[i], state), Finish(i, state)
  PROVE  Inv'
<1> USE DEF Inv
<1>1. EndStep({i})
  BY FinishEnds
<1>2. UNCHANGED <<shutdownVars, known, cancelled>> /\ task' = [task EXCEPT ![i] = "done"]
  BY DEF Finish
<1>3. Records' /\ \A j \in ScanIds : j \in tasks' <=> Running(j)'
  BY <1>1, EndKeepsRecords
<1>4. TypeOK'
  BY <1>1, <1>2, EndTypes DEF TypeOK, shutdownVars
<1>5. \A j \in ScanIds : (Running(j)' <=> Running(j) /\ j # i) /\ (Used(j)' <=> Used(j))
  BY <1>1, EndPhasesAfter
<1>6. TasksMatch'
  <2>1. \A j \in ScanIds : task'[j] = IF j = i THEN "done" ELSE task[j]
    BY <1>2 DEF TypeOK
  <2>2. Used(i)
    BY Phases
  <2>3. QED
    BY <1>3, <1>5, <2>1, <2>2 DEF TasksMatch
<1>7. SnapshotsComplete'
  BY <1>2, <1>5 DEF SnapshotsComplete, shutdownVars
<1>8. QED
  BY <1>3, <1>4, <1>6, <1>7

\* A call of async_shutdown up to its first await.
LEMMA ShutdownBeginsInv ==
  ASSUME Inv, NEW c \in Callers, ShutdownBegins(c)
  PROVE  Inv'
<1> USE DEF Inv
<1> DEFINE asked == {i \in tasks \cap scans : Running(i)}
<1>1. /\ shuttingDown' = TRUE /\ snapshot' = [snapshot EXCEPT ![c] = asked]
      /\ caller' = [caller EXCEPT ![c] = IF asked = {} THEN "done" ELSE "grace"]
      /\ UNCHANGED <<known, loopVars>>
  BY DEF ShutdownBegins
<1>2. asked \in SUBSET ScanIds /\ \A i \in ScanIds : Running(i) => i \in asked
  BY DEF TypeOK, TasksMatch, Records, RecordsAgree, OnlyEndedForgotten
<1> HIDE DEF asked
<1>3. LiveStep
  BY ShutdownBeginsGoesOn
<1>4. Records'
  BY <1>3, LiveKeepsRecords
<1>5. TypeOK'
  BY <1>1, <1>2, <1>3 DEF LiveStep, TypeOK, loopVars, historyVars
<1>6. TasksMatch'
  BY <1>1, <1>3, LivePhases DEF TasksMatch, LiveStep, loopVars
<1>7. SnapshotsComplete'
  <2>1. \A i \in ScanIds : Running(i)' <=> Running(i)
    BY <1>3, LivePhases
  <2>2. SUFFICES ASSUME NEW d \in Callers
                 PROVE  /\ caller'[d] # "idle" => shuttingDown'
                        /\ caller'[d] \in {"grace", "gather"} =>
                             \A i \in ScanIds : Running(i)' => i \in snapshot'[d]
                        /\ caller'[d] = "done" => \A i \in ScanIds : ~Running(i)'
    BY DEF SnapshotsComplete
  <2>3. CASE d = c
    <3>1. caller'[d] = (IF asked = {} THEN "done" ELSE "grace") /\ snapshot'[d] = asked
      BY <1>1, <2>3 DEF TypeOK
    <3>2. QED
      BY <1>1, <1>2, <2>1, <3>1
  <2>4. CASE d # c
    <3>1. caller'[d] = caller[d] /\ snapshot'[d] = snapshot[d]
      BY <1>1, <2>4 DEF TypeOK
    <3>2. QED
      BY <1>1, <2>1, <3>1 DEF SnapshotsComplete
  <2>5. QED
    BY <2>3, <2>4
<1>8. QED
  BY <1>4, <1>5, <1>6, <1>7

\* The end of its grace period.
LEMMA GraceOverInv ==
  ASSUME Inv, NEW c \in Callers, GraceOver(c)
  PROVE  Inv'
<1> USE DEF Inv
<1>1. /\ UNCHANGED <<scanVars, historyVars, shuttingDown, snapshot, known, task>>
      /\ caller[c] = "grace" /\ caller' = [caller EXCEPT ![c] = "gather"]
      /\ cancelled' = cancelled \cup {i \in snapshot[c] : task[i] # "done"}
  BY DEF GraceOver
<1>2. Records' /\ \A j \in ScanIds : (Running(j)' <=> Running(j)) /\ (Used(j)' <=> Used(j))
  BY <1>1, QuietKeepsRecords
<1>3. TypeOK'
  BY <1>1 DEF TypeOK, scanVars, historyVars
<1>4. TasksMatch'
  BY <1>1, <1>2 DEF TasksMatch, scanVars
<1>5. SnapshotsComplete'
  <2>1. \A d \in Callers : caller'[d] = IF d = c THEN "gather" ELSE caller[d]
    BY <1>1 DEF TypeOK
  <2>2. QED
    BY <1>1, <1>2, <2>1 DEF SnapshotsComplete
<1>6. QED
  BY <1>2, <1>3, <1>4, <1>5

\* The rest of the call.
LEMMA ShutdownEndsInv ==
  ASSUME Inv, NEW c \in Callers, ShutdownEnds(c)
  PROVE  Inv'
<1> USE DEF Inv
<1>1. /\ UNCHANGED <<shuttingDown, snapshot, known, loopVars>>
      /\ caller[c] = "gather" /\ caller' = [caller EXCEPT ![c] = "done"]
      /\ AllDone(c)
  BY DEF ShutdownEnds
<1>2. EndStep(Stuck(c))
  BY ShutdownEndsThem
<1>3. Records' /\ \A j \in ScanIds : j \in tasks' <=> Running(j)'
  BY <1>2, EndKeepsRecords
<1>4. TypeOK'
  BY <1>1, <1>2, EndTypes DEF TypeOK, loopVars
<1>5. \A j \in ScanIds :
        (Running(j)' <=> Running(j) /\ j \notin Stuck(c)) /\ (Used(j)' <=> Used(j))
  BY <1>2, EndPhasesAfter
<1>6. TasksMatch'
  <2>1. \A j \in Stuck(c) : task[j] = "done"
    BY <1>1 DEF AllDone, Stuck
  <2>2. QED
    BY <1>1, <1>3, <1>5, <2>1 DEF TasksMatch, loopVars
<1>7. SnapshotsComplete'
  <2>1. \A j \in ScanIds : ~Running(j)'
    <3>1. \A j \in ScanIds : Running(j) => j \in snapshot[c] /\ j \in scans
      BY <1>1 DEF SnapshotsComplete, Records, RecordsAgree, OnlyEndedForgotten
    <3>2. QED
      BY <1>5, <3>1 DEF Stuck
  <2>2. \A d \in Callers : caller'[d] = IF d = c THEN "done" ELSE caller[d]
    BY <1>1 DEF TypeOK
  <2>3. QED
    BY <1>1, <2>1, <2>2 DEF SnapshotsComplete
<1>8. QED
  BY <1>3, <1>4, <1>6, <1>7

\* Steps of Home Assistant and of the Gateways.
LEMMA ExternalInv ==
  ASSUME Inv,
         \/ \E i \in ScanIds : HassCancels(i)
         \/ \E g \in Gateways, names \in (SUBSET Buses) \ {{}} : BusesLearned(g, names)
         \/ UNCHANGED vars
  PROVE  Inv'
<1> USE DEF Inv
<1>1. UNCHANGED <<scanVars, historyVars, shutdownVars, task>>
  BY DEF HassCancels, BusesLearned, vars, loopVars
<1>2. Records' /\ \A j \in ScanIds : (Running(j)' <=> Running(j)) /\ (Used(j)' <=> Used(j))
  BY <1>1, QuietKeepsRecords
<1>3. known' \in [Gateways -> SUBSET Buses] /\ cancelled' \in SUBSET ScanIds
  BY DEF HassCancels, BusesLearned, vars, loopVars, TypeOK
<1>4. TypeOK'
  BY <1>1, <1>3 DEF TypeOK, scanVars, historyVars, shutdownVars
<1>5. TasksMatch' /\ SnapshotsComplete'
  BY <1>1, <1>2 DEF TasksMatch, SnapshotsComplete, scanVars, shutdownVars
<1>6. QED
  BY <1>2, <1>4, <1>5

\* Every step keeps Inv.
LEMMA StepInv == Inv /\ [Next]_vars => Inv'
<1> SUFFICES ASSUME Inv, [Next]_vars PROVE Inv'
  OBVIOUS
<1> USE DEF Inv
<1>1. ASSUME NEW i \in ScanIds, ScanStep(i) PROVE Inv'
  <2>1. task[i] = "running" => Running(i)
    BY DEF TasksMatch
  <2>2. ASSUME NEW g \in Gateways, NEW target \in Buses \cup {NoBus}, NEW scheduled \in BOOLEAN,
               Start(i, <<g, target>>, scheduled)
        PROVE  Inv'
    <3>1. <<g, target>> \in Keys
      BY DEF Keys
    <3>2. CASE scheduled
      <4>1. Start(i, <<g, target>>, TRUE)
        BY <2>2, <3>2 DEF Start
      <4>2. QED
        BY <3>1, <4>1, StartInv
    <3>3. CASE ~scheduled
      <4>1. Start(i, <<g, target>>, FALSE)
        BY <2>2, <3>3 DEF Start
      <4>2. UNCHANGED vars
        BY <3>1, <4>1, RefusedIsStutter
      <4>3. QED
        BY <4>2, ExternalInv
    <3>4. QED
      BY <3>2, <3>3
  <2>3. CASE TaskBegins(i) \/ TaskSkipped(i)
    BY <2>3, TaskStepInv
  <2>4. ASSUME NEW a \in Addresses, Emit(i, a) PROVE Inv'
    <3>1. Running(i) /\ UNCHANGED <<shutdownVars, known, loopVars>>
      BY <2>1, <2>4 DEF Emit
    <3>2. QED
      BY <2>4, <3>1, EmitGoesOn, LiveInv
  <2>5. ASSUME NEW b \in Buses, BusFound(i, b) PROVE Inv'
    <3>1. Running(i) /\ UNCHANGED <<shutdownVars, known, loopVars>>
      BY <2>1, <2>5 DEF BusFound
    <3>2. QED
      BY <2>5, <3>1, BusFoundGoesOn, LiveInv
  <2>6. CASE Cancel(i)
    <3>1. UNCHANGED <<shutdownVars, known, loopVars>>
      BY <2>6 DEF Cancel
    <3>2. QED
      BY <2>6, <3>1, CancelGoesOn, LiveInv
  <2>7. CASE ProviderReturns(i)
    <3>1. Running(i)
      BY <2>1, <2>7 DEF ProviderReturns
    <3>2. PICK state \in AsReturned(scan[i]) : Finish(i, state)
      BY <2>7 DEF ProviderReturns
    <3>3. EndState(scan[i], state)
      BY <3>1, EndStates
    <3>4. QED
      BY <3>1, <3>2, <3>3, FinishInv
  <2>8. ASSUME NEW a \in Addresses, ProviderFails(i, a) PROVE Inv'
    <3>1. Running(i) /\ Finish(i, WithError(scan[i], a))
      BY <2>1, <2>8 DEF ProviderFails
    <3>2. EndState(scan[i], WithError(scan[i], a))
      BY <3>1, EndStates
    <3>3. QED
      BY <3>1, <3>2, FinishInv
  <2>9. CASE TaskCancelled(i)
    <3> DEFINE state == [scan[i] EXCEPT !.cancel = TRUE, !.phase = "cancelled"]
    <3>1. Running(i) /\ Finish(i, state)
      BY <2>1, <2>9 DEF TaskCancelled
    <3>2. EndState(scan[i], state)
      BY <3>1, EndStates
    <3> HIDE DEF state
    <3>3. QED
      BY <3>1, <3>2, FinishInv
  <2>10. CASE HassCancels(i)
    BY <2>10, ExternalInv
  <2>11. QED
    BY <1>1, <2>2, <2>3, <2>4, <2>5, <2>6, <2>7, <2>8, <2>9, <2>10 DEF ScanStep
<1>2. ASSUME NEW c \in Callers, ShutdownBegins(c) \/ GraceOver(c) \/ ShutdownEnds(c) PROVE Inv'
  BY <1>2, ShutdownBeginsInv, GraceOverInv, ShutdownEndsInv
<1>3. CASE \E g \in Gateways, names \in (SUBSET Buses) \ {{}} : BusesLearned(g, names)
  BY <1>3, ExternalInv
<1>4. CASE UNCHANGED vars
  BY <1>4, ExternalInv
<1>5. QED
  BY <1>1, <1>2, <1>3, <1>4 DEF Next

\* The inductive invariant holds in every reachable state.
THEOREM InvHolds == Spec => []Inv
<1>1. Init => Inv
  BY InitInv
<1>2. Inv /\ [Next]_vars => Inv'
  BY StepInv
<1>3. QED
  BY <1>1, <1>2, PTL DEF Spec

\* Every variable keeps its type.
THEOREM TypeCorrect == Spec => []TypeOK
<1>1. Inv => TypeOK
  BY DEF Inv
<1>2. QED
  BY <1>1, InvHolds, PTL

\* The coordinator's records agree with one another and with the Scans, however many run,
\* end, are refused or cancelled, and in whatever order.
THEOREM RecordsHold == Spec => []RecordsAgree
<1>1. Inv => RecordsAgree
  BY DEF Inv, Records
<1>2. QED
  BY <1>1, InvHolds, PTL

\* Once async_shutdown returned to any of its callers, nothing runs, holds a key or is
\* left in _tasks.
THEOREM QuietHolds == Spec => []QuietAfterShutdown
<1>1. Inv => QuietAfterShutdown
  <2> SUFFICES ASSUME Inv, NEW c \in Callers, caller[c] = "done"
               PROVE  /\ \A i \in ScanIds : ~Running(i) /\ task[i] \in {"none", "done"}
                      /\ tasks = {} /\ \A key \in Keys : active[key] = NoScan
    BY DEF QuietAfterShutdown
  <2>1. \A i \in ScanIds : ~Running(i)
    BY DEF Inv, SnapshotsComplete
  <2>2. \A i \in ScanIds : task[i] \in {"none", "done"} /\ i \notin tasks
    BY <2>1 DEF Inv, TasksMatch, TypeOK
  <2>3. \A key \in Keys : active[key] = NoScan
    BY <2>1 DEF Inv, TypeOK, Records, RecordsAgree, SlotsMatchRunning
  <2>4. tasks = {}
    BY <2>2 DEF Inv, TypeOK
  <2>5. QED
    BY <2>1, <2>2, <2>3, <2>4
<1>2. QED
  BY <1>1, InvHolds, PTL
------------------------------------------------------------------------------
(* What a step may do to a Scan. *)

\* A Scan that goes on stays on its Bus.
SameBuses == \A i \in ScanIds : Used(i) => scan'[i].bus = scan[i].bus

\* Every step starts one Scan, lets Scans go on, ends some, or leaves them alone.
LEMMA StepShapes ==
  ASSUME Inv, [Next]_vars
  PROVE  \/ \E i \in ScanIds, key \in Keys : Start(i, key, TRUE)
         \/ LiveStep /\ SameBuses
         \/ LiveStep /\ \E i \in ScanIds, b \in Buses : Running(i) /\ BusFound(i, b)
         \/ \E ids \in SUBSET ScanIds : EndStep(ids)
         \/ UNCHANGED scan
<1> DEFINE Shape == \/ \E i \in ScanIds, key \in Keys : Start(i, key, TRUE)
                    \/ LiveStep /\ SameBuses
                    \/ LiveStep /\ \E i \in ScanIds, b \in Buses : Running(i) /\ BusFound(i, b)
                    \/ \E ids \in SUBSET ScanIds : EndStep(ids)
                    \/ UNCHANGED scan
<1> SUFFICES Shape
  OBVIOUS
<1> USE DEF Inv
<1>1. ASSUME NEW i \in ScanIds, ScanStep(i) PROVE Shape
  <2>1. task[i] = "running" => Running(i)
    BY DEF TasksMatch
  <2>2. ASSUME NEW g \in Gateways, NEW target \in Buses \cup {NoBus}, NEW scheduled \in BOOLEAN,
               Start(i, <<g, target>>, scheduled)
        PROVE  Shape
    <3>1. <<g, target>> \in Keys
      BY DEF Keys
    <3>2. CASE scheduled
      BY <2>2, <3>1, <3>2 DEF Start
    <3>3. CASE ~scheduled
      BY <2>2, <3>3 DEF Start
    <3>4. QED
      BY <3>2, <3>3
  <2>3. CASE TaskBegins(i) \/ TaskSkipped(i) \/ HassCancels(i)
    BY <2>3 DEF TaskBegins, TaskSkipped, HassCancels, scanVars
  <2>4. ASSUME NEW a \in Addresses, Emit(i, a) PROVE Shape
    <3>1. Running(i)
      BY <2>1, <2>4 DEF Emit
    <3>2. scan[i] \in ScanStates
      BY <3>1, Phases
    <3>3. scan' = [scan EXCEPT ![i] =
                     [scan[i] EXCEPT !.completed = @ + 1, !.emitted = @ \cup {a}]]
      BY <2>4 DEF Emit
    <3>4. scan'[i].bus = scan[i].bus /\ \A j \in ScanIds : j # i => scan'[j] = scan[j]
      BY <3>2, <3>3 DEF TypeOK, ScanStates
    <3>5. SameBuses
      BY <3>4 DEF SameBuses
    <3>6. LiveStep
      BY <2>4, <3>1, EmitGoesOn
    <3>7. QED
      BY <3>5, <3>6
  <2>5. ASSUME NEW b \in Buses, BusFound(i, b) PROVE Shape
    <3>1. Running(i)
      BY <2>1, <2>5 DEF BusFound
    <3>2. QED
      BY <2>5, <3>1, BusFoundGoesOn
  <2>6. CASE Cancel(i)
    <3>1. Running(i) /\ scan' = [scan EXCEPT ![i] = [scan[i] EXCEPT !.cancel = TRUE]]
      BY <2>6 DEF Cancel
    <3>2. scan'[i].bus = scan[i].bus /\ \A j \in ScanIds : j # i => scan'[j] = scan[j]
      BY <3>1, CancelledGoesOn DEF TypeOK
    <3>3. SameBuses
      BY <3>2 DEF SameBuses
    <3>4. QED
      BY <2>6, <3>3, CancelGoesOn
  <2>7. ASSUME NEW state, Running(i), EndState(scan[i], state), Finish(i, state) PROVE Shape
    <3>1. EndStep({i}) /\ {i} \in SUBSET ScanIds
      BY <2>7, FinishEnds
    <3>2. QED
      BY <3>1
  <2>8. CASE ProviderReturns(i)
    <3>1. Running(i)
      BY <2>1, <2>8 DEF ProviderReturns
    <3>2. PICK state \in AsReturned(scan[i]) : Finish(i, state)
      BY <2>8 DEF ProviderReturns
    <3>3. EndState(scan[i], state)
      BY <3>1, EndStates
    <3> HIDE DEF Shape
    <3>4. QED
      BY <2>7, <3>1, <3>2, <3>3
  <2>9. ASSUME NEW a \in Addresses, ProviderFails(i, a) PROVE Shape
    <3>1. Running(i) /\ Finish(i, WithError(scan[i], a))
      BY <2>1, <2>9 DEF ProviderFails
    <3>2. EndState(scan[i], WithError(scan[i], a))
      BY <3>1, EndStates
    <3> HIDE DEF Shape
    <3>3. QED
      BY <2>7, <3>1, <3>2
  <2>10. CASE TaskCancelled(i)
    <3> DEFINE state == [scan[i] EXCEPT !.cancel = TRUE, !.phase = "cancelled"]
    <3>1. Running(i) /\ Finish(i, state)
      BY <2>1, <2>10 DEF TaskCancelled
    <3>2. EndState(scan[i], state)
      BY <3>1, EndStates
    <3> HIDE DEF state, Shape
    <3>3. QED
      BY <2>7, <3>1, <3>2
  <2> HIDE DEF Shape
  <2>11. QED
    BY <1>1, <2>2, <2>3, <2>4, <2>5, <2>6, <2>8, <2>9, <2>10 DEF ScanStep
<1>2. ASSUME NEW c \in Callers, ShutdownBegins(c) PROVE Shape
  <2>1. LiveStep
    BY <1>2, ShutdownBeginsGoesOn
  <2>2. SameBuses
    <3>1. \A i \in ScanIds : scan'[i] = scan[i] \/ (Running(i) /\ scan'[i] = [scan[i] EXCEPT !.cancel = TRUE])
      BY <1>2 DEF ShutdownBegins
    <3>2. QED
      BY <3>1, CancelledGoesOn DEF SameBuses
  <2>3. QED
    BY <2>1, <2>2
<1>3. ASSUME NEW c \in Callers, ShutdownEnds(c) PROVE Shape
  <2>1. EndStep(Stuck(c)) /\ Stuck(c) \in SUBSET ScanIds
    BY <1>3, ShutdownEndsThem DEF Stuck, TypeOK
  <2>2. QED
    BY <2>1
<1>4. ASSUME NEW c \in Callers, GraceOver(c) PROVE Shape
  BY <1>4 DEF GraceOver, scanVars
<1>5. CASE \E g \in Gateways, names \in (SUBSET Buses) \ {{}} : BusesLearned(g, names)
  BY <1>5 DEF BusesLearned, scanVars
<1>6. CASE UNCHANGED vars
  BY <1>6 DEF vars, scanVars
<1> HIDE DEF Shape
<1>7. QED
  BY <1>1, <1>2, <1>3, <1>4, <1>5, <1>6 DEF Next

\* No step changes an ended Scan, and none completes one that was asked to stop.
THEOREM OutcomeFinalHolds == Spec => OutcomeFinal
<1> DEFINE Final == \A i \in ScanIds :
                      /\ Ended(i) => scan'[i] = scan[i]
                      /\ Running(i) /\ scan[i].cancel => scan'[i].phase # "completed"
<1>1. ASSUME Inv, [Next]_vars PROVE Final
  <2> SUFFICES ASSUME NEW i \in ScanIds
               PROVE  /\ Ended(i) => scan'[i] = scan[i]
                      /\ Running(i) /\ scan[i].cancel => scan'[i].phase # "completed"
    OBVIOUS
  <2> USE DEF Inv
  <2>1. CASE UNCHANGED scan
    BY <2>1 DEF Running
  <2>2. ASSUME NEW j \in ScanIds, NEW key \in Keys, Start(j, key, TRUE)
        PROVE  /\ Ended(i) => scan'[i] = scan[i]
               /\ Running(i) /\ scan[i].cancel => scan'[i].phase # "completed"
    <3>1. Running(i) \/ Ended(i) => scan'[i] = scan[i]
      BY <1>1, <2>2, StartFacts
    <3>2. QED
      BY <3>1 DEF Running
  <2>3. CASE LiveStep
    <3>1. Ended(i) => scan'[i] = scan[i]
      BY <1>1, <2>3, LivePhases
    <3>2. Running(i) => scan'[i].phase = "running"
      BY <1>1, <2>3, LivePhases DEF Running
    <3>3. QED
      BY <3>1, <3>2
  <2>4. ASSUME NEW ids \in SUBSET ScanIds, EndStep(ids)
        PROVE  /\ Ended(i) => scan'[i] = scan[i]
               /\ Running(i) /\ scan[i].cancel => scan'[i].phase # "completed"
    <3>1. Ended(i) => i \notin ids
      BY <1>1, <2>4, EndPhasesAfter
    <3>2. i \notin ids => scan'[i] = scan[i]
      BY <2>4 DEF EndStep
    <3>3. i \in ids /\ scan[i].cancel => scan'[i].phase # "completed"
      BY <2>4 DEF EndStep, EndState
    <3>4. QED
      BY <3>1, <3>2, <3>3 DEF Running
  <2>5. QED
    BY <1>1, <2>1, <2>2, <2>3, <2>4, StepShapes
<1>2. Inv /\ [Next]_vars => [Final]_vars
  BY <1>1
<1>3. QED
  BY <1>2, InvHolds, PTL DEF Spec, OutcomeFinal
------------------------------------------------------------------------------
(* The refinement. *)

\* Scans whose keys do not conflict hold different Buses.
LEMMA HeldApart ==
  ASSUME NEW s \in ScanStates, NEW t \in ScanStates, ~Conflicts(s.key, t.key),
         s.key[2] # NoBus => s.bus = s.key[2], t.key[2] # NoBus => t.bus = t.key[2]
  PROVE  ({s.key[1]} \X (IF s.bus = NoBus THEN Buses ELSE {s.bus}))
           \cap ({t.key[1]} \X (IF t.bus = NoBus THEN Buses ELSE {t.bus})) = {}
  BY DEF Conflicts

\* What every Scan holds, as SlotContract sees it.
HeldMap == [i \in ScanIds |-> Held(i)]

\* A Scan that starts takes Buses no other holds.
LEMMA StartAcquires ==
  ASSUME Inv, NEW i \in ScanIds, NEW key \in Keys, Start(i, key, TRUE)
  PROVE  \/ \E slots \in (SUBSET (Gateways \X Buses)) \ {{}} : Slot!Acquire(i, slots)
         \/ HeldMap' = HeldMap
<1> USE DEF Inv
<1> DEFINE slots == Held(i)'
<1>1. \A j \in ScanIds : j # i => Held(j)' = Held(j)
  BY StartFacts DEF Held, Running
<1>2. Held(i) = {}
  BY StartFacts DEF Held
<1>3. TypeOK' /\ slots \in SUBSET (Gateways \X Buses)
  <2>1. TypeOK' /\ Records'
    BY StartInv
  <2>2. slots = {key[1]} \X (IF key[2] = NoBus THEN Buses ELSE {key[2]})
    BY StartFacts DEF Held
  <2>3. QED
    BY <2>1, <2>2 DEF Keys
<1>4. \A j \in ScanIds : Held(j) \cap slots = {}
  <2>1. SUFFICES ASSUME NEW j \in ScanIds, Running(j) PROVE Held(j) \cap slots = {}
    BY DEF Held
  <2>2. j # i /\ scan[j] \in ScanStates /\ scan'[i] \in ScanStates
    <3>1. j # i /\ scan[j] \in ScanStates
      BY <2>1, Phases, StartFacts
    <3>2. scan'[i] \in ScanStates \cup {Unused} /\ scan'[i] # Unused
      BY StartFacts DEF Used
    <3>3. QED
      BY <3>1, <3>2
  <2>3. ~Conflicts(scan'[i].key, scan[j].key)
    BY <2>1, FreeFacts, StartFacts DEF Start
  <2>4. scan'[i].key[2] # NoBus => scan'[i].bus = scan'[i].key[2]
    BY StartFacts
  <2>5. scan[j].key[2] # NoBus => scan[j].bus = scan[j].key[2]
    BY <2>1, Phases DEF Records, BusOfKey
  <2>6. /\ Held(j) = {scan[j].key[1]} \X (IF scan[j].bus = NoBus THEN Buses ELSE {scan[j].bus})
        /\ slots = {scan'[i].key[1]} \X (IF scan'[i].bus = NoBus THEN Buses ELSE {scan'[i].bus})
    BY <2>1, StartFacts DEF Held
  <2>7. slots \cap Held(j) = {}
    BY <2>2, <2>3, <2>4, <2>5, <2>6, HeldApart
  <2>8. QED
    BY <2>7
<1>5. HeldMap' = [HeldMap EXCEPT ![i] = slots]
  BY <1>1 DEF HeldMap
<1>6. CASE slots = {}
  BY <1>1, <1>2, <1>6 DEF HeldMap
<1>7. CASE slots # {}
  <2> HIDE DEF slots
  <2>1. Slot!Acquire(i, slots)
    BY <1>2, <1>4, <1>5 DEF Slot!Acquire, HeldMap
  <2>2. QED
    BY <1>3, <1>7, <2>1
<1>8. QED
  BY <1>6, <1>7

\* A Scan that finds its Bus keeps that one of those it held.
LEMMA FoundNarrows ==
  ASSUME Inv, NEW i \in ScanIds, Running(i), NEW b \in Buses, BusFound(i, b)
  PROVE  \E slot \in Gateways \X Buses : Slot!Narrow(i, slot)
<1> USE DEF Inv
<1>1. scan[i] \in ScanStates /\ scan[i].key \in Keys
  BY Phases, StateFields
<1> DEFINE slot == <<scan[i].key[1], b>>
<1>2. scan[i].bus = NoBus /\ scan' = [scan EXCEPT ![i] = [scan[i] EXCEPT !.bus = b]]
  BY DEF BusFound
<1>3. /\ scan'[i].bus = b /\ scan'[i].key = scan[i].key /\ scan'[i].phase = scan[i].phase
      /\ \A j \in ScanIds : j # i => scan'[j] = scan[j]
  BY <1>1, <1>2 DEF TypeOK, ScanStates
<1>4. b # NoBus
  BY CoordinatorAssumption
<1>5. Held(i)' = {slot}
  <2>1. Running(i)'
    BY <1>3 DEF Running
  <2>2. Held(i)' = {scan[i].key[1]} \X {b}
    BY <1>3, <1>4, <2>1 DEF Held
  <2>3. QED
    BY <2>2
<1>6. \A j \in ScanIds : j # i => Held(j)' = Held(j)
  BY <1>3 DEF Held, Running
<1>7. slot \in Held(i)
  BY <1>2 DEF Held
<1>8. HeldMap' = [HeldMap EXCEPT ![i] = {slot}]
  BY <1>5, <1>6 DEF HeldMap
<1>9. slot \in Gateways \X Buses
  BY <1>1 DEF Keys
<1> HIDE DEF slot
<1>10. Slot!Narrow(i, slot)
  BY <1>7, <1>8 DEF Slot!Narrow, HeldMap
<1>11. QED
  BY <1>9, <1>10

\* Scans that end drop what they held.
LEMMA EndDrops ==
  ASSUME Inv, NEW ids \in SUBSET ScanIds, EndStep(ids)
  PROVE  Slot!Drop(ids)
<1> USE DEF Inv
<1>1. ASSUME NEW j \in ScanIds PROVE Held(j)' = IF j \in ids THEN {} ELSE Held(j)
  <2>1. CASE j \in ids
    <3>1. ~Running(j)'
      BY <2>1, EndPhasesAfter
    <3>2. QED
      BY <2>1, <3>1 DEF Held
  <2>2. CASE j \notin ids
    <3>1. scan'[j] = scan[j]
      BY <2>2 DEF EndStep
    <3>2. QED
      BY <2>2, <3>1 DEF Held, Running
  <2>3. QED
    BY <2>1, <2>2
<1>2. HeldMap' = [j \in ScanIds |-> IF j \in ids THEN {} ELSE HeldMap[j]]
  BY <1>1 DEF HeldMap
<1>3. QED
  BY <1>2 DEF Slot!Drop, HeldMap

\* Steps on which no Scan changes its Bus.
LEMMA SameBusesHold ==
  ASSUME Inv, (LiveStep /\ SameBuses) \/ UNCHANGED scan
  PROVE  HeldMap' = HeldMap
<1> USE DEF Inv
<1>1. ASSUME NEW j \in ScanIds PROVE Held(j)' = Held(j)
  <2>1. CASE UNCHANGED scan
    BY <2>1 DEF Held, Running
  <2>2. CASE LiveStep /\ SameBuses
    <3>1. Running(j)' <=> Running(j)
      BY <2>2, LivePhases
    <3>2. Running(j) => scan'[j].key = scan[j].key /\ scan'[j].bus = scan[j].bus
      BY <2>2, LivePhases, Phases DEF SameBuses
    <3>3. QED
      BY <3>1, <3>2 DEF Held
  <2>3. QED
    BY <2>1, <2>2
<1>2. QED
  BY <1>1 DEF HeldMap

\* Scans that run together are on different Buses: the coordinator implements
\* SlotContract, with the Buses each running Scan occupies.
THEOREM SlotsImplemented == Spec => ImplementsSlots
<1>1. Init => Slot!SlotInit
  <2> SUFFICES ASSUME Init PROVE Slot!SlotInit
    OBVIOUS
  <2>1. \A i \in ScanIds : Held(i) = {}
    BY DEF Init, Held, Running, Unused
  <2>2. QED
    BY <2>1 DEF Slot!SlotInit
<1>2. Inv /\ [Next]_vars => [Slot!SlotNext]_HeldMap
  <2> SUFFICES ASSUME Inv, [Next]_vars PROVE Slot!SlotNext \/ HeldMap' = HeldMap
    OBVIOUS
  <2>1. ASSUME NEW i \in ScanIds, NEW key \in Keys, Start(i, key, TRUE)
        PROVE  Slot!SlotNext \/ HeldMap' = HeldMap
    BY <2>1, StartAcquires DEF Slot!SlotNext
  <2>2. ASSUME NEW i \in ScanIds, NEW b \in Buses, Running(i), BusFound(i, b)
        PROVE  Slot!SlotNext
    BY <2>2, FoundNarrows DEF Slot!SlotNext
  <2>3. ASSUME NEW ids \in SUBSET ScanIds, EndStep(ids)
        PROVE  Slot!SlotNext
    BY <2>3, EndDrops DEF Slot!SlotNext
  <2>4. CASE (LiveStep /\ SameBuses) \/ UNCHANGED scan
    BY <2>4, SameBusesHold
  <2>5. QED
    BY <2>1, <2>2, <2>3, <2>4, StepShapes
<1>3. QED
  BY <1>1, <1>2, InvHolds, PTL DEF Spec, ImplementsSlots, Slot!SlotSpec, HeldMap
==============================================================================
