---------------------------- MODULE AdmissionProofs ----------------------------
(* Proofs about Admission, for any Buses, pollers, configurations the Gateway may be *)
(* flashed with, Device Profiles, calls and payloads.                                *)
EXTENDS Admission, DataLemmas
------------------------------------------------------------------------------
(* The inductive invariant. *)

Phases == Session \cup {"admitted", "failed", "refused"}
Chosen == [Buses -> SUBSET Pollers]

\* Requests a start_scan call was accepted with.
Requests ==
  {r \in {Completed(call, d) : call \in Calls, d \in Profiles} : Valid(r) /\ Within(GatewayLimits, r)}

ScanStates ==
  [request : Requests, checklists : [Buses -> Checklists], ownSlot : BOOLEAN, phase : Phases,
   bus : Keys, perBus : BOOLEAN, paused : SUBSET Pollers, unticked : Chosen, kept : Chosen]

Types ==
  /\ firmware \in Firmwares /\ info \in Firmwares \cup {NoInfo}
  /\ perBus \in BOOLEAN /\ mode \in BOOLEAN /\ stored \in BOOLEAN
  /\ saved \in [Buses -> Checklists] /\ unticked \in Chosen /\ kept \in Chosen
  /\ scans \in [Keys -> ScanStates \cup {NoScan}]
  /\ checking \in {"no", "reading", "closing", "failing"}

\* A Scan of a Bus not known yet is the only one, and one that did not connect yet is
\* kept under the Bus it asked for.
Places ==
  /\ AnyBus \in Running => Running = {AnyBus}
  /\ \A k \in Running : scans[k].phase = "admitted" => scans[k].bus = k

\* The pollers that a checklist says not to pause.
Off(rows) == {p \in DOMAIN rows : ~rows[p]}

\* What the histories say of the saved checklists: a poller that stayed in every table since
\* it was unticked is still off, and what is off was last saved as not paused.
ChoicesTrue ==
  \A b \in Buses :
    /\ kept[b] \subseteq Off(saved[b]) /\ Off(saved[b]) \subseteq unticked[b]
    /\ info # NoInfo => kept[b] \subseteq TableOf(info, b)

\* The same of the checklists a Scan took along.
ScanChoices ==
  \A k \in Running : \A b \in Buses :
    /\ scans[k].kept[b] \subseteq Off(scans[k].checklists[b])
    /\ Off(scans[k].checklists[b]) \subseteq scans[k].unticked[b]

\* A connected Scan has a Bus of the Gateway that runs, and selected rows of its table.
SessionTrue ==
  \A k \in Running : scans[k].phase \in Session =>
    /\ Readable(firmware) /\ scans[k].bus \in DOMAIN firmware.tables
    /\ scans[k].paused \subseteq TableOf(firmware, scans[k].bus)
    /\ scans[k].request.pause /\ scans[k].request.pollers = Unset =>
         scans[k].paused = TableOf(firmware, scans[k].bus) \ Off(scans[k].checklists[scans[k].bus])

\* Scans that were admitted to take turns fit together, whichever of them run.
Alike == {k \in Running : ~scans[k].ownSlot}
Own(r) == IF Addresses(r) > 1 THEN r.delay ELSE 0
Turns(all, S) == SumFunctionOnSet([j \in S |-> AttemptMs(all[j].request)], S)
GapsTrue ==
  \A k \in Alike : KeepsLease(scans[k].request) =>
    Own(scans[k].request) + Turns(scans, Alike \ {k}) <= GatewayLimits.delayMax

Inv == Types /\ Places /\ ChoicesTrue /\ ScanChoices /\ SessionTrue /\ GapsTrue /\ NothingRefusedLater
------------------------------------------------------------------------------
(* Checklists and tables. *)

\* The operators on checklists, by what they leave off.
LEMMA ChecklistFacts ==
  ASSUME NEW table \in SUBSET Pollers, NEW rows \in Checklists
  PROVE  /\ Checklist(table, rows) \in Checklists
         /\ Off(Checklist(table, rows)) = table \cap Off(rows)
         /\ Paused(Checklist(table, rows)) = table \ Off(rows)
<1>1. Checklist(table, rows) \in [table -> BOOLEAN]
  BY DEF Checklist
<1>2. \A p \in table : Checklist(table, rows)[p] <=> (p \in DOMAIN rows => rows[p])
  BY DEF Checklist
<1>3. DOMAIN Checklist(table, rows) = table
  BY DEF Checklist
<1>4. QED
  BY <1>1, <1>2, <1>3 DEF Checklists, Off, Paused

\* A choice pauses rows of its table only.
LEMMA ChoiceFacts ==
  ASSUME NEW table \in SUBSET Pollers, NEW indices
  PROVE  /\ Choice(table, indices) \in Checklists
         /\ DOMAIN Choice(table, indices) = table
         /\ Off(Choice(table, indices)) = table \ Paused(Choice(table, indices))
         /\ Paused(Choice(table, indices)) \subseteq table
<1>1. Choice(table, indices) \in [table -> BOOLEAN]
  BY DEF Choice
<1>2. QED
  BY <1>1 DEF Checklists, Off, Paused

\* No checklist.
LEMMA NoRowsFacts == NoRows \in Checklists /\ DOMAIN NoRows = {} /\ Off(NoRows) = {}
BY DEF NoRows, Checklists, Off

\* What a checklist has off are pollers.
LEMMA OffType == \A rows \in Checklists : Off(rows) \subseteq Pollers
BY DEF Checklists, Off

\* Tables hold pollers, of Buses.
LEMMA TableFacts ==
  ASSUME NEW f \in Firmwares, NEW b
  PROVE  /\ TableOf(f, b) \in SUBSET Pollers
         /\ b \in DOMAIN f.tables => b \in Buses /\ TableOf(f, b) = f.tables[b] /\ IsFiniteSet(f.tables[b])
         /\ b \notin DOMAIN f.tables => TableOf(f, b) = {}
BY FirmwaresAssumption DEF TableOf

\* A Scan pauses rows of the table; going by a checklist, those that are not off.
LEMMA SelectionFacts ==
  ASSUME firmware \in Firmwares, NEW scan, NEW b, scan.checklists[b] \in Checklists
  PROVE  /\ Selection(scan, b) \subseteq TableOf(firmware, b)
         /\ scan.request.pause /\ scan.request.pollers = Unset =>
              Selection(scan, b) = TableOf(firmware, b) \ Off(scan.checklists[b])
<1>1. TableOf(firmware, b) \in SUBSET Pollers
  BY TableFacts
<1> DEFINE t == TableOf(firmware, b)
<1>2. Paused(Choice(t, scan.request.pollers)) \subseteq t
  BY <1>1, ChoiceFacts
<1>3. Paused(Checklist(t, scan.checklists[b])) = t \ Off(scan.checklists[b])
  BY <1>1, ChecklistFacts
<1>4. QED
  BY <1>2, <1>3 DEF Selection

\* A Scan that runs is a Scan.
LEMMA ScanType == ASSUME Types, NEW k \in Running PROVE k \in Keys /\ scans[k] \in ScanStates /\ scans[k] # NoScan
BY DEF Types, Running

\* Buses and Keys.
LEMMA KeysFacts == IsFiniteSet(Keys) /\ Buses \subseteq Keys /\ AnyBus \in Keys
BY BusesAssumption, FS_AddElement DEF Keys
------------------------------------------------------------------------------
(* Turns. *)

\* The time of an attempt, and a Scan's own delay, are numbers.
LEMMA RequestNumbers ==
  ASSUME NEW r \in Requests
  PROVE  /\ AttemptMs(r) \in Nat /\ Own(r) \in Nat /\ Own(r) <= GatewayLimits.delayMax
<1>1. Valid(r) /\ Within(GatewayLimits, r)
  BY DEF Requests
<1>2. r.timeout \in RequestTimeouts /\ r.delay \in RequestDelays
  BY <1>1 DEF Valid
<1>3. RequestTimeouts \subseteq Nat /\ RequestDelays \subseteq Nat
  BY DEF RequestTimeouts, RequestDelays
<1>4. r.delay <= GatewayLimits.delayMax
  BY <1>1 DEF Within
<1>5. GatewayLimits.delayMax = 3000
  BY DEF GatewayLimits
<1>6. r.timeout \in Nat /\ r.delay \in Nat
  BY <1>2, <1>3
<1>7. AttemptMs(r) \in Nat
  BY <1>6 DEF AttemptMs, AttemptOverheadMs
<1>8. Own(r) = 0 \/ Own(r) = r.delay
  BY DEF Own
<1>9. QED
  BY <1>4, <1>5, <1>6, <1>7, <1>8

\* Turns of fewer Scans take no longer.
LEMMA TurnsGrow ==
  ASSUME Types, NEW S, S \subseteq Running, NEW T, T \subseteq S
  PROVE  Turns(scans, T) \in Nat /\ Turns(scans, S) \in Nat /\ Turns(scans, T) <= Turns(scans, S)
<1> DEFINE f == [j \in S |-> AttemptMs(scans[j].request)]
           e == [j \in T |-> AttemptMs(scans[j].request)]
<1>1. IsFiniteSet(S)
  BY KeysFacts, FS_Subset DEF Running
<1>2. \A x \in S : f[x] \in Nat
  <2> SUFFICES ASSUME NEW x \in S PROVE AttemptMs(scans[x].request) \in Nat
    OBVIOUS
  <2>1. scans[x].request \in Requests
    BY ScanType DEF ScanStates
  <2>2. QED
    BY <2>1, RequestNumbers
<1>3. \A x \in T : e[x] = f[x]
  OBVIOUS
<1>4. Turns(scans, T) = SumFunctionOnSet(e, T) /\ Turns(scans, S) = SumFunctionOnSet(f, S)
  BY DEF Turns
<1> HIDE DEF e, f
<1>5. T \in SUBSET S
  OBVIOUS
<1>6. QED
  BY <1>1, <1>2, <1>3, <1>4, <1>5, SumAtMost
------------------------------------------------------------------------------
(* What a step leaves as it was. *)

\* What a Scan was admitted with stays.
SameScan(k) ==
  /\ k \in Running
  /\ scans'[k].request = scans[k].request /\ scans'[k].ownSlot = scans[k].ownSlot
  /\ scans'[k].checklists = scans[k].checklists
  /\ scans'[k].unticked = scans[k].unticked /\ scans'[k].kept = scans[k].kept

\* Turns of the same requests take the same time.
LEMMA TurnsSame ==
  ASSUME NEW S, NEW x, NEW y, \A j \in S : x[j].request = y[j].request
  PROVE  Turns(x, S) = Turns(y, S)
<1>1. [j \in S |-> AttemptMs(x[j].request)] = [j \in S |-> AttemptMs(y[j].request)]
  OBVIOUS
<1>2. QED
  BY <1>1 DEF Turns

\* Scans that fit together still do when some have ended.
LEMMA GapsKept ==
  ASSUME Types, GapsTrue, Alike' \subseteq Alike, \A j \in Alike' : scans'[j].request = scans[j].request
  PROVE  GapsTrue'
<1> SUFFICES ASSUME NEW k \in Alike', KeepsLease(scans'[k].request)
             PROVE Own(scans'[k].request) + Turns(scans', Alike' \ {k}) <= GatewayLimits.delayMax
  BY DEF GapsTrue
<1>1. k \in Alike /\ scans'[k].request = scans[k].request
  OBVIOUS
<1>2. Own(scans[k].request) + Turns(scans, Alike \ {k}) <= GatewayLimits.delayMax
  BY <1>1 DEF GapsTrue
<1>3. Turns(scans', Alike' \ {k}) = Turns(scans, Alike' \ {k})
  <2>1. \A j \in Alike' \ {k} : scans'[j].request = scans[j].request
    OBVIOUS
  <2>2. QED
    BY <2>1, TurnsSame
<1>4. /\ Turns(scans, Alike' \ {k}) \in Nat /\ Turns(scans, Alike \ {k}) \in Nat
      /\ Turns(scans, Alike' \ {k}) <= Turns(scans, Alike \ {k})
  <2>1. Alike \ {k} \subseteq Running /\ Alike' \ {k} \subseteq Alike \ {k}
    BY DEF Alike
  <2>2. QED
    BY <2>1, TurnsGrow
<1>5. Own(scans[k].request) \in Nat
  <2>1. k \in Running
    BY <1>1 DEF Alike
  <2>2. scans[k].request \in Requests
    BY <2>1, ScanType DEF ScanStates
  <2>3. QED
    BY <2>2, RequestNumbers
<1>6. GatewayLimits.delayMax \in Nat
  BY DEF GatewayLimits
<1>7. QED
  BY <1>1, <1>2, <1>3, <1>4, <1>5, <1>6

\* A step that starts no Scan.
LEMMA KeptInv ==
  ASSUME Inv,
         \A k \in Running' :
           /\ SameScan(k) /\ scans'[k].phase # "refused"
           /\ scans'[k].phase = "admitted" => scans[k].phase = "admitted" /\ scans'[k].bus = scans[k].bus
  PROVE  Places' /\ ScanChoices' /\ GapsTrue' /\ NothingRefusedLater'
<1>1. Places'
  <2>1. Running' \subseteq Running
    BY DEF SameScan
  <2>2. QED
    BY <2>1 DEF Inv, Places
<1>2. ScanChoices'
  BY DEF Inv, ScanChoices, SameScan
<1>3. GapsTrue'
  <2>1. Alike' \subseteq Alike
    BY DEF Alike, SameScan
  <2>2. \A j \in Alike' : scans'[j].request = scans[j].request
    BY DEF Alike, SameScan
  <2>3. QED
    BY <2>1, <2>2, GapsKept DEF Inv
<1>4. NothingRefusedLater'
  BY DEF NothingRefusedLater, InPhase
<1>5. QED
  BY <1>1, <1>2, <1>3, <1>4

\* A step that connects no Scan.
LEMMA SessionsKept ==
  ASSUME Inv, firmware' = firmware,
         \A k \in Running' :
           /\ SameScan(k)
           /\ scans'[k].phase \in Session =>
                scans[k].phase \in Session /\ scans'[k].bus = scans[k].bus /\ scans'[k].paused = scans[k].paused
  PROVE  SessionTrue'
<1> SUFFICES ASSUME NEW k \in Running', scans'[k].phase \in Session
             PROVE  /\ Readable(firmware) /\ scans[k].bus \in DOMAIN firmware.tables
                    /\ scans[k].paused \subseteq TableOf(firmware, scans[k].bus)
                    /\ scans[k].request.pause /\ scans[k].request.pollers = Unset =>
                         scans[k].paused = TableOf(firmware, scans[k].bus) \ Off(scans[k].checklists[scans[k].bus])
  <2>1. Readable(firmware)' = Readable(firmware)
    BY DEF Readable
  <2>2. QED
    BY <2>1 DEF SessionTrue, SameScan
<1>1. k \in Running /\ scans[k].phase \in Session
  BY DEF SameScan
<1>2. QED
  BY <1>1 DEF Inv, SessionTrue

\* A step that leaves the Scans and the Gateway alone.
LEMMA ScansSame ==
  ASSUME Inv, scans' = scans, firmware' = firmware
  PROVE  Places' /\ ScanChoices' /\ SessionTrue' /\ GapsTrue' /\ NothingRefusedLater'
<1>1. \A k \in Running' : SameScan(k) /\ scans'[k].phase # "refused"
  BY DEF Inv, SameScan, Running, NothingRefusedLater, InPhase
<1>2. QED
  BY <1>1, KeptInv, SessionsKept

\* A step that leaves the choices alone.
LEMMA ChoicesSame ==
  ASSUME Inv, UNCHANGED <<saved, unticked, kept>>, info' \in {info, NoInfo}
  PROVE  ChoicesTrue'
BY DEF Inv, ChoicesTrue

\* What is read keeps the choices true.
LEMMA ReadInfoFacts ==
  ASSUME Inv, ReadInfo, saved' = saved
  PROVE  /\ info' \in Firmwares \cup {NoInfo} /\ perBus' \in BOOLEAN /\ mode' \in BOOLEAN
         /\ kept' \in Chosen /\ unticked' \in Chosen /\ ChoicesTrue'
<1>1. firmware \in Firmwares /\ kept \in Chosen /\ unticked \in Chosen
  BY DEF Inv, Types
<1>2. info' = firmware /\ kept' = [b \in Buses |-> kept[b] \cap TableOf(firmware, b)] /\ unticked' = unticked
  BY DEF ReadInfo
<1>3. perBus' \in BOOLEAN /\ mode' \in BOOLEAN
  <2>1. ResolvesSensors(firmware) \in BOOLEAN
    BY DEF ResolvesSensors
  <2>2. QED
    BY <2>1 DEF ReadInfo
<1>4. kept' \in Chosen
  BY <1>1, <1>2 DEF Chosen
<1>5. \A b \in Buses : kept'[b] \subseteq kept[b] /\ kept'[b] \subseteq TableOf(info', b)
  BY <1>2
<1>6. ChoicesTrue'
  <2> SUFFICES ASSUME NEW b \in Buses
               PROVE  kept'[b] \subseteq Off(saved[b]) /\ Off(saved[b]) \subseteq unticked[b] /\ kept'[b] \subseteq TableOf(info', b)
    BY <1>2 DEF ChoicesTrue
  <2>1. kept[b] \subseteq Off(saved[b]) /\ Off(saved[b]) \subseteq unticked[b]
    BY DEF Inv, ChoicesTrue
  <2>2. QED
    BY <1>5, <2>1
<1>7. QED
  BY <1>1, <1>2, <1>3, <1>4, <1>6

\* Pruning does too.
LEMMA PruneFacts ==
  ASSUME Inv, Prune, UNCHANGED memory
  PROVE  saved' \in [Buses -> Checklists] /\ ChoicesTrue'
<1>1. saved \in [Buses -> Checklists] /\ info \in Firmwares \cup {NoInfo}
  BY DEF Inv, Types
<1>2. CASE saved' = saved
  <2>1. ChoicesTrue'
    BY <1>2, ChoicesSame DEF memory
  <2>2. QED
    BY <1>1, <1>2, <2>1
<1>3. CASE saved' = Pruned /\ info # NoInfo
  <2>1. info \in Firmwares
    BY <1>1, <1>3
  <2>2. ASSUME NEW b \in Buses
        PROVE  Pruned[b] \in Checklists /\ kept[b] \subseteq Off(Pruned[b]) /\ Off(Pruned[b]) \subseteq unticked[b]
    <3>1. saved[b] \in Checklists /\ TableOf(info, b) \in SUBSET Pollers
      BY <1>1, <2>1, TableFacts
    <3>2. kept[b] \subseteq Off(saved[b]) /\ Off(saved[b]) \subseteq unticked[b] /\ kept[b] \subseteq TableOf(info, b)
      BY <1>3 DEF Inv, ChoicesTrue
    <3>3. Pruned[b] = IF saved[b] = NoRows \/ b \notin DOMAIN info.tables THEN NoRows
                      ELSE Checklist(info.tables[b], saved[b])
      BY DEF Pruned
    <3>4. CASE saved[b] = NoRows
      BY <3>2, <3>3, <3>4, NoRowsFacts
    <3>5. CASE b \notin DOMAIN info.tables
      <4>1. kept[b] = {}
        BY <2>1, <3>2, <3>5, TableFacts
      <4>2. QED
        BY <3>3, <3>5, <4>1, NoRowsFacts
    <3>6. CASE saved[b] # NoRows /\ b \in DOMAIN info.tables
      <4>1. info.tables[b] = TableOf(info, b)
        BY <3>6 DEF TableOf
      <4>2. Pruned[b] = Checklist(TableOf(info, b), saved[b])
        BY <3>3, <3>6, <4>1
      <4>3. Pruned[b] \in Checklists /\ Off(Pruned[b]) = TableOf(info, b) \cap Off(saved[b])
        BY <3>1, <4>2, ChecklistFacts
      <4>4. QED
        BY <3>2, <4>3
    <3>7. QED
      BY <3>4, <3>5, <3>6
  <2>3. Pruned \in [Buses -> Checklists]
    BY <2>2 DEF Pruned
  <2>4. ChoicesTrue'
    <3>1. \A b \in Buses : info # NoInfo => kept[b] \subseteq TableOf(info, b)
      BY DEF Inv, ChoicesTrue
    <3>2. QED
      BY <1>3, <2>2, <3>1 DEF ChoicesTrue, memory
  <2>5. QED
    BY <1>3, <2>3, <2>4
<1>4. QED
  BY <1>2, <1>3 DEF Prune
------------------------------------------------------------------------------
(* Steps. *)

\* The initial state satisfies the invariant.
LEMMA InitInv == Init => Inv
<1> SUFFICES ASSUME Init PROVE Inv
  OBVIOUS
<1>1. Running = {}
  BY DEF Init, Running
<1>2. Types
  BY NoRowsFacts DEF Init, Types, Chosen
<1>3. ChoicesTrue
  BY NoRowsFacts DEF Init, ChoicesTrue
<1>4. Places /\ ScanChoices /\ SessionTrue /\ NothingRefusedLater
  BY <1>1 DEF Places, ScanChoices, SessionTrue, NothingRefusedLater, InPhase
<1>5. GapsTrue
  BY <1>1 DEF GapsTrue, Alike
<1>6. QED
  BY <1>2, <1>3, <1>4, <1>5 DEF Inv

\* A Scan connects.
LEMMA ConnectInv == \A k \in Keys : Inv /\ Connect(k) => Inv'
<1> SUFFICES ASSUME NEW k \in Keys, Inv, Connect(k) PROVE Inv'
  OBVIOUS
<1>1. k \in Running /\ scans[k].phase = "admitted" /\ scans[k] \in ScanStates
  BY ScanType DEF Inv, Connect, InPhase
<1>2. ReadInfo /\ UNCHANGED <<firmware, stored, saved, checking, bounds>> /\ Readable(firmware)
  BY DEF Connect, ReadInfo
<1>3. firmware \in Firmwares /\ scans \in [Keys -> ScanStates \cup {NoScan}]
  BY DEF Inv, Types
<1>4. CASE scans' = [scans EXCEPT ![k].phase = "failed"]
  <2> DEFINE new == [scans[k] EXCEPT !.phase = "failed"]
  <2>1. /\ new \in ScanStates /\ new.phase = "failed" /\ new.request = scans[k].request
        /\ new.ownSlot = scans[k].ownSlot /\ new.checklists = scans[k].checklists
        /\ new.unticked = scans[k].unticked /\ new.kept = scans[k].kept
    BY <1>1 DEF ScanStates, Phases
  <2>2. scans' = [scans EXCEPT ![k] = new]
    BY <1>4
  <2> HIDE DEF new
  <2>3. scans' \in [Keys -> ScanStates \cup {NoScan}]
    BY <1>3, <2>1, <2>2
  <2>4. Types' /\ ChoicesTrue'
    BY <1>2, <2>3, ReadInfoFacts DEF Inv, Types
  <2>5. \A j \in Running' :
          /\ SameScan(j) /\ scans'[j].phase # "refused"
          /\ scans'[j].phase \in Session \cup {"admitted"} => scans'[j] = scans[j]
    <3> SUFFICES ASSUME NEW j \in Running'
                 PROVE  /\ SameScan(j) /\ scans'[j].phase # "refused"
                        /\ scans'[j].phase \in Session \cup {"admitted"} => scans'[j] = scans[j]
      OBVIOUS
    <3>1. CASE j = k
      BY <1>1, <1>3, <2>1, <2>2, <3>1 DEF SameScan, Session
    <3>2. CASE j # k
      <4>1. j \in Running /\ scans'[j] = scans[j]
        BY <1>3, <2>2, <3>2 DEF Running
      <4>2. QED
        BY <4>1 DEF Inv, SameScan, NothingRefusedLater, InPhase, Running
    <3>3. QED
      BY <3>1, <3>2
  <2>6. Places' /\ ScanChoices' /\ GapsTrue' /\ NothingRefusedLater'
    BY <2>5, KeptInv DEF SameScan
  <2>7. SessionTrue'
    BY <1>2, <2>5, SessionsKept
  <2>8. QED
    BY <2>4, <2>6, <2>7 DEF Inv
<1>5. ASSUME NEW b \in Targets(k), scans' = [scans EXCEPT ![k] = Connected(k, b)]
      PROVE  Inv'
  <2>1. b \in DOMAIN firmware.tables
    BY DEF Targets
  <2>2. b \in Buses /\ TableOf(firmware, b) \in SUBSET Pollers
    BY <1>3, <2>1, TableFacts
  <2>3. scans[k].checklists[b] \in Checklists
    BY <1>1, <2>2 DEF ScanStates
  <2> DEFINE selection == Selection(scans[k], b)
  <2>4. /\ selection \subseteq TableOf(firmware, b)
        /\ scans[k].request.pause /\ scans[k].request.pollers = Unset =>
             selection = TableOf(firmware, b) \ Off(scans[k].checklists[b])
    BY <1>3, <2>3, SelectionFacts
  <2>5. ResolvesSensors(firmware) \in BOOLEAN
    BY DEF ResolvesSensors
  <2> DEFINE new == Connected(k, b)
  <2>6. /\ new \in ScanStates /\ new.phase = "connected" /\ new.request = scans[k].request
        /\ new.ownSlot = scans[k].ownSlot /\ new.checklists = scans[k].checklists
        /\ new.unticked = scans[k].unticked /\ new.kept = scans[k].kept
        /\ new.bus = b /\ new.paused = selection
    <3> HIDE DEF selection
    <3>1. new = [scans[k] EXCEPT !.phase = "connected", !.bus = b, !.perBus = ResolvesSensors(firmware),
                                 !.paused = selection]
      BY DEF Connected, selection
    <3>2. b \in Keys /\ selection \in SUBSET Pollers /\ "connected" \in Phases
      BY <2>2, <2>4, KeysFacts DEF Phases, Session
    <3> HIDE DEF new
    <3>3. QED
      BY <1>1, <2>5, <3>1, <3>2 DEF ScanStates
  <2>7. scans' = [scans EXCEPT ![k] = new]
    BY <1>5
  <2> HIDE DEF new, selection
  <2>8. scans' \in [Keys -> ScanStates \cup {NoScan}]
    BY <1>3, <2>6, <2>7
  <2>9. Types' /\ ChoicesTrue'
    BY <1>2, <2>8, ReadInfoFacts DEF Inv, Types
  <2>10. \A j \in Running' \ {k} : j \in Running /\ scans'[j] = scans[j]
    BY <1>3, <2>7 DEF Running
  <2>11. scans'[k] = new
    BY <1>3, <2>7
  <2>12. \A j \in Running' :
           /\ SameScan(j) /\ scans'[j].phase # "refused"
           /\ scans'[j].phase = "admitted" => scans[j].phase = "admitted" /\ scans'[j].bus = scans[j].bus
    <3> SUFFICES ASSUME NEW j \in Running'
                 PROVE  /\ SameScan(j) /\ scans'[j].phase # "refused"
                        /\ scans'[j].phase = "admitted" => scans'[j] = scans[j]
      OBVIOUS
    <3>1. CASE j = k
      BY <1>1, <2>6, <2>11, <3>1 DEF SameScan
    <3>2. CASE j # k
      BY <2>10, <3>2 DEF Inv, SameScan, NothingRefusedLater, InPhase, Running
    <3>3. QED
      BY <3>1, <3>2
  <2>13. Places' /\ ScanChoices' /\ GapsTrue' /\ NothingRefusedLater'
    BY <2>12, KeptInv
  <2>14. SessionTrue'
    <3> SUFFICES ASSUME NEW j \in Running', scans'[j].phase \in Session
                 PROVE  /\ Readable(firmware) /\ scans'[j].bus \in DOMAIN firmware.tables
                        /\ scans'[j].paused \subseteq TableOf(firmware, scans'[j].bus)
                        /\ scans'[j].request.pause /\ scans'[j].request.pollers = Unset =>
                             scans'[j].paused = TableOf(firmware, scans'[j].bus) \ Off(scans'[j].checklists[scans'[j].bus])
      <4>1. Readable(firmware)' = Readable(firmware) /\ firmware' = firmware
        BY <1>2 DEF Readable
      <4>2. QED
        BY <4>1 DEF SessionTrue
    <3>1. CASE j = k
      BY <1>2, <2>1, <2>4, <2>6, <2>11, <3>1
    <3>2. CASE j # k
      BY <2>10, <3>2 DEF Inv, SessionTrue
    <3>3. QED
      BY <3>1, <3>2
  <2>15. QED
    BY <2>9, <2>13, <2>14 DEF Inv
<1>6. QED
  BY <1>4, <1>5 DEF Connect

\* An accepted request is within what the Gateway accepts.
LEMMA RequestFacts ==
  ASSUME NEW r \in Requests
  PROVE  /\ {r.start, r.end} \subseteq 1..247 /\ r.probe \in {3, 4}
         /\ r.register \in AllRegisters /\ r.count \in 1..4 /\ r.register + r.count - 1 <= 65535
         /\ r.timeout \in Timeouts
<1>1. Valid(r) /\ Within(GatewayLimits, r)
  BY DEF Requests
<1>2. /\ GatewayLimits.probes = {3, 4} /\ GatewayLimits.countMax = 4
      /\ GatewayLimits.allowed = AllRegisters /\ GatewayLimits.timeouts = Timeouts
  BY DEF GatewayLimits
<1>3. {r.start, r.end} \subseteq 1..247 /\ r.register \in AllRegisters /\ r.count \in 1..125
  BY <1>1 DEF Valid
<1>4. r.probe \in {3, 4} /\ r.count <= 4 /\ BlockAllowed(GatewayLimits, r) /\ r.timeout \in Timeouts
  BY <1>1, <1>2 DEF Within
<1>5. \A x \in AllRegisters : x \in Nat /\ x <= 65535
  BY DEF AllRegisters
<1> DEFINE first == r.register
           n == r.count
<1>6. first \in Nat /\ n \in 1..4
  BY <1>3, <1>4, <1>5
<1>7. first .. (first + n - 1) \subseteq AllRegisters
  BY <1>2, <1>4 DEF BlockAllowed, Block
<1> HIDE DEF first, n
<1>8. first + n - 1 \in first .. (first + n - 1)
  BY <1>6
<1>9. first + n - 1 <= 65535
  BY <1>5, <1>7, <1>8
<1>10. QED
  BY <1>3, <1>4, <1>6, <1>9 DEF first, n

\* The Gateway's validation passes it, with the selection of a connected Scan.
LEMMA NotRefused ==
  ASSUME Inv, NEW k \in Running, scans[k].phase \in Session
  PROVE  Accepts(firmware, scans[k].bus, scans[k].request, scans[k].paused)
<1> DEFINE b == scans[k].bus
           table == firmware.tables[b]
<1>1. scans[k].request \in Requests
  BY ScanType DEF Inv, ScanStates
<1>2. firmware \in Firmwares /\ Readable(firmware) /\ b \in DOMAIN firmware.tables
  BY DEF Inv, Types, SessionTrue
<1>3. scans[k].paused \subseteq table /\ IsFiniteSet(table)
  BY <1>2, TableFacts DEF Inv, SessionTrue
<1>4. \A p \in table : p.index \in 0 .. (Cardinality(table) - 1)
  BY <1>2 DEF Readable
<1>5. Cardinality(table) \in Nat
  BY <1>3, FS_CardinalityType
<1>6. \A p \in scans[k].paused : p.index < Cardinality(table)
  <2> HIDE DEF table
  <2>1. QED
    BY <1>3, <1>4, <1>5
<1>7. QED
  BY <1>1, <1>2, <1>6, RequestFacts DEF Accepts

\* What the session takes for a result the coordinator takes too.
LEMMA NotMalformed ==
  ASSUME NEW p \in Payloads, NEW r, ResultValid(p, r)
  PROVE  Normal(ProbeResult(p), r)
<1> DEFINE q == ProbeResult(p)
<1>1. DOMAIN p = {"outcome", "values", "exception", "latency"}
  BY PayloadsAssumption
<1>2. /\ q.outcome = p.outcome /\ q.latency = p.latency
      /\ q.values = (IF p.outcome = "responded" THEN p.values ELSE Unset)
      /\ q.exception = (IF p.outcome = "modbus_exception" THEN p.exception ELSE Unset)
  BY <1>1 DEF ProbeResult
<1>3. q.latency >= 0
  <2>1. \A x \in Latencies : x >= 0
    BY DEF Latencies
  <2>2. QED
    BY <1>2, <2>1 DEF ResultValid
<1>4. q.exception # Unset => q.exception \in 0..255
  <2>1. p.outcome = "modbus_exception" => p.exception \in 1..255
    BY DEF ResultValid
  <2>2. \A x \in 1..255 : x \in 0..255
    OBVIOUS
  <2>3. QED
    BY <1>2, <2>1, <2>2
<1>5. q.values # Unset =>
        /\ q.outcome = "responded" /\ Len(q.values) = r.count
        /\ \A i \in DOMAIN q.values : q.values[i] \in Word
  BY <1>2 DEF ResultValid
<1>6. QED
  BY <1>3, <1>4, <1>5 DEF Normal

\* A probe.
LEMMA ProbeInv == \A k \in Keys, p \in Payloads : Inv /\ Probe(k, p) => Inv'
<1> SUFFICES ASSUME NEW k \in Keys, NEW p \in Payloads, Inv, Probe(k, p) PROVE Inv'
  OBVIOUS
<1>1. k \in Running /\ scans[k].phase = "connected" /\ scans[k] \in ScanStates
  BY ScanType DEF Inv, Probe, InPhase
<1>2. Accepts(firmware, scans[k].bus, scans[k].request, scans[k].paused)
  BY <1>1, NotRefused DEF Session
<1>3. Normal(ProbeResult(p), scans[k].request)
  BY NotMalformed DEF Probe
<1>4. /\ scans' = [scans EXCEPT ![k].phase = "answered"]
      /\ UNCHANGED <<firmware, memory, stored, saved, checking, bounds>>
  BY <1>2, <1>3 DEF Probe
<1> DEFINE new == [scans[k] EXCEPT !.phase = "answered"]
<1>5. /\ new \in ScanStates /\ new.phase = "answered" /\ new.request = scans[k].request
      /\ new.ownSlot = scans[k].ownSlot /\ new.checklists = scans[k].checklists
      /\ new.unticked = scans[k].unticked /\ new.kept = scans[k].kept
      /\ new.bus = scans[k].bus /\ new.paused = scans[k].paused
  <2>1. "answered" \in Phases
    BY DEF Phases, Session
  <2>2. QED
    BY <1>1, <2>1 DEF ScanStates
<1>6. scans' = [scans EXCEPT ![k] = new]
  BY <1>4
<1> HIDE DEF new
<1>7. scans \in [Keys -> ScanStates \cup {NoScan}]
  BY DEF Inv, Types
<1>8. Types' /\ ChoicesTrue'
  <2>1. scans' \in [Keys -> ScanStates \cup {NoScan}]
    BY <1>5, <1>6, <1>7
  <2>2. ChoicesTrue'
    BY <1>4, ChoicesSame DEF memory
  <2>3. QED
    BY <1>4, <2>1, <2>2 DEF Inv, Types, memory
<1>9. \A j \in Running' :
        /\ SameScan(j) /\ scans'[j].phase # "refused"
        /\ scans'[j].phase = "admitted" => scans[j].phase = "admitted" /\ scans'[j].bus = scans[j].bus
        /\ scans'[j].phase \in Session =>
             scans[j].phase \in Session /\ scans'[j].bus = scans[j].bus /\ scans'[j].paused = scans[j].paused
  <2> SUFFICES ASSUME NEW j \in Running'
               PROVE  /\ SameScan(j) /\ scans'[j].phase # "refused"
                      /\ scans'[j].phase = "admitted" => scans[j].phase = "admitted" /\ scans'[j].bus = scans[j].bus
                      /\ scans'[j].phase \in Session =>
                           scans[j].phase \in Session /\ scans'[j].bus = scans[j].bus /\ scans'[j].paused = scans[j].paused
    OBVIOUS
  <2>1. CASE j = k
    BY <1>1, <1>5, <1>6, <1>7, <2>1 DEF SameScan, Session
  <2>2. CASE j # k
    <3>1. j \in Running /\ scans'[j] = scans[j]
      BY <1>6, <1>7, <2>2 DEF Running
    <3>2. QED
      BY <3>1 DEF Inv, SameScan, NothingRefusedLater, InPhase, Running
  <2>3. QED
    BY <2>1, <2>2
<1>10. Places' /\ ScanChoices' /\ GapsTrue' /\ NothingRefusedLater'
  BY <1>9, KeptInv
<1>11. SessionTrue'
  BY <1>4, <1>9, SessionsKept
<1>12. QED
  BY <1>8, <1>10, <1>11 DEF Inv

\* Scans end, and the others go on.
LEMMA EndedInv ==
  ASSUME Inv, \A k \in Running' : k \in Running /\ scans'[k] = scans[k]
  PROVE  Places' /\ ScanChoices' /\ GapsTrue' /\ NothingRefusedLater' /\ (firmware' = firmware => SessionTrue')
<1>1. \A k \in Running' : SameScan(k) /\ scans'[k].phase # "refused"
  BY DEF Inv, SameScan, NothingRefusedLater, InPhase, Running
<1>2. Places' /\ ScanChoices' /\ GapsTrue' /\ NothingRefusedLater'
  BY <1>1, KeptInv
<1>3. firmware' = firmware => SessionTrue'
  BY <1>1, SessionsKept
<1>4. QED
  BY <1>2, <1>3

\* A Scan ends.
LEMMA EndInv == \A k \in Keys : Inv /\ End(k) => Inv'
<1> SUFFICES ASSUME NEW k \in Keys, Inv, End(k) PROVE Inv'
  OBVIOUS
<1>1. scans' = [scans EXCEPT ![k] = NoScan] /\ Prune /\ UNCHANGED <<firmware, memory, stored, checking, bounds>>
  BY DEF End
<1>2. scans \in [Keys -> ScanStates \cup {NoScan}]
  BY DEF Inv, Types
<1>3. \A j \in Running' : j \in Running /\ scans'[j] = scans[j]
  BY <1>1, <1>2 DEF Running
<1>4. Places' /\ ScanChoices' /\ GapsTrue' /\ NothingRefusedLater' /\ SessionTrue'
  BY <1>1, <1>3, EndedInv
<1>5. saved' \in [Buses -> Checklists] /\ ChoicesTrue'
  BY <1>1, PruneFacts
<1>6. Types'
  BY <1>1, <1>2, <1>5 DEF Inv, Types, memory
<1>7. QED
  BY <1>4, <1>5, <1>6 DEF Inv

\* The Gateway check.
LEMMA CheckInv == Inv /\ (CheckBegins \/ CheckReads \/ CheckEnds) => Inv'
<1> SUFFICES ASSUME Inv, CheckBegins \/ CheckReads \/ CheckEnds PROVE Inv'
  OBVIOUS
<1>1. Places' /\ ScanChoices' /\ GapsTrue' /\ NothingRefusedLater' /\ SessionTrue'
  BY ScansSame DEF CheckBegins, CheckReads, CheckEnds
<1>2. CASE CheckBegins
  <2>1. ChoicesTrue'
    BY <1>2, ChoicesSame DEF CheckBegins, memory
  <2>2. Types'
    BY <1>2 DEF Inv, Types, CheckBegins, memory
  <2>3. QED
    BY <1>1, <2>1, <2>2 DEF Inv
<1>3. CASE CheckReads
  <2>1. Types' /\ ChoicesTrue'
    BY <1>3, ReadInfoFacts DEF Inv, Types, CheckReads
  <2>2. QED
    BY <1>1, <2>1 DEF Inv
<1>4. CASE CheckEnds
  <2>1. saved' \in [Buses -> Checklists] /\ ChoicesTrue'
    <3>1. CASE Prune
      BY <1>4, <3>1, PruneFacts DEF CheckEnds
    <3>2. CASE UNCHANGED saved
      <4>1. ChoicesTrue'
        BY <1>4, <3>2, ChoicesSame DEF CheckEnds, memory
      <4>2. QED
        BY <3>2, <4>1 DEF Inv, Types
    <3>3. QED
      BY <1>4, <3>1, <3>2 DEF CheckEnds
  <2>2. Types'
    BY <1>4, <2>1 DEF Inv, Types, CheckEnds, memory
  <2>3. QED
    BY <1>1, <2>1, <2>2 DEF Inv
<1>5. QED
  BY <1>2, <1>3, <1>4

\* The user's choice.
LEMMA SaveChoiceInv ==
  \A b \in Buses, indices \in SUBSET {p.index : p \in Pollers} : Inv /\ SaveChoice(b, indices) => Inv'
<1> SUFFICES ASSUME NEW b \in Buses, NEW indices \in SUBSET {p.index : p \in Pollers}, Inv, SaveChoice(b, indices)
             PROVE  Inv'
  OBVIOUS
<1> DEFINE checklist == Choice(info.tables[b], indices)
           off == DOMAIN checklist \ Paused(checklist)
<1>1. info # NoInfo /\ b \in DOMAIN info.tables
  BY DEF SaveChoice
<1>2. info \in Firmwares /\ saved \in [Buses -> Checklists] /\ unticked \in Chosen /\ kept \in Chosen
  BY <1>1 DEF Inv, Types
<1>3. info.tables[b] \in SUBSET Pollers /\ TableOf(info, b) = info.tables[b]
  BY <1>1, <1>2, TableFacts
<1>4. checklist \in Checklists /\ DOMAIN checklist = info.tables[b] /\ Off(checklist) = off
  BY <1>3, ChoiceFacts
<1>5. /\ saved' = [saved EXCEPT ![b] = checklist]
      /\ unticked' = [unticked EXCEPT ![b] = (@ \ DOMAIN checklist) \cup off]
      /\ kept' = [kept EXCEPT ![b] = off]
      /\ UNCHANGED <<firmware, info, perBus, mode, stored, scans, checking, bounds>>
  BY DEF SaveChoice
<1>6. off \subseteq info.tables[b]
  BY <1>4
<1> HIDE DEF checklist, off
<1>7. Types'
  <2>1. saved' \in [Buses -> Checklists]
    BY <1>2, <1>4, <1>5
  <2>2. unticked' \in Chosen /\ kept' \in Chosen
    BY <1>2, <1>3, <1>5, <1>6 DEF Chosen
  <2>3. QED
    BY <1>5, <2>1, <2>2 DEF Inv, Types
<1>8. ChoicesTrue'
  <2> SUFFICES ASSUME NEW c \in Buses
               PROVE  /\ kept'[c] \subseteq Off(saved'[c]) /\ Off(saved'[c]) \subseteq unticked'[c]
                      /\ info # NoInfo => kept'[c] \subseteq TableOf(info, c)
    BY <1>5 DEF ChoicesTrue
  <2>1. CASE c = b
    <3>1. saved'[c] = checklist /\ kept'[c] = off /\ off \subseteq unticked'[c]
      BY <1>2, <1>5, <2>1 DEF Chosen
    <3>2. QED
      BY <1>3, <1>4, <1>6, <2>1, <3>1
  <2>2. CASE c # b
    <3>1. saved'[c] = saved[c] /\ kept'[c] = kept[c] /\ unticked'[c] = unticked[c]
      BY <1>2, <1>5, <2>2 DEF Chosen
    <3>2. QED
      BY <3>1 DEF Inv, ChoicesTrue
  <2>3. QED
    BY <2>1, <2>2
<1>9. Places' /\ ScanChoices' /\ GapsTrue' /\ NothingRefusedLater' /\ SessionTrue'
  BY <1>5, ScansSame
<1>10. QED
  BY <1>7, <1>8, <1>9 DEF Inv

\* The delayed save of the mode, another set-up of the entry, and steps that change nothing.
LEMMA SaveModeInv == Inv /\ (SaveMode \/ Reload \/ UNCHANGED vars) => Inv'
<1> SUFFICES ASSUME Inv, SaveMode \/ Reload \/ UNCHANGED vars PROVE Inv'
  OBVIOUS
<1>1. /\ UNCHANGED <<firmware, mode, saved, scans, checking, unticked, kept>>
      /\ stored' \in {stored, mode} /\ info' \in {info, NoInfo} /\ perBus' \in {perBus, mode}
  BY DEF SaveMode, Reload, vars, memory
<1>2. Places' /\ ScanChoices' /\ GapsTrue' /\ NothingRefusedLater' /\ SessionTrue'
  BY <1>1, ScansSame
<1>3. ChoicesTrue'
  BY <1>1, ChoicesSame
<1>4. Types'
  BY <1>1 DEF Inv, Types
<1>5. QED
  BY <1>2, <1>3, <1>4 DEF Inv

\* Home Assistant crashes.
LEMMA CrashInv == Inv /\ Crash => Inv'
<1> SUFFICES ASSUME Inv, Crash PROVE Inv'
  OBVIOUS
<1>1. /\ scans' = [k \in Keys |-> NoScan] /\ checking' = "no" /\ info' = NoInfo
      /\ mode' = stored /\ perBus' = stored /\ UNCHANGED <<firmware, stored, saved, unticked, kept>>
  BY DEF Crash
<1>2. Running' = {}
  BY <1>1 DEF Running
<1>3. Places' /\ ScanChoices' /\ GapsTrue' /\ NothingRefusedLater' /\ SessionTrue'
  BY <1>1, <1>2, EndedInv
<1>4. ChoicesTrue'
  BY <1>1, ChoicesSame
<1>5. Types'
  BY <1>1 DEF Inv, Types
<1>6. QED
  BY <1>3, <1>4, <1>5 DEF Inv

\* The Gateway is flashed: no session outlives it.
LEMMA FlashInv == \A f \in Firmwares : Inv /\ Flash(f) => Inv'
<1> SUFFICES ASSUME NEW f \in Firmwares, Inv, Flash(f) PROVE Inv'
  OBVIOUS
<1> DEFINE Failed(k) == [scans[k] EXCEPT !.phase = "failed"]
<1>1. /\ firmware' = f /\ UNCHANGED <<memory, stored, saved>>
      /\ scans' = [k \in Keys |-> IF InPhase(k, {"connected", "answered"}) THEN Failed(k) ELSE scans[k]]
      /\ checking' \in {checking, "failing"}
  BY DEF Flash
<1>2. scans \in [Keys -> ScanStates \cup {NoScan}]
  BY DEF Inv, Types
<1>3. \A k \in Running :
        /\ Failed(k) \in ScanStates /\ Failed(k).phase = "failed" /\ Failed(k).request = scans[k].request
        /\ Failed(k).ownSlot = scans[k].ownSlot /\ Failed(k).checklists = scans[k].checklists
        /\ Failed(k).unticked = scans[k].unticked /\ Failed(k).kept = scans[k].kept
  <2>1. \A s \in ScanStates : [s EXCEPT !.phase = "failed"] \in ScanStates
    <3>1. "failed" \in Phases
      BY DEF Phases
    <3>2. QED
      BY <3>1 DEF ScanStates
  <2>2. \A k \in Running : scans[k] \in ScanStates
    BY ScanType DEF Inv
  <2>3. QED
    BY <2>1, <2>2 DEF ScanStates
<1> HIDE DEF Failed
<1>4. \A k \in Running' : k \in Running /\ (scans'[k] = scans[k] \/ scans'[k] = Failed(k))
  BY <1>1, <1>2 DEF Running, InPhase
<1>5. \A k \in Running' : scans'[k].phase \notin Session
  <2> SUFFICES ASSUME NEW k \in Running' PROVE scans'[k].phase \notin Session
    OBVIOUS
  <2>1. k \in Keys /\ k \in Running
    BY <1>4 DEF Running
  <2>2. CASE scans[k].phase \in Session
    <3>1. scans'[k] = Failed(k)
      BY <1>1, <2>1, <2>2 DEF InPhase, Session
    <3>2. QED
      BY <1>3, <2>1, <3>1 DEF Session
  <2>3. CASE scans[k].phase \notin Session
    <3>1. scans'[k] = scans[k]
      BY <1>1, <2>1, <2>3 DEF InPhase, Session
    <3>2. QED
      BY <2>3, <3>1
  <2>4. QED
    BY <2>2, <2>3
<1>6. \A k \in Running' :
        /\ SameScan(k) /\ scans'[k].phase # "refused"
        /\ scans'[k].phase = "admitted" => scans[k].phase = "admitted" /\ scans'[k].bus = scans[k].bus
  <2> SUFFICES ASSUME NEW k \in Running'
               PROVE  /\ SameScan(k) /\ scans'[k].phase # "refused"
                      /\ scans'[k].phase = "admitted" => scans'[k] = scans[k]
    OBVIOUS
  <2>1. k \in Running
    BY <1>4
  <2>2. CASE scans'[k] = Failed(k)
    BY <1>3, <2>1, <2>2 DEF SameScan
  <2>3. CASE scans'[k] = scans[k]
    BY <2>1, <2>3 DEF Inv, SameScan, NothingRefusedLater, InPhase, Running
  <2>4. QED
    BY <1>4, <2>2, <2>3
<1>7. Places' /\ ScanChoices' /\ GapsTrue' /\ NothingRefusedLater'
  BY <1>6, KeptInv
<1>8. SessionTrue'
  BY <1>5 DEF SessionTrue
<1>9. ChoicesTrue'
  BY <1>1, ChoicesSame DEF memory
<1>10. Types'
  <2>1. scans' \in [Keys -> ScanStates \cup {NoScan}]
    <3>1. \A k \in Keys : InPhase(k, {"connected", "answered"}) => Failed(k) \in ScanStates
      BY <1>3 DEF InPhase
    <3>2. QED
      BY <1>1, <1>2, <3>1
  <2>2. QED
    BY <1>1, <2>1 DEF Inv, Types, memory
<1>11. QED
  BY <1>7, <1>8, <1>9, <1>10 DEF Inv
------------------------------------------------------------------------------
(* A Scan is admitted. *)

\* It is kept under a Bus, or under none.
LEMMA TargetBusType ==
  ASSUME Types, NEW call \in Calls
  PROVE  TargetBus(call) \in Keys
<1> DEFINE names == IF info = NoInfo THEN {} ELSE DOMAIN info.tables
<1>1. call.bus \in Keys
  BY CallsAssumption DEF Keys
<1>2. ASSUME Cardinality(names) = 1 PROVE (CHOOSE b \in names : TRUE) \in Keys
  <2>1. names # {}
    <3> HIDE DEF names
    <3>1. QED
      BY <1>2, FS_EmptySet
  <2>2. names \subseteq Buses
    BY FirmwaresAssumption DEF Types
  <2>3. QED
    <3> HIDE DEF names
    <3>1. QED
      BY <2>1, <2>2, KeysFacts
<1>3. QED
  BY <1>1, <1>2 DEF TargetBus

\* A Scan that was checked against all that run fits with those it takes turns with.
LEMMA NewGaps ==
  ASSUME Inv, NEW k \in Keys, NEW r \in Requests, NEW new,
         scans' = [scans EXCEPT ![k] = new], new.request = r, new.ownSlot = perBus,
         k \notin Running, FitsAlongside(k, r)
  PROVE  GapsTrue'
<1>1. scans \in [Keys -> ScanStates \cup {NoScan}] /\ perBus \in BOOLEAN /\ Types /\ GapsTrue
  BY DEF Inv, Types
<1>2. \A j \in Running' \ {k} : j \in Running /\ scans'[j] = scans[j]
  BY <1>1 DEF Running
<1>3. scans'[k] = new
  BY <1>1
<1>4. CASE perBus
  <2>1. k \notin Alike'
    BY <1>3, <1>4 DEF Alike
  <2>2. Alike' \subseteq Alike /\ \A j \in Alike' : scans'[j].request = scans[j].request
    BY <1>2, <2>1 DEF Alike
  <2>3. QED
    BY <1>1, <2>2, GapsKept
<1>5. CASE ~perBus
  <2> DEFINE S == Running \cup {k}
             requests == [j \in S |-> IF j = k THEN r ELSE scans[j].request]
             A == Alike'
  <2>1. A \subseteq S /\ \A j \in A : j \in S /\ scans'[j].request = requests[j]
    <3>1. \A j \in A : j \in Running'
      BY DEF Alike
    <3>2. QED
      BY <1>2, <1>3, <3>1
  <2>2. \A j \in S : requests[j] \in Requests
    <3>1. \A j \in Running : scans[j].request \in Requests
      BY <1>1, ScanType DEF ScanStates
    <3>2. QED
      BY <3>1
  <2>3. DOMAIN requests = S
    OBVIOUS
  <2>4. Running = {} \/ TurnsFit(requests, k)
    BY <1>5 DEF FitsAlongside
  <2>5. IsFiniteSet(S)
    <3>1. S \subseteq Keys
      BY DEF Running
    <3>2. QED
      <4> HIDE DEF S
      <4>1. QED
        BY <3>1, KeysFacts, FS_Subset
  <2>6. GapsTrue' = \A x \in A : KeepsLease(scans'[x].request) =>
                      Own(scans'[x].request) + Turns(scans', A \ {x}) <= GatewayLimits.delayMax
    BY DEF GapsTrue
  <2> HIDE DEF A, requests
  <2> SUFFICES ASSUME NEW x \in A, KeepsLease(scans'[x].request)
               PROVE  Own(scans'[x].request) + Turns(scans', A \ {x}) <= GatewayLimits.delayMax
    BY <2>6
  <2>7. scans'[x].request = requests[x] /\ requests[x] \in Requests /\ x \in S
    BY <2>1, <2>2
  <2>8. Own(requests[x]) \in Nat /\ Own(requests[x]) <= GatewayLimits.delayMax
    BY <2>7, RequestNumbers
  <2>9. CASE Running = {}
    <3>1. A \ {x} = {}
      BY <2>1, <2>9
    <3>2. Turns(scans', {}) = 0
      BY SumEmpty DEF Turns
    <3>3. QED
      BY <2>7, <2>8, <3>1, <3>2
  <2>10. CASE TurnsFit(requests, k)
    <3> DEFINE f == [j \in S |-> AttemptMs(requests[j])]
               T == A \ {x}
               e == [j \in T |-> AttemptMs(scans'[j].request)]
    <3>1. TurnWait(requests, x) <= GatewayLimits.delayMax
      BY <2>3, <2>7, <2>10 DEF TurnsFit
    <3>2. TurnWait(requests, x) = Own(requests[x]) + SumFunctionOnSet(f, S \ {x})
      BY <2>3 DEF TurnWait, Own
    <3>3. T \in SUBSET (S \ {x}) /\ IsFiniteSet(S \ {x})
      <4>1. IsFiniteSet(S \ {x})
        <5> HIDE DEF S
        <5>1. QED
          BY <2>5, FS_Subset
      <4>2. QED
        BY <2>1, <4>1
    <3>4. \A j \in S \ {x} : f[j] \in Nat
      BY <2>2, RequestNumbers
    <3>5. \A j \in T : e[j] = f[j]
      BY <2>1
    <3>6. Turns(scans', T) = SumFunctionOnSet(e, T)
      BY DEF Turns
    <3>7. /\ SumFunctionOnSet(e, T) \in Nat /\ SumFunctionOnSet(f, S \ {x}) \in Nat
          /\ SumFunctionOnSet(e, T) <= SumFunctionOnSet(f, S \ {x})
      <4> HIDE DEF e, f, T, S
      <4>1. QED
        BY <3>3, <3>4, <3>5, SumAtMost
    <3>8. GatewayLimits.delayMax \in Nat
      BY DEF GatewayLimits
    <3> HIDE DEF e, f, S
    <3>9. QED
      BY <2>7, <2>8, <3>1, <3>2, <3>6, <3>7, <3>8
  <2>11. QED
    BY <2>4, <2>9, <2>10
<1>6. QED
  BY <1>1, <1>4, <1>5

\* A call is accepted.
LEMMA StartInv == \A call \in Calls, d \in Profiles : Inv /\ Start(call, d) => Inv'
<1> SUFFICES ASSUME NEW call \in Calls, NEW d \in Profiles, Inv, Start(call, d) PROVE Inv'
  OBVIOUS
<1> DEFINE r == Completed(call, d)
           k == TargetBus(call)
           new == [request |-> r, checklists |-> saved, ownSlot |-> perBus, phase |-> "admitted",
                   bus |-> k, perBus |-> FALSE, paused |-> {}, unticked |-> unticked, kept |-> kept]
<1>1. Valid(r) /\ Within(GatewayLimits, r) /\ BusFree(k) /\ FitsAlongside(k, r)
      /\ scans' = [scans EXCEPT ![k] = new]
      /\ UNCHANGED <<firmware, memory, stored, saved, checking, bounds>>
  BY DEF Start
<1>2. r \in Requests
  <2>1. r \in {Completed(c, e) : c \in Calls, e \in Profiles}
    OBVIOUS
  <2>2. QED
    BY <1>1, <2>1 DEF Requests
<1>3. k \in Keys
  BY TargetBusType DEF Inv
<1>4. Types /\ scans \in [Keys -> ScanStates \cup {NoScan}]
  BY DEF Inv, Types
<1> HIDE DEF r, k
<1>5. new \in ScanStates
  <2>1. saved \in [Buses -> Checklists] /\ unticked \in Chosen /\ kept \in Chosen /\ perBus \in BOOLEAN
    BY <1>4 DEF Types
  <2>2. "admitted" \in Phases
    BY DEF Phases
  <2>3. QED
    BY <1>2, <1>3, <2>1, <2>2 DEF ScanStates
<1>6. /\ new.request = r /\ new.ownSlot = perBus /\ new.phase = "admitted" /\ new.bus = k
      /\ new.checklists = saved /\ new.unticked = unticked /\ new.kept = kept
  OBVIOUS
<1> HIDE DEF new
<1>7. scans'[k] = new /\ \A j \in Running' \ {k} : j \in Running /\ scans'[j] = scans[j]
  BY <1>1, <1>3, <1>4 DEF Running
<1>8. k \notin Running /\ (k = AnyBus => Running = {}) /\ AnyBus \notin Running
  BY <1>1 DEF BusFree
<1>9. Types' /\ ChoicesTrue'
  <2>1. scans' \in [Keys -> ScanStates \cup {NoScan}]
    BY <1>1, <1>4, <1>5
  <2>2. ChoicesTrue'
    BY <1>1, ChoicesSame DEF memory
  <2>3. QED
    BY <1>1, <1>4, <2>1, <2>2 DEF Types, memory
<1>10. Places'
  <2>1. AnyBus \in Running' => Running' = {AnyBus}
    <3> SUFFICES ASSUME AnyBus \in Running' PROVE Running' = {AnyBus}
      OBVIOUS
    <3>1. k = AnyBus
      BY <1>7, <1>8
    <3>2. QED
      BY <1>7, <1>8, <3>1
  <2>2. \A j \in Running' : scans'[j].phase = "admitted" => scans'[j].bus = j
    BY <1>4, <1>6, <1>7 DEF Inv, Places
  <2>3. QED
    BY <2>1, <2>2 DEF Places
<1>11. ScanChoices'
  <2> SUFFICES ASSUME NEW j \in Running', NEW b \in Buses
               PROVE  /\ scans'[j].kept[b] \subseteq Off(scans'[j].checklists[b])
                      /\ Off(scans'[j].checklists[b]) \subseteq scans'[j].unticked[b]
    BY DEF ScanChoices
  <2>1. CASE j = k
    BY <1>6, <1>7, <2>1 DEF Inv, ChoicesTrue
  <2>2. CASE j # k
    BY <1>7, <2>2 DEF Inv, ScanChoices
  <2>3. QED
    BY <2>1, <2>2
<1>12. SessionTrue'
  <2>1. Readable(firmware)' = Readable(firmware) /\ firmware' = firmware
    BY <1>1 DEF Readable
  <2> SUFFICES ASSUME NEW j \in Running', scans'[j].phase \in Session
               PROVE  /\ Readable(firmware) /\ scans'[j].bus \in DOMAIN firmware.tables
                      /\ scans'[j].paused \subseteq TableOf(firmware, scans'[j].bus)
                      /\ scans'[j].request.pause /\ scans'[j].request.pollers = Unset =>
                           scans'[j].paused = TableOf(firmware, scans'[j].bus) \ Off(scans'[j].checklists[scans'[j].bus])
    BY <2>1 DEF SessionTrue
  <2>2. j # k
    BY <1>6, <1>7 DEF Session
  <2>3. QED
    BY <1>7, <2>2 DEF Inv, SessionTrue
<1>13. GapsTrue'
  BY <1>1, <1>2, <1>3, <1>6, <1>8, NewGaps
<1>14. NothingRefusedLater'
  BY <1>6, <1>7 DEF Inv, NothingRefusedLater, InPhase, Running
<1>15. QED
  BY <1>9, <1>10, <1>11, <1>12, <1>13, <1>14 DEF Inv
------------------------------------------------------------------------------
\* Every step preserves the invariant.
LEMMA StepInv == Inv /\ [Next]_vars => Inv'
<1> SUFFICES ASSUME Inv, [Next]_vars PROVE Inv'
  OBVIOUS
<1>1. CASE \E call \in Calls, d \in Profiles : Start(call, d)
  BY <1>1, StartInv
<1>2. CASE \E k \in Keys : Connect(k) \/ (\E p \in Payloads : Probe(k, p)) \/ End(k)
  BY <1>2, ConnectInv, ProbeInv, EndInv
<1>3. CASE CheckBegins \/ CheckReads \/ CheckEnds
  BY <1>3, CheckInv
<1>4. CASE \E b \in Buses : \E indices \in SUBSET {p.index : p \in Pollers} : SaveChoice(b, indices)
  BY <1>4, SaveChoiceInv
<1>5. CASE SaveMode \/ Reload \/ UNCHANGED vars
  BY <1>5, SaveModeInv
<1>6. CASE Crash
  BY <1>6, CrashInv
<1>7. CASE \E f \in Firmwares : Flash(f)
  BY <1>7, FlashInv
<1>8. QED
  BY <1>1, <1>2, <1>3, <1>4, <1>5, <1>6, <1>7 DEF Next

\* The invariant holds in every reachable state.
THEOREM Inductive == Spec => []Inv
<1>1. Init => Inv
  BY InitInv
<1>2. Inv /\ [Next]_vars => Inv'
  BY StepInv
<1>3. QED
  BY <1>1, <1>2, PTL DEF Spec

\* Types and places make TypeOK.
LEMMA TypeImplied == Inv => TypeOK
<1> SUFFICES ASSUME Inv PROVE TypeOK
  OBVIOUS
<1>1. Types /\ Places /\ ChoicesTrue
  BY DEF Inv
<1>2. \A b \in Buses : saved[b] \in Checklists /\ unticked[b] \subseteq Pollers /\ kept[b] \subseteq unticked[b]
  BY <1>1 DEF Types, ChoicesTrue, Chosen
<1>3. \A k \in Running : scans[k].phase \in Session \cup {"admitted", "failed", "refused"}
  BY <1>1, ScanType DEF ScanStates, Phases
<1>4. QED
  BY <1>1, <1>2, <1>3 DEF Types, Places, TypeOK

\* Types, and a Scan whose Bus is not known yet runs alone, for all values of the constants.
THEOREM TypeCorrect == Spec => []TypeOK
BY TypeImplied, Inductive, PTL

\* Its saved choices make a Scan's pauses those that were chosen.
LEMMA PausesImplied == Inv => PausesAsChosen
<1> SUFFICES ASSUME Inv PROVE PausesAsChosen
  OBVIOUS
<1> SUFFICES ASSUME NEW k \in Keys, InPhase(k, Session), scans[k].request.pause, scans[k].request.pollers = Unset
             PROVE  /\ scans[k].paused \subseteq TableOf(firmware, scans[k].bus)
                    /\ scans[k].paused \cap scans[k].kept[scans[k].bus] = {}
                    /\ TableOf(firmware, scans[k].bus) \ scans[k].paused \subseteq scans[k].unticked[scans[k].bus]
  BY DEF PausesAsChosen
<1>1. k \in Running /\ scans[k].phase \in Session
  BY DEF InPhase
<1> DEFINE b == scans[k].bus
<1>2. b \in DOMAIN firmware.tables /\ scans[k].paused = TableOf(firmware, b) \ Off(scans[k].checklists[b])
  BY <1>1 DEF Inv, SessionTrue
<1>3. b \in Buses
  BY <1>2, TableFacts DEF Inv, Types
<1>4. scans[k].kept[b] \subseteq Off(scans[k].checklists[b]) /\ Off(scans[k].checklists[b]) \subseteq scans[k].unticked[b]
  BY <1>1, <1>3 DEF Inv, ScanChoices
<1>5. QED
  BY <1>2, <1>4

\* A Scan that goes by the saved checklist pauses what the user chose, whatever the Gateway
\* was flashed with and whatever HA read, pruned or forgot in between.
THEOREM PausesHold == Spec => []PausesAsChosen
BY PausesImplied, Inductive, PTL

\* Scans that share a Probe Slot are among those that fit together.
LEMMA GapsImplied == Inv => GapsFitLease
<1> SUFFICES ASSUME Inv PROVE GapsFitLease
  OBVIOUS
<1> SUFFICES ASSUME NEW k \in Keys, InPhase(k, Session), KeepsLease(scans[k].request),
                    \A j \in Sharers(k) \cup {k} : ~scans[j].ownSlot
             PROVE  Own(scans[k].request) + Turns(scans, Sharers(k)) < IdleMs
  BY DEF GapsFitLease, Own, Turns
<1>1. k \in Running /\ Sharers(k) \subseteq Running \ {k}
  BY DEF Sharers, InPhase
<1>2. k \in Alike /\ Sharers(k) \subseteq Alike \ {k}
  BY <1>1 DEF Alike
<1>3. Own(scans[k].request) + Turns(scans, Alike \ {k}) <= GatewayLimits.delayMax
  BY <1>2 DEF Inv, GapsTrue
<1>4. /\ Turns(scans, Sharers(k)) \in Nat /\ Turns(scans, Alike \ {k}) \in Nat
      /\ Turns(scans, Sharers(k)) <= Turns(scans, Alike \ {k})
  <2>1. Alike \ {k} \subseteq Running /\ Types
    BY DEF Alike, Inv
  <2>2. QED
    BY <1>2, <2>1, TurnsGrow
<1>5. Own(scans[k].request) \in Nat
  <2>1. scans[k].request \in Requests
    BY <1>1, ScanType DEF Inv, ScanStates
  <2>2. QED
    BY <2>1, RequestNumbers
<1>6. GatewayLimits.delayMax = 3000 /\ IdleMs = 5000
  BY DEF GatewayLimits, IdleMs
<1>7. QED
  BY <1>3, <1>4, <1>5, <1>6

\* Scans that share a Probe Slot, and were admitted knowing that they would, leave no gap in
\* which the Gateway would end a lease as idle: for any number of Buses and any requests.
THEOREM GapsHold == Spec => []GapsFitLease
BY GapsImplied, Inductive, PTL

\* The Gateway's validation passes every probe of an admitted Scan and the coordinator every
\* result the session took, whatever the Gateway is flashed with.
THEOREM NothingRefusedHolds == Spec => []NothingRefusedLater
<1>1. Inv => NothingRefusedLater
  BY DEF Inv
<1>2. QED
  BY <1>1, Inductive, PTL
==============================================================================
