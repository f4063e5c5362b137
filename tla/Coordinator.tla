----------------------------- MODULE Coordinator -----------------------------
(***************************************************************************)
(* The scan coordinator of the Home Assistant integration (class           *)
(* ModbusScanCoordinator of coordinator.py): which Scans may run together, *)
(* how a Scan ends and is recorded, and how shutdown ends them all.        *)
(*                                                                         *)
(* Python runs it on one event loop, so what happens between two awaits is *)
(* one action.  The provider that runs a Scan is external: it may emit any *)
(* address, find its Bus, return early, raise, or never return until the   *)
(* deadline.  The end of a Scan is one action, its finally block included. *)
(*                                                                         *)
(* Left out: what a result says, timestamps, events, the lease and poller  *)
(* fields of the status, Repair issues and the pruning of saved poller     *)
(* choices.  Every Scan here has the same address range and passes         *)
(* ScanRequest.validate and the limits.  Scan ids are numbered in the      *)
(* order uuid4 hands them out.                                             *)
(***************************************************************************)
EXTENDS Integers, FiniteSets, SequencesExt

CONSTANTS
  MaxScans,     \* bound: Scans started in all
  Gateways,     \* Gateways of the provider
  Buses,        \* Bus names they may report
  Selectable,   \* Gateways whose adapter supports Bus selection
  NoBus,        \* a request that names no Bus
  Addresses,    \* slave addresses of a Scan
  MaxHistory,   \* max_history
  Callers,      \* who may call async_shutdown: the stop listener, the unload
  NoScan        \* no Scan holds a key

ScanIds == 1..MaxScans

ASSUME CoordinatorAssumption ==
  /\ MaxScans \in Nat /\ MaxHistory \in Nat \ {0}
  /\ NoBus \notin Buses
  /\ NoScan \notin ScanIds
  /\ Selectable \subseteq Gateways
  /\ IsFiniteSet(Addresses) /\ Addresses # {}

VARIABLES
  scan,        \* the _ScanState of each scan id
  scans,       \* scan ids in _scans
  active,      \* _active: the Scan that holds each Gateway and Bus key
  tasks,       \* scan ids in _tasks
  terminal,    \* _terminal_order
  shuttingDown,
  caller,      \* where each async_shutdown call is
  snapshot,    \* its active_scans
  known,       \* external: Buses each Gateway has reported
  task,        \* external: the event loop's view of each Scan's task
  cancelled,   \* external: scan ids whose task was cancelled
  pending,     \* ScanHistory: Scans it holds as started
  recorded,    \* ScanHistory: the terminal status it took
  refused      \* (auxiliary) Scans whose record ScanHistory did not take

scanVars     == <<scan, scans, active, tasks, terminal>>
shutdownVars == <<shuttingDown, caller, snapshot>>
loopVars     == <<task, cancelled>>
historyVars  == <<pending, recorded, refused>>
vars == <<scanVars, shutdownVars, known, loopVars, historyVars>>

Keys == Gateways \X (Buses \cup {NoBus})
EndPhases == {"completed", "cancelled", "failed"}

ScanStates == [key : Keys, bus : Buses \cup {NoBus}, phase : {"running"} \cup EndPhases,
               cancel : BOOLEAN, emitted : SUBSET Addresses, completed : Nat]

\* A scan id not handed out yet.
Unused == [phase |-> "unused"]

Used(i) == scan[i] # Unused
Running(i) == scan[i].phase = "running"
Ended(i) == scan[i].phase \in EndPhases
------------------------------------------------------------------------------
(* Starting a Scan. *)

\* _target_bus: a request for this Bus of the Gateway gets the Bus `target`, or none.
Target(g, bus, target) ==
  \/ bus # NoBus /\ target = bus
       /\ IF known[g] = {} THEN g \in Selectable ELSE bus \in known[g]
  \/ bus = NoBus /\ target = NoBus /\ known[g] = {}
  \/ bus = NoBus /\ known[g] = {target}

\* Mutant: a Scan that does not know its Bus holds only its own key.
ConflictsByName(key, other) ==
  key[1] = other[1] /\ (key[2] = NoBus \/ other[2] = key[2])

\* _running_on, for one held key: a Bus not known yet stands for the whole Gateway.
Conflicts(key, other) ==
  key[1] = other[1] /\ (key[2] = NoBus \/ other[2] = NoBus \/ other[2] = key[2])

Free(key) == \A other \in Keys : active[other] # NoScan => ~Conflicts(key, other)

\* Mutant: the key reserved for a Scan that could not be scheduled stays reserved.
KeptReserved(held, key, i) == held

\* The rollback when Home Assistant refuses the task, and the release of a key when its
\* Scan ends: the key is dropped if it is still this Scan's.
Dropped(held, key, i) == IF held[key] = i THEN [held EXCEPT ![key] = NoScan] ELSE held

\* start.  `scheduled` is whether Home Assistant accepts the task; the key is reserved
\* before it is asked.
Start(i, key, scheduled) ==
  LET reserved == [active EXCEPT ![key] = i]
  IN /\ ~shuttingDown
     /\ ~Used(i) /\ \A j \in ScanIds : j < i => Used(j)
     /\ Free(key)
     /\ IF scheduled
        THEN /\ scan' = [scan EXCEPT ![i] =
                   [key |-> key, bus |-> key[2], phase |-> "running", cancel |-> FALSE,
                    emitted |-> {}, completed |-> 0]]
             /\ scans' = scans \cup {i} /\ tasks' = tasks \cup {i}
             /\ active' = reserved
             /\ task' = [task EXCEPT ![i] = "scheduled"]
             /\ pending' = pending \cup {i}
        ELSE /\ active' = Dropped(reserved, key, i)
             /\ UNCHANGED <<scan, scans, tasks, task, pending>>
     /\ UNCHANGED <<terminal, shutdownVars, known, cancelled, recorded, refused>>

\* The event loop runs the task for the first time: _run calls the provider.
TaskBegins(i) ==
  /\ task[i] = "scheduled" /\ i \notin cancelled
  /\ task' = [task EXCEPT ![i] = "running"]
  /\ UNCHANGED <<scanVars, shutdownVars, known, cancelled, historyVars>>

\* A task cancelled before its first run ends without running any of _run.
TaskSkipped(i) ==
  /\ task[i] = "scheduled" /\ i \in cancelled
  /\ task' = [task EXCEPT ![i] = "done"]
  /\ UNCHANGED <<scanVars, shutdownVars, known, cancelled, historyVars>>
------------------------------------------------------------------------------
(* While the provider runs the Scan. *)

\* emit, for a result that _normalize_result accepts.  It refuses an address out of range
\* or emitted before; the provider then raises what it got (ProviderFails).
Emit(i, a) ==
  /\ task[i] = "running"
  /\ a \notin scan[i].emitted
  /\ scan' = [scan EXCEPT ![i].completed = @ + 1, ![i].emitted = @ \cup {a}]
  /\ UNCHANGED <<scans, active, tasks, terminal, shutdownVars, known, loopVars, historyVars>>

\* progress, with the Bus the provider resolved: the only one its Gateway reports.  Only
\* the first report counts.
BusFound(i, b) ==
  /\ task[i] = "running"
  /\ scan[i].bus = NoBus /\ known[scan[i].key[1]] = {b}
  /\ scan' = [scan EXCEPT ![i].bus = b]
  /\ UNCHANGED <<scans, active, tasks, terminal, shutdownVars, known, loopVars, historyVars>>

\* External: a connection read the Gateway's info, for a Scan or for check_gateway.
BusesLearned(g, names) ==
  /\ g \in Selectable /\ known[g] # names
  /\ known' = [known EXCEPT ![g] = names]
  /\ UNCHANGED <<scanVars, shutdownVars, loopVars, historyVars>>

\* cancel, the service: cooperative, and only while the Scan runs.
Cancel(i) ==
  /\ i \in scans /\ Running(i)
  /\ scan' = [scan EXCEPT ![i].cancel = TRUE]
  /\ UNCHANGED <<scans, active, tasks, terminal, shutdownVars, known, loopVars, historyVars>>
------------------------------------------------------------------------------
(* The end of a Scan. *)

\* Mutant: the pending start stays in the history.
PendingKept(ids) == pending

\* The pending starts without those of the Scans whose records the history took.
NotPending(ids) == pending \ ids

\* The newest MaxHistory Scans of an order of ended ones.
Newest(order) ==
  IF Len(order) > MaxHistory THEN SubSeq(order, Len(order) - MaxHistory + 1, Len(order))
  ELSE order

\* Mutant: an ended Scan leaves the order and stays in _scans.
ForgottenNone(order) == {}

\* The Scans _record_terminal forgets.
Forgotten(order) == Range(order) \ Range(Newest(order))

\* Mutant: the status is read before the Scan's last phase is set.
StatusBefore(i) == scan[i].phase

\* The status _record_terminal hands to the history.
FinalStatus(i) == scan'[i].phase

\* ScanHistory.remember for each of the Scans: a record it finds invalid or too large is
\* refused, and that Scan's start stays pending.
Remember(ids) ==
  \E taken \in SUBSET ids :
    /\ pending' = NotPending(taken)
    /\ recorded' = [i \in ScanIds |-> IF i \in taken THEN FinalStatus(i) ELSE recorded[i]]
    /\ refused' = refused \cup (ids \ taken)

\* _record_terminal for Scans that end in this order, with their final states in scan'.
RecordTerminal(ids) ==
  LET order == terminal \o ids
  IN /\ terminal' = Newest(order)
     /\ scans' = scans \ Forgotten(order)
     /\ Remember(Range(ids))

\* How the try block of _run ends with this state, and its finally block.
Finish(i, state) ==
  /\ scan' = [scan EXCEPT ![i] = state]
  /\ active' = Dropped(active, scan[i].key, i)
  /\ RecordTerminal(<<i>>)
  /\ tasks' = tasks \ ({i} \cup Forgotten(terminal \o <<i>>))
  /\ task' = [task EXCEPT ![i] = "done"]
  /\ UNCHANGED <<shutdownVars, known, cancelled>>

\* Mutant: an address that already has its outcome is counted again.
WithErrorCounted(state, a) ==
  [state EXCEPT !.phase = "failed", !.completed = @ + 1, !.emitted = @ \cup {a}]

\* _record_gateway_error at address a: the error's own address when it is in range, else
\* the current one, which may already have its outcome.
WithError(state, a) ==
  [state EXCEPT !.phase = "failed",
                !.completed = IF a \in state.emitted THEN @ ELSE @ + 1,
                !.emitted = @ \cup {a}]

\* The provider returned: cancelled, complete, or short of an outcome it owed.
AsReturned(state) ==
  IF state.cancel THEN {[state EXCEPT !.phase = "cancelled"]}
  ELSE IF Addresses \subseteq state.emitted THEN {[state EXCEPT !.phase = "completed"]}
  ELSE {WithError(state, a) : a \in Addresses \ state.emitted}

ProviderReturns(i) ==
  /\ task[i] = "running"
  /\ \E state \in AsReturned(scan[i]) : Finish(i, state)

\* The provider raised, refused an emission, failed unexpectedly, or ran into the
\* deadline of the Scan.
ProviderFails(i, a) ==
  /\ task[i] = "running"
  /\ Finish(i, WithError(scan[i], a))

\* The task was cancelled: asyncio raises CancelledError in the provider.
TaskCancelled(i) ==
  /\ task[i] = "running" /\ i \in cancelled
  /\ Finish(i, [scan[i] EXCEPT !.cancel = TRUE, !.phase = "cancelled"])
------------------------------------------------------------------------------
(* Shutdown. *)

\* async_shutdown up to its first await: new Scans are refused, running ones asked to stop.
ShutdownBegins(c) ==
  LET running == {i \in tasks \cap scans : Running(i)}
  IN /\ caller[c] = "idle"
     /\ shuttingDown' = TRUE
     /\ scan' = [i \in ScanIds |-> IF i \in running THEN [scan[i] EXCEPT !.cancel = TRUE]
                                   ELSE scan[i]]
     /\ snapshot' = [snapshot EXCEPT ![c] = running]
     /\ caller' = [caller EXCEPT ![c] = IF running = {} THEN "done" ELSE "grace"]
     /\ UNCHANGED <<scans, active, tasks, terminal, known, loopVars, historyVars>>

\* The grace period ends, early when every task is done: the others are cancelled.
GraceOver(c) ==
  /\ caller[c] = "grace"
  /\ caller' = [caller EXCEPT ![c] = "gather"]
  /\ cancelled' = cancelled \cup {i \in snapshot[c] : task[i] # "done"}
  /\ UNCHANGED <<scanVars, shuttingDown, snapshot, known, task, historyVars>>

\* The keys held once the Scans whose tasks never ran are dropped.
SlotsDropped(stuck) ==
  [key \in Keys |-> IF \E i \in stuck : scan[i].key = key /\ active[key] = i THEN NoScan
                    ELSE active[key]]

\* Mutant: the Scans of the snapshot are ended again, whatever they ended as.
StuckAll(c) == snapshot[c] \cap scans

\* Mutant: nothing is done for a Scan whose task never ran.
StuckNone(c) == {}

\* Scans still running when every task is done: theirs was cancelled before it ran.
Stuck(c) == {i \in snapshot[c] \cap scans : Running(i)}

\* Mutant: the Scans are waited for in _tasks, which only their own finally block leaves.
AllUnlisted(c) == snapshot[c] \cap tasks = {}

\* gather: every task is done, whichever way.
AllDone(c) == \A i \in snapshot[c] : task[i] = "done"

\* Scans in the order of _tasks: that of their ids.
InOrder(ids) ==
  {order \in [1..Cardinality(ids) -> ids] :
     /\ Range(order) = ids
     /\ \A j, k \in DOMAIN order : j < k => order[j] < order[k]}

\* async_shutdown after its last await.
ShutdownEnds(c) ==
  /\ caller[c] = "gather"
  /\ AllDone(c)
  /\ caller' = [caller EXCEPT ![c] = "done"]
  /\ scan' = [i \in ScanIds |-> IF i \in Stuck(c) THEN [scan[i] EXCEPT !.phase = "cancelled"]
                                ELSE scan[i]]
  /\ active' = SlotsDropped(Stuck(c))
  /\ \E order \in InOrder(Stuck(c)) :
       /\ RecordTerminal(order)
       /\ tasks' = tasks \ (Stuck(c) \cup Forgotten(terminal \o order))
  /\ UNCHANGED <<shuttingDown, snapshot, known, loopVars>>

\* External: Home Assistant cancels a task that outlives the stages of its own stop.
HassCancels(i) ==
  /\ shuttingDown /\ task[i] \in {"scheduled", "running"} /\ i \notin cancelled
  /\ cancelled' = cancelled \cup {i}
  /\ UNCHANGED <<scanVars, shutdownVars, known, task, historyVars>>
------------------------------------------------------------------------------
Init ==
  /\ scan = [i \in ScanIds |-> Unused]
  /\ scans = {} /\ tasks = {} /\ terminal = <<>>
  /\ active = [key \in Keys |-> NoScan]
  /\ shuttingDown = FALSE
  /\ caller = [c \in Callers |-> "idle"] /\ snapshot = [c \in Callers |-> {}]
  /\ known = [g \in Gateways |-> {}]
  /\ task = [i \in ScanIds |-> "none"] /\ cancelled = {}
  /\ pending = {} /\ recorded = [i \in ScanIds |-> "none"] /\ refused = {}

ScanStep(i) ==
  \/ \E g \in Gateways, bus, target \in Buses \cup {NoBus}, scheduled \in BOOLEAN :
       Target(g, bus, target) /\ Start(i, <<g, target>>, scheduled)
  \/ TaskBegins(i)
  \/ TaskSkipped(i)
  \/ \E a \in Addresses : Emit(i, a)
  \/ \E b \in Buses : BusFound(i, b)
  \/ Cancel(i)
  \/ ProviderReturns(i)
  \/ \E a \in Addresses : ProviderFails(i, a)
  \/ TaskCancelled(i)
  \/ HassCancels(i)

Next ==
  \/ \E i \in ScanIds : ScanStep(i)
  \/ \E g \in Gateways, names \in (SUBSET Buses) \ {{}} : BusesLearned(g, names)
  \/ \E c \in Callers : ShutdownBegins(c) \/ GraceOver(c) \/ ShutdownEnds(c)

Spec == Init /\ [][Next]_vars

\* The event loop runs ready tasks, asyncio.timeout ends every provider, and the timeout
\* of asyncio.wait ends the grace period.  Nobody has to call async_shutdown.
Fairness ==
  /\ \A i \in ScanIds :
       /\ WF_vars(TaskBegins(i)) /\ WF_vars(TaskSkipped(i))
       /\ WF_vars(\E a \in Addresses : ProviderFails(i, a))
  /\ \A c \in Callers : WF_vars(GraceOver(c)) /\ WF_vars(ShutdownEnds(c))

FairSpec == Spec /\ Fairness
------------------------------------------------------------------------------
(* Properties. *)

TypeOK ==
  /\ scan \in [ScanIds -> ScanStates \cup {Unused}]
  /\ scans \in SUBSET ScanIds /\ tasks \in SUBSET ScanIds
  /\ active \in [Keys -> ScanIds \cup {NoScan}]
  /\ terminal \in Seq(ScanIds)
  /\ shuttingDown \in BOOLEAN
  /\ caller \in [Callers -> {"idle", "grace", "gather", "done"}]
  /\ snapshot \in [Callers -> SUBSET ScanIds]
  /\ known \in [Gateways -> SUBSET Buses]
  /\ task \in [ScanIds -> {"none", "scheduled", "running", "done"}]
  /\ cancelled \in SUBSET ScanIds
  /\ pending \in SUBSET ScanIds /\ refused \in SUBSET ScanIds
  /\ recorded \in [ScanIds -> EndPhases \cup {"none"}]

\* The Buses a running Scan occupies, every Bus of its Gateway while it knows none.
Held(i) ==
  IF Running(i)
  THEN {scan[i].key[1]} \X (IF scan[i].bus = NoBus THEN Buses ELSE {scan[i].bus})
  ELSE {}

\* A key is held exactly by the running Scan it was reserved for, through refused
\* scheduling, every way a Scan ends, and tasks that are cancelled before they run: no
\* Bus stays blocked by a Scan that is over, and no running Scan loses its Bus.
SlotsMatchRunning ==
  \A i \in ScanIds, key \in Keys : active[key] = i <=> Running(i) /\ scan[i].key = key

\* A Scan's outcomes are counted once per address, the Gateway error that ends it
\* included, and it is completed only with every address and without a cancellation.
CountsAgree ==
  \A i \in ScanIds : Used(i) =>
    /\ scan[i].completed = Cardinality(scan[i].emitted)
    /\ scan[i].phase = "completed" => scan[i].emitted = Addresses /\ ~scan[i].cancel

\* The history in memory agrees with the coordinator: each Scan that ended was handed to
\* it once, with its own outcome; the pending starts are those of the running Scans and
\* of the Scans whose records it refused, and nothing is recorded of either.  What of
\* it a restart reports is EntryLifecycle's HistoryTrue.
HistoryAgrees ==
  \A i \in ScanIds :
    /\ i \in refused => Ended(i)
    /\ i \in pending <=> Running(i) \/ i \in refused
    /\ recorded[i] = IF Ended(i) /\ i \notin refused THEN scan[i].phase ELSE "none"

\* Each ended Scan is remembered once, the oldest is forgotten first, and a running Scan
\* is never forgotten.
OnlyEndedForgotten ==
  /\ scans = {i \in ScanIds : Running(i)} \cup Range(terminal)
  /\ Len(terminal) <= MaxHistory /\ IsInjective(terminal)
  /\ \A i \in ScanIds : Running(i) => i \in tasks

\* The coordinator's records agree with one another and with the Scans they are about.
RecordsAgree == SlotsMatchRunning /\ CountsAgree /\ HistoryAgrees /\ OnlyEndedForgotten

\* Once a call of async_shutdown returned, no Scan runs or ever will, no key is held and
\* no task is left, so the entry can be unloaded.
QuietAfterShutdown ==
  (\E c \in Callers : caller[c] = "done") =>
    /\ \A i \in ScanIds : ~Running(i) /\ task[i] \in {"none", "done"}
    /\ tasks = {} /\ \A key \in Keys : active[key] = NoScan

\* A Scan that ended keeps its outcome, also when shutdown finds it afterwards.
\* One that was asked to stop never ends as completed, whatever it did meanwhile.
OutcomeFinal ==
  [][\A i \in ScanIds :
       /\ Ended(i) => scan'[i] = scan[i]
       /\ Running(i) /\ scan[i].cancel => scan'[i].phase # "completed"]_vars

\* Every Scan ends, and its Bus is free again.
EveryScanEnds == \A i \in ScanIds : Running(i) ~> Ended(i)

\* async_shutdown returns, whatever the Scans do.
ShutdownReturns == \A c \in Callers : caller[c] = "grace" ~> caller[c] = "done"

\* No Scan and no shutdown goes on for ever.
EverythingEnds == EveryScanEnds /\ ShutdownReturns

\* Scans that run together are on different Buses, also when one of them does not know
\* its Bus yet.
Slot == INSTANCE SlotContract WITH
  Slots <- Gateways \X Buses, held <- [i \in ScanIds |-> Held(i)]
ImplementsSlots == Slot!SlotSpec
==============================================================================
