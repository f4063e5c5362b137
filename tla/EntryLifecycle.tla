---------------------------- MODULE EntryLifecycle ----------------------------
(* Home Assistant's side of the integration as a whole: setup and unload of the   *)
(* config entry (__init__.py), the service calls they admit (services.py), the    *)
(* Scan history (history.py) and the store of Device Profiles                     *)
(* (device_profile_store.py), over restarts of Home Assistant.                    *)
(*                                                                                *)
(* There is one entry; a setup or unload of another changes nothing.  A Scan is   *)
(* what Coordinator says of it, running or ended; every start selects one and the *)
(* same imported profile.  Waiting for a lock is joining its queue.               *)
EXTENDS Naturals, Sequences, FiniteSets, SequencesExt
CONSTANTS
  Tasks,       \* setup and unload tasks
  Calls,       \* service calls, each made once
  Scans,
  BigRecords,  \* Scans whose terminal record is larger than MAX_RECORD_BYTES
  MaxRecords,  \* MAX_RECORDS
  MaxGen,      \* bound on the generations of one process
  MaxRestarts  \* bound on restarts of Home Assistant

ASSUME EntryAssumption ==
  /\ BigRecords \subseteq Scans /\ MaxRecords \in Nat \ {0}
  /\ MaxGen \in Nat /\ MaxRestarts \in Nat

NoGen == 0
Gens == 1..MaxGen
NoTask == [kind |-> "none", pc |-> "idle", gen |-> NoGen, known |-> 0]
NoCall == [kind |-> "none", pc |-> "idle", own |-> NoGen, coord |-> NoGen]
Done == [NoCall EXCEPT !.pc = "done"]
Empty == [records |-> <<>>, pending |-> <<>>]

VARIABLES
  owner, pending, nextGen,  \* of _LifecycleState
  queue,      \* tasks at its lock; the first holds it
  task,
  loaded,     \* the history is in hass.data
  services,   \* generation whose services are available
  coord,      \* generation whose coordinator is in hass.data
  shut,       \* generations whose coordinator was told to shut down
  scan,
  history,    \* records and pending of ScanHistory
  dirty,      \* a delayed save is due
  disk,       \* what is stored
  profile, profileDisk,  \* the profile is in the store, and on disk
  profileQueue,          \* calls at the store's lock; the first holds it
  call,
  stop,       \* the stop listener: "none", "closing", "done"
  restarts,
  savedEnd, savedStart  \* (history) Scans whose end, or start, was saved

entryVars == <<owner, pending, nextGen, queue, task, loaded, services, coord>>
scanVars == <<shut, scan>>
historyVars == <<history, dirty, disk, savedEnd, savedStart>>
callVars == <<profile, profileDisk, profileQueue, call>>
hassVars == <<stop, restarts>>
vars == <<entryVars, scanVars, historyVars, callVars, hassVars>>
------------------------------------------------------------------------------
(* The Scan history. *)

AllRecords(s) == s   \* (mutant)
LastRecords(s) == SubSeq(s, IF Len(s) > MaxRecords THEN Len(s) - MaxRecords + 1 ELSE 1, Len(s))
Record(s, as) == [id |-> s, as |-> as]
Recorded(records) == {r.id : r \in ToSet(records)}
RecordsOf(s) == {r \in ToSet(history.records) : r.id = s}

\* What is left of a sequence without the elements in gone.
Without(seq, gone) ==
  LET kept[n \in 0..Len(seq)] ==
        IF n = 0 THEN <<>>
        ELSE IF seq[n] \in gone THEN kept[n - 1] ELSE Append(kept[n - 1], seq[n])
  IN kept[Len(seq)]

\* A pending start with no record becomes an interrupted record.
Loaded(stored) ==
  LET lost == Without(stored.pending, Recorded(stored.records))
  IN [records |-> LastRecords(stored.records \o [k \in DOMAIN lost |-> Record(lost[k], "interrupted")]),
      pending |-> <<>>]

Started(s) ==
  /\ history' = [history EXCEPT !.pending = Append(Without(@, {s}), s)]
  /\ dirty' = TRUE /\ UNCHANGED <<disk, savedEnd, savedStart>>

StillPending(s) == history.pending   \* (mutant)
NotPending(s) == Without(history.pending, {s})

\* A record that is not valid is dropped.
Remember(s) ==
  IF s \in BigRecords THEN UNCHANGED historyVars
  ELSE /\ history' = [records |-> LastRecords(Append(Without(history.records, RecordsOf(s)), Record(s, "ended"))),
                      pending |-> NotPending(s)]
       /\ dirty' = TRUE /\ UNCHANGED <<disk, savedEnd, savedStart>>

\* The data of this moment is written, or the write fails, which only marks an error.
Ended == {s \in Scans : scan[s].state = "ended"}
Write ==
  /\ dirty' = FALSE /\ UNCHANGED history
  /\ \/ /\ disk' = [history EXCEPT !.pending = LastRecords(@)]
        /\ savedEnd' = savedEnd \cup Ended /\ savedStart' = savedStart \cup ToSet(disk'.pending)
     \/ UNCHANGED <<disk, savedEnd, savedStart>>

DelayedSave ==
  /\ dirty /\ Write
  /\ UNCHANGED <<entryVars, scanVars, callVars, hassVars>>
------------------------------------------------------------------------------
(* The coordinator of a generation. *)

Running(gen) == {s \in Scans : scan[s].state = "running" /\ scan[s].gen = gen}
AnyStart(gen) == TRUE   \* (mutant)
MayStart(gen) == gen \notin shut

ScanEnds(s) ==
  /\ scan[s].state = "running" /\ scan' = [scan EXCEPT ![s].state = "ended"]
  /\ Remember(s)
  /\ UNCHANGED <<entryVars, shut, callVars, hassVars>>
------------------------------------------------------------------------------
(* Setup and unload. *)

Holds(t) == queue # <<>> /\ Head(queue) = t
Returns(t) == queue' = Tail(queue) /\ task' = [task EXCEPT ![t] = NoTask]

SetupCalled(t) ==
  /\ task[t] = NoTask /\ stop = "none"
  /\ queue' = Append(queue, t)
  /\ task' = [task EXCEPT ![t] = [NoTask EXCEPT !.kind = "setup", !.pc = "lock"]]
  /\ UNCHANGED <<owner, pending, nextGen, loaded, services, coord, scanVars, historyVars, callVars, hassVars>>

\* A generation is claimed before the first await of the setup.
SetupBegins(t) ==
  /\ Holds(t) /\ task[t].kind = "setup" /\ task[t].pc = "lock"
  /\ IF owner # NoGen
     THEN Returns(t) /\ UNCHANGED <<pending, nextGen>>
     ELSE /\ nextGen < MaxGen /\ nextGen' = nextGen + 1 /\ pending' = nextGen + 1
          /\ task' = [task EXCEPT ![t].pc = "loading", ![t].gen = nextGen + 1]
          /\ UNCHANGED queue
  /\ UNCHANGED <<owner, loaded, services, coord, scanVars, historyVars, callVars, hassVars>>

SetupLoads(t) ==
  /\ task[t].pc = "loading" /\ ~loaded
  /\ loaded' = TRUE /\ history' = Loaded(disk)
  /\ UNCHANGED <<owner, pending, nextGen, queue, task, services, coord, dirty, disk, savedEnd, savedStart,
                 scanVars, callVars, hassVars>>

\* Loading, or registering the panel, fails or is cancelled.
SetupFails(t) ==
  /\ task[t].pc = "loading" /\ Returns(t)
  /\ pending' = IF pending = task[t].gen THEN NoGen ELSE pending
  /\ UNCHANGED <<owner, nextGen, loaded, services, coord, scanVars, historyVars, callVars, hassVars>>

\* The services are registered, and their coordinator made, with no await between.
SetupCompletes(t) ==
  /\ task[t].pc = "loading" /\ loaded /\ Returns(t)
  /\ pending' = NoGen /\ owner' = task[t].gen /\ services' = task[t].gen
  /\ coord' = IF coord = NoGen THEN task[t].gen ELSE coord
  /\ UNCHANGED <<nextGen, loaded, scanVars, historyVars, callVars, hassVars>>

UnloadCalled(t) ==
  /\ task[t] = NoTask /\ stop = "none"
  /\ queue' = Append(queue, t)
  /\ task' = [task EXCEPT ![t] = [kind |-> "unload", pc |-> "lock", known |-> nextGen,
                                  gen |-> IF owner # NoGen THEN owner ELSE pending]]
  /\ UNCHANGED <<owner, pending, nextGen, loaded, services, coord, scanVars, historyVars, callVars, hassVars>>

AnyOwner(gen) == owner # NoGen   \* (mutant)
StillOwner(gen) == gen # NoGen /\ owner = gen

\* Only the generation seen at the call is torn down: its services first, then its
\* coordinator, which is told to shut down.
UnloadBegins(t) ==
  /\ Holds(t) /\ task[t].kind = "unload" /\ task[t].pc = "lock"
  /\ IF ~StillOwner(task[t].gen)
     THEN Returns(t) /\ UNCHANGED <<services, shut>>
     ELSE /\ services' = IF services = owner THEN NoGen ELSE services
          /\ shut' = shut \cup {owner}
          /\ task' = [task EXCEPT ![t].pc = "closing", ![t].gen = owner] /\ UNCHANGED queue
  /\ UNCHANGED <<owner, pending, nextGen, loaded, coord, scan, historyVars, callVars, hassVars>>

AllEnded(gen) == Running(gen) = {}

\* async_shutdown has returned: the history is flushed, the generation is gone.
UnloadEnds(t) ==
  /\ task[t].pc = "closing" /\ AllEnded(task[t].gen) /\ Returns(t)
  /\ Write
  /\ coord' = IF coord = task[t].gen THEN NoGen ELSE coord
  /\ owner' = IF owner = task[t].gen THEN NoGen ELSE owner
  /\ UNCHANGED <<pending, nextGen, loaded, services, scanVars, callVars, hassVars>>
------------------------------------------------------------------------------
(* Stop, crash and restart of Home Assistant. *)

\* The stop listener shuts the coordinator down without taking the lock.
StopCalled ==
  /\ stop = "none" /\ owner # NoGen
  /\ stop' = "closing" /\ shut' = shut \cup {owner}
  /\ UNCHANGED <<entryVars, scan, historyVars, callVars, restarts>>

StopEnds ==
  /\ stop = "closing" /\ \A g \in shut : Running(g) = {}
  /\ stop' = "done" /\ Write
  /\ UNCHANGED <<entryVars, scanVars, callVars, restarts>>

\* A new process: what was in memory is gone, Scans that ran or whose end was not saved
\* with it.
NewProcess ==
  /\ restarts < MaxRestarts /\ restarts' = restarts + 1 /\ stop' = "none"
  /\ owner' = NoGen /\ pending' = NoGen /\ nextGen' = 0 /\ queue' = <<>>
  /\ task' = [t \in Tasks |-> NoTask] /\ loaded' = FALSE
  /\ services' = NoGen /\ coord' = NoGen /\ shut' = {} /\ history' = Empty /\ dirty' = FALSE
  /\ scan' = [s \in Scans |-> IF scan[s].state = "new" \/ s \in savedEnd THEN scan[s]
                                ELSE [scan[s] EXCEPT !.state = "lost"]]
  /\ profile' = profileDisk /\ profileQueue' = <<>> /\ call' = [c \in Calls |-> IF call[c] = NoCall THEN NoCall ELSE Done]
  /\ UNCHANGED <<disk, savedEnd, savedStart, profileDisk>>

\* A clean exit makes the delayed writes due; any other loses them.
Exit == stop = "done" /\ ~dirty /\ NewProcess
Crash == stop # "done" /\ NewProcess
------------------------------------------------------------------------------
(* Service calls. *)

Kinds == {"start", "import", "delete"}
Answered(c) == call' = [call EXCEPT ![c] = Done]
HoldsProfiles(c) == profileQueue # <<>> /\ Head(profileQueue) = c
LeavesProfiles == profileQueue' = Tail(profileQueue)
AnyGeneration(c) == services # NoGen   \* (mutant)
OwnGeneration(c) == services = call[c].own

\* A call is bound to the generation whose handler was registered.
CallArrives(c, kind) ==
  /\ call[c] = NoCall /\ services # NoGen
  /\ call' = [call EXCEPT ![c] = [kind |-> kind, pc |-> "authorize", own |-> services, coord |-> NoGen]]
  /\ UNCHANGED <<entryVars, scanVars, historyVars, profile, profileDisk, profileQueue, hassVars>>

\* Authorized, it fails closed or goes on with the coordinator of now.
CallAuthorized(c) ==
  /\ call[c].pc = "authorize"
  /\ IF OwnGeneration(c)
     THEN /\ call' = [call EXCEPT ![c].pc = "load", ![c].coord = coord]
          /\ profileQueue' = Append(profileQueue, c)
     ELSE Answered(c) /\ UNCHANGED profileQueue
  /\ UNCHANGED <<entryVars, scanVars, historyVars, profile, profileDisk, hassVars>>

\* The store is loaded: a start is admitted or refused with no further await.
ScanStarts(c, s) ==
  /\ HoldsProfiles(c) /\ call[c].pc = "load" /\ call[c].kind = "start"
  /\ profile /\ MayStart(call[c].coord) /\ scan[s].state = "new"
  /\ scan' = [scan EXCEPT ![s] = [state |-> "running", gen |-> call[c].coord]]
  /\ Started(s) /\ Answered(c) /\ LeavesProfiles
  /\ UNCHANGED <<entryVars, shut, profile, profileDisk, hassVars>>

ScanRefused(c) ==
  /\ HoldsProfiles(c) /\ call[c].pc = "load" /\ call[c].kind = "start"
  /\ Answered(c) /\ LeavesProfiles
  /\ UNCHANGED <<entryVars, scanVars, historyVars, profile, profileDisk, hassVars>>

\* An import or a delete takes the lock twice more: to load again, and to write.
WriteNears(c) ==
  /\ HoldsProfiles(c) /\ call[c].kind # "start" /\ call[c].pc \in {"load", "reload"}
  /\ IF call[c].kind = "delete" /\ call[c].pc = "load" /\ ~OwnGeneration(c)
     THEN Answered(c) /\ LeavesProfiles
     ELSE /\ call' = [call EXCEPT ![c].pc = IF @ = "load" THEN "reload" ELSE "write"]
          /\ profileQueue' = Append(Tail(profileQueue), c)
  /\ UNCHANGED <<entryVars, scanVars, historyVars, profile, profileDisk, hassVars>>

InUse(gen) == Running(gen) # {}

\* The memory changes before the save; the lock is kept over it.
ProfileChanges(c) ==
  /\ HoldsProfiles(c) /\ call[c].pc = "write"
  /\ call[c].kind = "delete" => profile /\ ~InUse(call[c].coord)
  /\ profile' = (call[c].kind = "import") /\ call' = [call EXCEPT ![c].pc = "save"]
  /\ UNCHANGED <<entryVars, scanVars, historyVars, profileDisk, profileQueue, hassVars>>

\* An import when the store is full, a delete of what is not there or is in use.
ProfileKept(c) ==
  /\ HoldsProfiles(c) /\ call[c].pc = "write"
  /\ IF call[c].kind = "import" THEN ~profile ELSE ~profile \/ InUse(call[c].coord)
  /\ Answered(c) /\ LeavesProfiles
  /\ UNCHANGED <<entryVars, scanVars, historyVars, profile, profileDisk, hassVars>>

ProfileSaved(c) ==
  /\ HoldsProfiles(c) /\ call[c].pc = "save" /\ Answered(c) /\ LeavesProfiles
  /\ profileDisk' \in {profile, profileDisk}
  /\ UNCHANGED <<entryVars, scanVars, historyVars, profile, hassVars>>
------------------------------------------------------------------------------
Init ==
  /\ owner = NoGen /\ pending = NoGen /\ nextGen = 0 /\ queue = <<>>
  /\ task = [t \in Tasks |-> NoTask] /\ loaded = FALSE /\ services = NoGen /\ coord = NoGen
  /\ shut = {} /\ scan = [s \in Scans |-> [state |-> "new", gen |-> NoGen]]
  /\ history = Empty /\ dirty = FALSE /\ disk = Empty
  /\ profile = TRUE /\ profileDisk = TRUE /\ profileQueue = <<>> /\ call = [c \in Calls |-> NoCall]
  /\ stop = "none" /\ restarts = 0 /\ savedEnd = {} /\ savedStart = {}

TaskNext(t) ==
  \/ SetupCalled(t) \/ SetupBegins(t) \/ SetupLoads(t) \/ SetupFails(t) \/ SetupCompletes(t)
  \/ UnloadCalled(t) \/ UnloadBegins(t) \/ UnloadEnds(t)

CallNext(c) ==
  \/ \E k \in Kinds : CallArrives(c, k)
  \/ CallAuthorized(c) \/ ScanRefused(c) \/ WriteNears(c)
  \/ \E s \in Scans : ScanStarts(c, s)
  \/ ProfileChanges(c) \/ ProfileKept(c) \/ ProfileSaved(c)

Next ==
  \/ \E t \in Tasks : TaskNext(t)
  \/ \E c \in Calls : CallNext(c)
  \/ \E s \in Scans : ScanEnds(s)
  \/ DelayedSave \/ StopCalled \/ StopEnds \/ Exit \/ Crash

Spec == Init /\ [][Next]_vars
------------------------------------------------------------------------------
(* Properties. *)

TypeOK ==
  /\ {owner, pending, nextGen, services, coord} \subseteq 0..MaxGen
  /\ shut \subseteq Gens /\ loaded \in BOOLEAN /\ dirty \in BOOLEAN
  /\ ToSet(queue) \subseteq Tasks /\ ToSet(profileQueue) \subseteq Calls
  /\ \A s \in Scans : scan[s].state \in {"new", "running", "ended", "lost"} /\ scan[s].gen \in 0..MaxGen
  /\ \A h \in {history, disk} : Len(h.records) <= MaxRecords /\ ToSet(h.pending) \subseteq Scans
  /\ stop \in {"none", "closing", "done"} /\ restarts \in 0..MaxRestarts
  /\ profile \in BOOLEAN /\ profileDisk \in BOOLEAN

\* A Scan runs only on the coordinator that the owning generation serves: none is left
\* behind on one that was unloaded, whatever calls were under way.
NoOrphanScan ==
  \A s \in Scans : scan[s].state = "running" => scan[s].gen = coord /\ coord = owner

\* A Scan is never reported as interrupted once its end was saved (ScanHistory._interrupt).
EndRemembered ==
  loaded => \A r \in ToSet(history.records) : r.as = "interrupted" => r.id \notin savedEnd

\* What the history says after a restart is true: no end is forgotten, and no start
\* that was saved while there is room.
HistoryTrue ==
  /\ EndRemembered
  /\ loaded => \A s \in savedStart :
       s \in Recorded(history.records) \cup ToSet(history.pending) \/ Len(history.records) = MaxRecords

\* A call acts on its own generation only: a Scan it starts runs there, and a profile it
\* deletes is used by no Scan that runs there.
CallsStayHome ==
  [][/\ \A s \in Scans : scan[s].state = "new" /\ scan'[s].state = "running" =>
          \E c \in Calls : call[c].own = scan'[s].gen /\ call'[c] = Done
     /\ \A c \in Calls : call[c].kind = "delete" /\ call[c].pc = "write" /\ call'[c].pc = "save" =>
          Running(call[c].own) = {}]_vars

\* An unload never tears down a generation that began after it was called.
StaleUnloadHarmless ==
  [][\A t \in Tasks :
       /\ task[t].kind = "unload" /\ task'[t] = NoTask
       /\ owner # NoGen /\ owner' = NoGen /\ restarts' = restarts
       => owner <= task[t].known]_vars
==============================================================================
