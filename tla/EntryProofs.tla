----------------------------- MODULE EntryProofs -----------------------------
(* Proofs about EntryLifecycle for any number of tasks, calls, Scans, generations *)
(* and restarts.  First which generation owns what: the inductive invariant Inv,  *)
(* one lemma per action or group of actions that touch the same parts, and the    *)
(* theorems, in which the contents of the history play no part.  Then what the    *)
(* history tells after a restart: HInv, and the theorems that need both.          *)
EXTENDS EntryLifecycle, DataLemmas, TLAPS, SequenceTheorems
------------------------------------------------------------------------------
(* The inductive invariant. *)

TaskStates == [kind : {"none", "setup", "unload"}, pc : {"idle", "lock", "loading", "closing"},
               gen : Nat, known : Nat]
CallStates == [kind : {"none"} \cup Kinds,
               pc : {"idle", "authorize", "load", "reload", "write", "save", "done"},
               own : Nat, coord : Nat]
ScanStates == [state : {"new", "running", "ended", "lost"}, gen : Nat]

\* Types of the state the argument is about.
Types ==
  /\ owner \in Nat /\ pending \in Nat /\ nextGen \in Nat /\ services \in Nat /\ coord \in Nat
  /\ restarts \in Nat
  /\ queue \in Seq(Tasks) /\ profileQueue \in Seq(Calls)
  /\ task \in [Tasks -> TaskStates] /\ call \in [Calls -> CallStates]
  /\ scan \in [Scans -> ScanStates]

\* The owner's coordinator is the one in hass.data, and no other generation serves calls.
Owners ==
  /\ owner <= nextGen /\ pending <= nextGen
  /\ coord = owner /\ services \in {NoGen, owner}

\* A task past the lock holds it.  One that loads found no owner; one that closes is
\* closing the owner, which it told to shut down and whose services are gone; an unload
\* knew its generation when it was called.
Lock ==
  \A t \in Tasks :
    /\ task[t].pc \in {"loading", "closing"} => Holds(t)
    /\ task[t].pc = "loading" => owner = NoGen /\ task[t].gen # NoGen /\ task[t].gen <= nextGen
    /\ task[t].pc = "closing" =>
         task[t].gen = owner /\ owner # NoGen /\ owner \in shut /\ services = NoGen
    /\ task[t].kind = "unload" => task[t].gen <= task[t].known

\* A call under way is bound to one generation, which owns the entry or was shut down.
Bound ==
  \A c \in Calls :
    /\ call[c].pc = "authorize" => call[c].own # NoGen
    /\ call[c].pc \in {"load", "reload", "write", "save"} =>
         /\ call[c].own = call[c].coord /\ call[c].own # NoGen
         /\ call[c].own = owner \/ call[c].own \in shut

\* A Scan runs for the owner, and one whose end was saved has ended.
RunsForOwner ==
  \A s \in Scans :
    /\ scan[s].state = "running" => scan[s].gen = owner /\ owner # NoGen
    /\ s \in savedEnd => scan[s].state = "ended"

\* The inductive invariant.
Inv == Types /\ Owners /\ Lock /\ Bound /\ RunsForOwner

\* The initial state satisfies it.
LEMMA InitInv == Init => Inv
<1> SUFFICES ASSUME Init PROVE Inv
  OBVIOUS
<1>1. NoTask \in TaskStates /\ NoTask.pc = "idle" /\ NoTask.kind = "none"
  BY DEF NoTask, TaskStates, NoGen
<1>2. NoCall \in CallStates /\ NoCall.pc = "idle"
  BY DEF NoCall, CallStates, NoGen
<1>3. Types
  <2>1. queue \in Seq(Tasks) /\ profileQueue \in Seq(Calls)
    BY DEF Init
  <2>2. task \in [Tasks -> TaskStates] /\ call \in [Calls -> CallStates]
    BY <1>1, <1>2 DEF Init
  <2>3. scan \in [Scans -> ScanStates]
    BY DEF Init, ScanStates, NoGen
  <2>4. QED
    BY <2>1, <2>2, <2>3 DEF Init, Types, NoGen
<1>4. Owners
  BY DEF Init, Owners, NoGen
<1>5. Lock /\ Bound /\ RunsForOwner
  BY <1>1, <1>2 DEF Init, Lock, Bound, RunsForOwner
<1>6. QED
  BY <1>3, <1>4, <1>5 DEF Inv
------------------------------------------------------------------------------
(* The lock of the lifecycle. *)

\* At most one task is past the lock.
LEMMA OnePast ==
  ASSUME Inv, NEW t \in Tasks, Holds(t), NEW u \in Tasks, u # t
  PROVE  task[u].pc \notin {"loading", "closing"}
  BY DEF Inv, Lock, Holds

\* The task that returns leaves the lock to one that waits for it.
LEMMA ReturnsFacts ==
  ASSUME Inv, NEW t \in Tasks, Holds(t), Returns(t)
  PROVE  /\ queue' \in Seq(Tasks) /\ task' \in [Tasks -> TaskStates]
         /\ \A u \in Tasks : task'[u].pc \notin {"loading", "closing"}
         /\ \A u \in Tasks : task'[u].kind = "unload" => task'[u] = task[u]
         /\ \A u \in Tasks : u # t => task'[u] = task[u]
<1>1. queue \in Seq(Tasks) /\ queue # <<>> /\ queue' = Tail(queue) /\ task' = [task EXCEPT ![t] = NoTask]
  BY DEF Inv, Types, Holds, Returns
<1>2. queue' \in Seq(Tasks)
  BY <1>1, HeadTailProperties
<1>3. NoTask \in TaskStates /\ NoTask.pc = "idle" /\ NoTask.kind = "none"
  BY DEF NoTask, TaskStates, NoGen
<1>4. task' \in [Tasks -> TaskStates] /\ \A u \in Tasks : task'[u] = IF u = t THEN NoTask ELSE task[u]
  BY <1>1, <1>3 DEF Inv, Types
<1>5. \A u \in Tasks : u # t => task[u].pc \notin {"loading", "closing"}
  BY OnePast
<1>6. QED
  BY <1>2, <1>3, <1>4, <1>5

\* A task that joins the queue leaves its head.
LEMMA JoinsFacts ==
  ASSUME Inv, NEW t \in Tasks, queue' = Append(queue, t)
  PROVE  queue' \in Seq(Tasks) /\ \A u \in Tasks : Holds(u) => Holds(u)'
<1>1. queue \in Seq(Tasks)
  BY DEF Inv, Types
<1>2. queue' \in Seq(Tasks) /\ queue' # <<>>
  BY <1>1, AppendProperties
<1>3. queue # <<>> => Head(queue') = Head(queue)
  <2> SUFFICES ASSUME queue # <<>> PROVE Head(queue') = Head(queue)
    OBVIOUS
  <2>1. Len(queue) \in Nat \ {0}
    BY <1>1
  <2>2. queue'[1] = queue[1]
    BY <1>1, <2>1
  <2>3. QED
    BY <1>1, <1>2, <2>2
<1>4. QED
  BY <1>2, <1>3 DEF Holds

\* Setup or unload is called.
LEMMA CalledInv ==
  ASSUME Inv, NEW t \in Tasks, SetupCalled(t) \/ UnloadCalled(t)
  PROVE  Inv'
<1>1. /\ queue' = Append(queue, t) /\ task[t] = NoTask
      /\ UNCHANGED <<owner, pending, nextGen, services, coord, shut, scan, savedEnd, profileQueue, call, restarts>>
  BY DEF SetupCalled, UnloadCalled, scanVars, historyVars, callVars, hassVars
<1>2. \E n \in TaskStates : /\ n.pc = "lock" /\ (n.kind = "unload" => n.gen <= n.known)
                            /\ task' = [task EXCEPT ![t] = n]
  <2>1. CASE SetupCalled(t)
    <3> DEFINE n == [NoTask EXCEPT !.kind = "setup", !.pc = "lock"]
    <3>1. task' = [task EXCEPT ![t] = n]
      BY <2>1 DEF SetupCalled
    <3>2. n \in TaskStates /\ n.pc = "lock" /\ n.kind = "setup"
      BY DEF NoTask, NoGen, TaskStates
    <3> HIDE DEF n
    <3>3. QED
      BY <3>1, <3>2
  <2>2. CASE UnloadCalled(t)
    <3> DEFINE gen == IF owner # NoGen THEN owner ELSE pending
               n == [kind |-> "unload", pc |-> "lock", known |-> nextGen, gen |-> gen]
    <3>1. task' = [task EXCEPT ![t] = n]
      BY <2>2 DEF UnloadCalled
    <3>2. gen \in Nat /\ gen <= nextGen /\ nextGen \in Nat
      BY DEF Inv, Types, Owners
    <3> HIDE DEF gen
    <3>3. n \in TaskStates /\ n.pc = "lock" /\ n.gen <= n.known
      BY <3>2 DEF TaskStates
    <3> HIDE DEF n
    <3>4. QED
      BY <3>1, <3>3
  <2>3. QED
    BY <2>1, <2>2
<1>3. PICK new \in TaskStates : /\ new.pc = "lock" /\ (new.kind = "unload" => new.gen <= new.known)
                                /\ task' = [task EXCEPT ![t] = new]
  BY <1>2
<1>4. queue' \in Seq(Tasks) /\ \A u \in Tasks : Holds(u) => Holds(u)'
  BY <1>1, JoinsFacts
<1>5. task' \in [Tasks -> TaskStates] /\ \A u \in Tasks : task'[u] = IF u = t THEN new ELSE task[u]
  BY <1>3 DEF Inv, Types
<1>6. Types'
  BY <1>1, <1>4, <1>5 DEF Inv, Types
<1>7. Lock'
  BY <1>3, <1>1, <1>4, <1>5 DEF Inv, Lock
<1>8. Owners' /\ Bound' /\ RunsForOwner'
  BY <1>1 DEF Inv, Owners, Bound, RunsForOwner
<1>9. QED
  BY <1>6, <1>7, <1>8 DEF Inv

\* A setup goes past the lock, or finds an owner and returns.
LEMMA SetupBeginsInv ==
  ASSUME Inv, NEW t \in Tasks, SetupBegins(t)
  PROVE  Inv'
<1> USE DEF Inv
<1>1. /\ Holds(t) /\ task[t].kind = "setup" /\ task[t].pc = "lock"
      /\ UNCHANGED <<owner, services, coord, shut, scan, savedEnd, profileQueue, call, restarts>>
  BY DEF SetupBegins, scanVars, historyVars, callVars, hassVars
<1>2. CASE owner # NoGen
  <2>1. Returns(t) /\ UNCHANGED <<pending, nextGen>>
    BY <1>2 DEF SetupBegins
  <2>2. Types' /\ Lock'
    BY <1>1, <2>1, ReturnsFacts DEF Types, Lock
  <2>3. Owners' /\ Bound' /\ RunsForOwner'
    BY <1>1, <2>1 DEF Owners, Bound, RunsForOwner
  <2>4. QED
    BY <2>2, <2>3
<1>3. CASE owner = NoGen
  <2> DEFINE n == [task[t] EXCEPT !.pc = "loading", !.gen = nextGen + 1]
  <2>1. /\ nextGen' = nextGen + 1 /\ pending' = nextGen + 1 /\ queue' = queue
        /\ task' = [task EXCEPT ![t] = n]
    BY <1>3 DEF SetupBegins
  <2>2. nextGen + 1 \in Nat /\ nextGen + 1 # NoGen /\ nextGen < nextGen + 1 /\ owner <= nextGen + 1
    BY DEF Types, Owners, NoGen
  <2>3. task[t] \in TaskStates
    BY DEF Types
  <2>4. n \in TaskStates /\ n.pc = "loading" /\ n.kind = "setup" /\ n.gen = nextGen + 1
    BY <1>1, <2>2, <2>3 DEF TaskStates
  <2> HIDE DEF n
  <2>5. task' \in [Tasks -> TaskStates] /\ \A u \in Tasks : task'[u] = IF u = t THEN n ELSE task[u]
    BY <2>1, <2>4 DEF Types
  <2>6. \A u \in Tasks : u # t => task'[u].pc \notin {"loading", "closing"}
    BY <1>1, <2>5, OnePast
  <2>7. Types'
    BY <1>1, <2>1, <2>2, <2>5 DEF Types
  <2>8. Lock'
    <3>1. Holds(t)' /\ nextGen' \in Nat /\ n.gen <= nextGen'
      BY <1>1, <2>1, <2>2, <2>4 DEF Holds
    <3>2. QED
      BY <1>1, <1>3, <2>1, <2>2, <2>4, <2>5, <2>6, <3>1 DEF Lock
  <2>9. Owners' /\ Bound' /\ RunsForOwner'
    BY <1>1, <2>1, <2>2 DEF Owners, Bound, RunsForOwner, Types
  <2>10. QED
    BY <2>7, <2>8, <2>9
<1>4. QED
  BY <1>2, <1>3

\* Loading the history, or failing to set up, leaves the owner alone.
LEMMA SetupLoadsInv ==
  ASSUME Inv, NEW t \in Tasks, SetupLoads(t) \/ SetupFails(t)
  PROVE  Inv'
<1> USE DEF Inv
<1>1. UNCHANGED <<owner, nextGen, services, coord, shut, scan, savedEnd, profileQueue, call, restarts>>
  BY DEF SetupLoads, SetupFails, scanVars, historyVars, callVars, hassVars
<1>2. pending' \in {NoGen, pending}
  BY DEF SetupLoads, SetupFails
<1>3. Owners' /\ Bound' /\ RunsForOwner'
  BY <1>1, <1>2 DEF Owners, Bound, RunsForOwner, NoGen, Types
<1>4. Types' /\ Lock'
  <2>1. CASE SetupLoads(t)
    <3>1. UNCHANGED <<queue, task>>
      BY <2>1 DEF SetupLoads
    <3>2. QED
      BY <1>1, <1>2, <3>1 DEF Types, Lock, Holds, NoGen
  <2>2. CASE SetupFails(t)
    <3>1. Holds(t) /\ Returns(t)
      BY <2>2 DEF SetupFails, Lock
    <3>2. QED
      BY <1>1, <1>2, <3>1, ReturnsFacts DEF Types, Lock, NoGen
  <2>3. QED
    BY <2>1, <2>2
<1>5. QED
  BY <1>3, <1>4

\* A setup that completes makes its generation the owner: there was none, so no Scan ran
\* and every call under way was of a generation shut down.
LEMMA SetupCompletesInv ==
  ASSUME Inv, NEW t \in Tasks, SetupCompletes(t)
  PROVE  Inv'
<1> USE DEF Inv
<1>1. /\ task[t].pc = "loading" /\ Returns(t)
      /\ pending' = NoGen /\ owner' = task[t].gen /\ services' = task[t].gen
      /\ coord' = IF coord = NoGen THEN task[t].gen ELSE coord
      /\ UNCHANGED <<nextGen, shut, scan, savedEnd, profileQueue, call, restarts>>
  BY DEF SetupCompletes, scanVars, historyVars, callVars, hassVars
<1>2. /\ Holds(t) /\ owner = NoGen /\ task[t].gen # NoGen /\ task[t].gen <= nextGen
      /\ task[t].gen \in Nat
  BY <1>1 DEF Lock, Types, TaskStates
<1>3. Types' /\ Owners'
  BY <1>1, <1>2, ReturnsFacts DEF Types, Owners, NoGen
<1>4. Lock'
  BY <1>1, <1>2, ReturnsFacts DEF Lock
<1>5. Bound' /\ RunsForOwner'
  BY <1>1, <1>2 DEF Bound, RunsForOwner
<1>6. QED
  BY <1>3, <1>4, <1>5

\* An unload tells the owner to shut down, if the owner is the generation it was called for.
LEMMA UnloadBeginsInv ==
  ASSUME Inv, NEW t \in Tasks, UnloadBegins(t)
  PROVE  Inv'
<1> USE DEF Inv
<1>1. /\ Holds(t) /\ task[t].kind = "unload" /\ task[t].pc = "lock"
      /\ UNCHANGED <<owner, pending, nextGen, coord, scan, savedEnd, profileQueue, call, restarts>>
  BY DEF UnloadBegins, historyVars, callVars, hassVars
<1>2. CASE ~StillOwner(task[t].gen)
  <2>1. Returns(t) /\ UNCHANGED <<services, shut>>
    BY <1>2 DEF UnloadBegins
  <2>2. Types' /\ Lock'
    BY <1>1, <2>1, ReturnsFacts DEF Types, Lock
  <2>3. Owners' /\ Bound' /\ RunsForOwner'
    BY <1>1, <2>1 DEF Owners, Bound, RunsForOwner
  <2>4. QED
    BY <2>2, <2>3
<1>3. CASE StillOwner(task[t].gen)
  <2> DEFINE n == [task[t] EXCEPT !.pc = "closing", !.gen = owner]
  <2>1. /\ services' = (IF services = owner THEN NoGen ELSE services)
        /\ shut' = shut \cup {owner} /\ queue' = queue
        /\ task' = [task EXCEPT ![t] = n]
    BY <1>3 DEF UnloadBegins
  <2>2. owner # NoGen /\ task[t].gen = owner /\ owner <= task[t].known
    BY <1>1, <1>3 DEF StillOwner, Lock
  <2>3. task[t] \in TaskStates /\ owner \in Nat
    BY DEF Types
  <2>4. n \in TaskStates /\ n.pc = "closing" /\ n.gen = owner /\ n.known = task[t].known
    BY <2>3 DEF TaskStates
  <2> HIDE DEF n
  <2>5. task' \in [Tasks -> TaskStates] /\ \A u \in Tasks : task'[u] = IF u = t THEN n ELSE task[u]
    BY <2>1, <2>4 DEF Types
  <2>6. \A u \in Tasks : u # t => task'[u].pc \notin {"loading", "closing"}
    BY <1>1, <2>5, OnePast
  <2>7. Types' /\ Owners'
    BY <1>1, <2>1, <2>5 DEF Types, Owners, NoGen
  <2>8. Holds(t)'
    BY <1>1, <2>1 DEF Holds
  <2>9. Lock'
    <3>1. services' = NoGen
      BY <2>1 DEF Owners
    <3>2. QED
      BY <1>1, <2>1, <2>2, <2>4, <2>5, <2>6, <2>8, <3>1 DEF Lock
  <2>10. Bound' /\ RunsForOwner'
    BY <1>1, <2>1 DEF Bound, RunsForOwner
  <2>11. QED
    BY <2>7, <2>9, <2>10
<1>4. QED
  BY <1>2, <1>3

\* What a write of the history does to the Scans whose end is saved.
LEMMA WriteFacts ==
  ASSUME Inv, Write
  PROVE  \A s \in Scans : s \in savedEnd' => scan[s].state = "ended"
  BY DEF Inv, Write, Ended, RunsForOwner

\* An unload that ends leaves no owner, and no Scan.
LEMMA UnloadEndsInv ==
  ASSUME Inv, NEW t \in Tasks, UnloadEnds(t)
  PROVE  Inv'
<1> USE DEF Inv
<1>1. /\ task[t].pc = "closing" /\ AllEnded(task[t].gen) /\ Returns(t) /\ Write
      /\ coord' = (IF coord = task[t].gen THEN NoGen ELSE coord)
      /\ owner' = (IF owner = task[t].gen THEN NoGen ELSE owner)
      /\ UNCHANGED <<pending, nextGen, services, shut, scan, profileQueue, call, restarts>>
  BY DEF UnloadEnds, scanVars, callVars, hassVars
<1>2. Holds(t) /\ task[t].gen = owner /\ owner \in shut /\ services = NoGen
  BY <1>1 DEF Lock
<1>3. owner' = NoGen /\ coord' = NoGen
  BY <1>1, <1>2 DEF Owners
<1>4. \A s \in Scans : scan[s].state # "running"
  BY <1>1, <1>2 DEF AllEnded, Running, RunsForOwner
<1>5. Types' /\ Lock'
  BY <1>1, <1>2, <1>3, ReturnsFacts DEF Types, Lock, NoGen
<1>6. Owners'
  BY <1>1, <1>2, <1>3 DEF Owners, NoGen, Types
<1>7. Bound'
  BY <1>1, <1>2 DEF Bound
<1>8. RunsForOwner'
  BY <1>1, <1>4, WriteFacts DEF RunsForOwner
<1>9. QED
  BY <1>5, <1>6, <1>7, <1>8
------------------------------------------------------------------------------
(* Service calls, Scans, the history, stop and restart. *)

\* Steps that leave the entry alone, and the lifecycle tasks with it.
LEMMA EntryKept ==
  ASSUME Inv, UNCHANGED <<entryVars, shut>>
  PROVE  Owners' /\ Lock'
  BY DEF Inv, Owners, Lock, Holds, entryVars

\* A call that changes only itself, the profiles and their queue.
LEMMA CallInv ==
  ASSUME Inv, NEW c \in Calls, NEW new \in CallStates,
         call' = [call EXCEPT ![c] = new], profileQueue' \in Seq(Calls),
         UNCHANGED <<entryVars, scanVars, historyVars, restarts>>,
         \/ new.pc = "done"
         \/ new.pc = "authorize" /\ new.own # NoGen
         \/ /\ new.pc \in {"load", "reload", "write", "save"}
            /\ new.own = new.coord /\ new.own # NoGen
            /\ new.own = owner \/ new.own \in shut
  PROVE  Inv'
<1> USE DEF Inv
<1>1. call' \in [Calls -> CallStates] /\ \A d \in Calls : call'[d] = IF d = c THEN new ELSE call[d]
  BY DEF Types
<1>2. UNCHANGED <<shut, scan, savedEnd, owner, pending, nextGen, queue, task, services, coord>>
  BY DEF scanVars, entryVars, historyVars
<1>3. Types'
  BY <1>1, <1>2 DEF Types
<1>4. Owners' /\ Lock'
  BY <1>2, EntryKept
<1>5. Bound'
  BY <1>1, <1>2 DEF Bound
<1>6. RunsForOwner'
  BY <1>2 DEF RunsForOwner
<1>7. QED
  BY <1>3, <1>4, <1>5, <1>6

\* The call at the lock of the store leaves it.
LEMMA ProfileQueueFacts ==
  ASSUME Inv, NEW c \in Calls
  PROVE  /\ HoldsProfiles(c) => Tail(profileQueue) \in Seq(Calls)
         /\ Append(profileQueue, c) \in Seq(Calls)
         /\ HoldsProfiles(c) => Append(Tail(profileQueue), c) \in Seq(Calls)
<1>1. profileQueue \in Seq(Calls)
  BY DEF Inv, Types
<1>2. HoldsProfiles(c) => Tail(profileQueue) \in Seq(Calls)
  BY <1>1, HeadTailProperties DEF HoldsProfiles
<1>3. QED
  BY <1>1, <1>2, AppendProperties

\* A call that is done is nobody's.
LEMMA DoneFacts == Done \in CallStates /\ Done.pc = "done" /\ NoCall.pc = "idle"
  BY DEF Done, NoCall, CallStates, NoGen

\* A call that is under way has the state of one.
LEMMA CallFacts ==
  ASSUME Inv, NEW c \in Calls
  PROVE  call[c] \in CallStates
  BY DEF Inv, Types

\* A call arrives while its generation serves.
LEMMA CallArrivesInv ==
  ASSUME Inv, NEW c \in Calls, NEW k \in Kinds, CallArrives(c, k)
  PROVE  Inv'
<1> DEFINE n == [kind |-> k, pc |-> "authorize", own |-> services, coord |-> NoGen]
<1>1. /\ call' = [call EXCEPT ![c] = n] /\ services # NoGen
      /\ UNCHANGED <<entryVars, scanVars, historyVars, profileQueue, restarts>>
  BY DEF CallArrives, hassVars
<1>2. n \in CallStates /\ n.pc = "authorize" /\ n.own # NoGen
  BY <1>1 DEF CallStates, Inv, Types, NoGen
<1>3. profileQueue' \in Seq(Calls)
  BY <1>1 DEF Inv, Types
<1> HIDE DEF n
<1>4. QED
  BY <1>1, <1>2, <1>3, CallInv

\* A call goes on with the coordinator of the owner, if its generation still serves.
LEMMA CallAuthorizedInv ==
  ASSUME Inv, NEW c \in Calls, CallAuthorized(c)
  PROVE  Inv'
<1>1. UNCHANGED <<entryVars, scanVars, historyVars, restarts>> /\ call[c].pc = "authorize"
  BY DEF CallAuthorized, hassVars
<1>2. CASE OwnGeneration(c)
  <2> DEFINE n == [call[c] EXCEPT !.pc = "load", !.coord = coord]
  <2>1. call' = [call EXCEPT ![c] = n] /\ profileQueue' = Append(profileQueue, c)
    BY <1>2 DEF CallAuthorized
  <2>2. call[c].own # NoGen /\ call[c].own = owner /\ coord = owner /\ coord \in Nat
    BY <1>1, <1>2 DEF OwnGeneration, Inv, Bound, Owners, Types
  <2>3. n \in CallStates /\ n.pc = "load" /\ n.own = owner /\ n.coord = owner
    BY <2>2, CallFacts DEF CallStates
  <2> HIDE DEF n
  <2>4. QED
    BY <1>1, <2>1, <2>2, <2>3, ProfileQueueFacts, CallInv
<1>3. CASE ~OwnGeneration(c)
  <2>1. call' = [call EXCEPT ![c] = Done] /\ profileQueue' = profileQueue
    BY <1>3 DEF CallAuthorized, Answered
  <2>2. profileQueue' \in Seq(Calls)
    BY <2>1 DEF Inv, Types
  <2>3. QED
    BY <1>1, <2>1, <2>2, DoneFacts, CallInv
<1>4. QED
  BY <1>2, <1>3

\* A call that is refused or saved is answered; one that nears its write, or changes the
\* profile, stays bound as it was.
LEMMA CallStepInv ==
  ASSUME Inv, NEW c \in Calls,
         ScanRefused(c) \/ WriteNears(c) \/ ProfileChanges(c) \/ ProfileKept(c) \/ ProfileSaved(c)
  PROVE  Inv'
<1>1. /\ UNCHANGED <<entryVars, scanVars, historyVars, restarts>> /\ HoldsProfiles(c)
      /\ call[c].pc \in {"load", "reload", "write", "save"}
  BY DEF ScanRefused, WriteNears, ProfileChanges, ProfileKept, ProfileSaved, hassVars
<1>2. profileQueue' \in Seq(Calls)
  <2>1. profileQueue' \in {profileQueue, Tail(profileQueue), Append(Tail(profileQueue), c)}
    BY DEF ScanRefused, WriteNears, ProfileChanges, ProfileKept, ProfileSaved, LeavesProfiles
  <2>2. QED
    BY <1>1, <2>1, ProfileQueueFacts DEF Inv, Types
<1>3. \/ call' = [call EXCEPT ![c] = Done]
      \/ \E p \in {"reload", "write", "save"} : call' = [call EXCEPT ![c] = [call[c] EXCEPT !.pc = p]]
  BY DEF ScanRefused, WriteNears, ProfileChanges, ProfileKept, ProfileSaved, Answered
<1>4. CASE call' = [call EXCEPT ![c] = Done]
  BY <1>1, <1>2, <1>4, DoneFacts, CallInv
<1>5. ASSUME NEW p \in {"reload", "write", "save"}, call' = [call EXCEPT ![c] = [call[c] EXCEPT !.pc = p]]
      PROVE  Inv'
  <2> DEFINE n == [call[c] EXCEPT !.pc = p]
  <2>1. n \in CallStates /\ n.pc = p /\ n.own = call[c].own /\ n.coord = call[c].coord
    BY <1>5, CallFacts DEF CallStates
  <2>2. n.own = n.coord /\ n.own # NoGen /\ (n.own = owner \/ n.own \in shut)
    BY <1>1, <2>1 DEF Inv, Bound
  <2>3. call' = [call EXCEPT ![c] = n]
    BY <1>5
  <2> HIDE DEF n
  <2>4. QED
    BY <1>1, <1>2, <1>5, <2>1, <2>2, <2>3, CallInv
<1>6. QED
  BY <1>3, <1>4, <1>5

\* A Scan starts on a coordinator that was not told to shut down: the owner's.
LEMMA ScanStartsFacts ==
  ASSUME Inv, NEW c \in Calls, NEW s \in Scans, ScanStarts(c, s)
  PROVE  /\ scan' = [scan EXCEPT ![s] = [state |-> "running", gen |-> owner]]
         /\ owner # NoGen /\ call[c].own = owner /\ call' = [call EXCEPT ![c] = Done]
         /\ scan[s].state = "new"
  BY DEF ScanStarts, MayStart, Inv, Bound, Answered

\* A Scan that starts runs for the owner.
LEMMA ScanStartsInv ==
  ASSUME Inv, NEW c \in Calls, NEW s \in Scans, ScanStarts(c, s)
  PROVE  Inv'
<1> USE DEF Inv
<1> DEFINE n == [state |-> "running", gen |-> owner]
<1>1. /\ UNCHANGED <<entryVars, shut, savedEnd, restarts>>
      /\ HoldsProfiles(c) /\ profileQueue' = Tail(profileQueue)
  BY DEF ScanStarts, Started, LeavesProfiles, hassVars
<1>2. /\ scan' = [scan EXCEPT ![s] = n] /\ scan[s].state = "new" /\ owner # NoGen
      /\ call' = [call EXCEPT ![c] = Done]
  BY ScanStartsFacts
<1>3. n \in ScanStates /\ n.state = "running" /\ n.gen = owner
  BY DEF ScanStates, Types
<1> HIDE DEF n
<1>4. scan' \in [Scans -> ScanStates] /\ \A r \in Scans : scan'[r] = IF r = s THEN n ELSE scan[r]
  BY <1>2, <1>3 DEF Types
<1>5. call' \in [Calls -> CallStates] /\ \A d \in Calls : call'[d] = IF d = c THEN Done ELSE call[d]
  BY <1>2, DoneFacts DEF Types
<1>6. UNCHANGED <<owner, pending, nextGen, queue, task, services, coord>>
  BY <1>1 DEF entryVars
<1>7. Types'
  BY <1>1, <1>4, <1>5, <1>6, ProfileQueueFacts DEF Types
<1>8. Owners' /\ Lock'
  BY <1>1, EntryKept
<1>9. Bound'
  BY <1>1, <1>5, <1>6, DoneFacts DEF Bound
<1>10. RunsForOwner'
  BY <1>1, <1>2, <1>3, <1>4, <1>6 DEF RunsForOwner
<1>11. QED
  BY <1>7, <1>8, <1>9, <1>10

\* A Scan ends: its coordinator records it.
LEMMA ScanEndsInv ==
  ASSUME Inv, NEW s \in Scans, ScanEnds(s)
  PROVE  Inv'
<1> USE DEF Inv
<1> DEFINE n == [scan[s] EXCEPT !.state = "ended"]
<1>1. /\ UNCHANGED <<entryVars, shut, callVars, restarts>>
      /\ scan' = [scan EXCEPT ![s] = n] /\ scan[s].state = "running" /\ savedEnd' = savedEnd
  BY DEF ScanEnds, Remember, hassVars, historyVars
<1>2. n \in ScanStates /\ n.state = "ended" /\ n.gen = scan[s].gen
  BY DEF ScanStates, Types
<1> HIDE DEF n
<1>3. scan' \in [Scans -> ScanStates] /\ \A r \in Scans : scan'[r] = IF r = s THEN n ELSE scan[r]
  BY <1>1, <1>2 DEF Types
<1>4. UNCHANGED <<owner, pending, nextGen, queue, task, services, coord, profileQueue, call>>
  BY <1>1 DEF entryVars, callVars
<1>5. Types' /\ Bound'
  BY <1>1, <1>3, <1>4 DEF Types, Bound
<1>6. Owners' /\ Lock'
  BY <1>1, EntryKept
<1>7. RunsForOwner'
  BY <1>1, <1>2, <1>3, <1>4 DEF RunsForOwner
<1>8. QED
  BY <1>5, <1>6, <1>7

\* A save and the stop listener touch neither the tasks nor the Scans.
LEMMA SaveStopInv ==
  ASSUME Inv, DelayedSave \/ StopCalled \/ StopEnds \/ UNCHANGED vars
  PROVE  Inv'
<1> USE DEF Inv
<1>1. /\ UNCHANGED <<entryVars, scan, callVars, restarts>>
      /\ shut \subseteq shut'
  BY DEF DelayedSave, StopCalled, StopEnds, vars, scanVars, hassVars
<1>2. UNCHANGED <<owner, pending, nextGen, queue, task, services, coord, profileQueue, call>>
  BY <1>1 DEF entryVars, callVars
<1>3. Types' /\ Owners' /\ Lock' /\ Bound'
  BY <1>1, <1>2 DEF Types, Owners, Lock, Holds, Bound
<1>4. \A s \in Scans : s \in savedEnd' => scan[s].state = "ended"
  BY WriteFacts DEF DelayedSave, StopCalled, StopEnds, vars, historyVars, RunsForOwner
<1>5. RunsForOwner'
  BY <1>1, <1>2, <1>4 DEF RunsForOwner
<1>6. QED
  BY <1>3, <1>5

\* A new process has no task, no call and no running Scan.
LEMMA NewProcessInv ==
  ASSUME Inv, NewProcess
  PROVE  Inv'
<1> USE DEF Inv
<1>1. /\ restarts' = restarts + 1 /\ owner' = NoGen /\ pending' = NoGen /\ nextGen' = 0
      /\ queue' = <<>> /\ profileQueue' = <<>> /\ services' = NoGen /\ coord' = NoGen
      /\ savedEnd' = savedEnd /\ task' = [t \in Tasks |-> NoTask]
      /\ call' = [c \in Calls |-> IF call[c] = NoCall THEN NoCall ELSE Done]
      /\ scan' = [s \in Scans |-> IF scan[s].state = "new" \/ s \in savedEnd THEN scan[s]
                                  ELSE [scan[s] EXCEPT !.state = "lost"]]
  BY DEF NewProcess
<1>2. NoTask \in TaskStates /\ NoTask.pc = "idle" /\ NoTask.kind = "none"
  BY DEF NoTask, TaskStates, NoGen
<1>3. NoCall \in CallStates /\ NoCall.pc = "idle" /\ Done \in CallStates /\ Done.pc = "done"
  BY DEF NoCall, Done, CallStates, NoGen
<1>4. \A s \in Scans : /\ scan'[s] \in ScanStates /\ scan'[s].state # "running"
                       /\ s \in savedEnd => scan'[s].state = "ended"
  <2> TAKE s \in Scans
  <2>1. scan[s] \in ScanStates /\ (s \in savedEnd => scan[s].state = "ended")
    BY DEF Types, RunsForOwner
  <2>2. CASE scan[s].state = "new" \/ s \in savedEnd
    <3>1. scan'[s] = scan[s]
      BY <1>1, <2>2
    <3>2. QED
      BY <2>1, <2>2, <3>1
  <2>3. CASE ~(scan[s].state = "new" \/ s \in savedEnd)
    <3>1. scan'[s] = [scan[s] EXCEPT !.state = "lost"]
      BY <1>1, <2>3
    <3>2. QED
      BY <2>1, <2>3, <3>1 DEF ScanStates
  <2>4. QED
    BY <2>2, <2>3
<1>5. Types'
  <2>1. queue' \in Seq(Tasks) /\ profileQueue' \in Seq(Calls) /\ restarts' \in Nat
    BY <1>1 DEF Types
  <2>2. task' \in [Tasks -> TaskStates] /\ call' \in [Calls -> CallStates]
    BY <1>1, <1>2, <1>3
  <2>3. scan' \in [Scans -> ScanStates]
    <3>1. scan' = [s \in Scans |-> scan'[s]]
      BY <1>1
    <3>2. QED
      BY <1>4, <3>1
  <2>4. QED
    BY <1>1, <2>1, <2>2, <2>3 DEF Types, NoGen
<1>6. Owners'
  BY <1>1 DEF Owners, NoGen
<1>7. Lock' /\ Bound' /\ RunsForOwner'
  BY <1>1, <1>2, <1>3, <1>4 DEF Lock, Bound, RunsForOwner
<1>8. QED
  BY <1>5, <1>6, <1>7
------------------------------------------------------------------------------
(* Theorems. *)

\* Every step keeps Inv.
LEMMA StepInv == Inv /\ [Next]_vars => Inv'
<1> SUFFICES ASSUME Inv, [Next]_vars PROVE Inv'
  OBVIOUS
<1>1. ASSUME NEW t \in Tasks, TaskNext(t) PROVE Inv'
  BY <1>1, CalledInv, SetupBeginsInv, SetupLoadsInv, SetupCompletesInv, UnloadBeginsInv,
     UnloadEndsInv DEF TaskNext
<1>2. ASSUME NEW c \in Calls, CallNext(c) PROVE Inv'
  BY <1>2, CallArrivesInv, CallAuthorizedInv, CallStepInv, ScanStartsInv DEF CallNext
<1>3. ASSUME NEW s \in Scans, ScanEnds(s) PROVE Inv'
  BY <1>3, ScanEndsInv
<1>4. CASE DelayedSave \/ StopCalled \/ StopEnds \/ UNCHANGED vars
  BY <1>4, SaveStopInv
<1>5. CASE Exit \/ Crash
  BY <1>5, NewProcessInv DEF Exit, Crash
<1>6. QED
  BY <1>1, <1>2, <1>3, <1>4, <1>5 DEF Next

\* The inductive invariant holds in every reachable state.
THEOREM InvHolds == Spec => []Inv
  BY InitInv, StepInv, PTL DEF Spec

\* A Scan runs only on the coordinator of the generation that owns the entry.
THEOREM NoOrphanHolds == Spec => []NoOrphanScan
<1>1. Inv => NoOrphanScan
  BY DEF Inv, RunsForOwner, Owners, NoOrphanScan
<1>2. QED
  BY <1>1, InvHolds, PTL

\* An unload never tears down a generation that began after it was called: only the
\* unload that holds the lock takes the owner away, and it knew it.
THEOREM StaleUnloadHolds == Spec => StaleUnloadHarmless
<1> DEFINE Harmless == \A t \in Tasks :
                         /\ task[t].kind = "unload" /\ task'[t] = NoTask
                         /\ owner # NoGen /\ owner' = NoGen /\ restarts' = restarts
                         => owner <= task[t].known
<1>1. ASSUME Inv, [Next]_vars PROVE Harmless
  <2> SUFFICES ASSUME NEW t \in Tasks, task[t].kind = "unload", task'[t] = NoTask,
                      owner # NoGen, owner' = NoGen, restarts' = restarts
               PROVE  owner <= task[t].known
    OBVIOUS
  <2> USE <1>1 DEF Inv
  <2>1. ~(Exit \/ Crash)
    BY DEF Exit, Crash, NewProcess, Types
  <2>2. \E u \in Tasks : UnloadEnds(u) \/ SetupCompletes(u)
    BY <2>1 DEF Next, TaskNext, CallNext, SetupCalled, SetupBegins, SetupLoads, SetupFails, UnloadCalled,
       UnloadBegins, CallArrives, CallAuthorized, ScanRefused, WriteNears, ScanStarts, ProfileChanges,
       ProfileKept, ProfileSaved, ScanEnds, DelayedSave, StopCalled, StopEnds, entryVars, vars
  <2>3. PICK u \in Tasks : UnloadEnds(u) \/ SetupCompletes(u)
    BY <2>2
  <2>4. UnloadEnds(u)
    BY <2>3 DEF SetupCompletes, Lock
  <2>5. task' = [task EXCEPT ![u] = NoTask] /\ task[u].pc = "closing"
    BY <2>4 DEF UnloadEnds, Returns
  <2>6. u = t
    <3>1. u # t => task'[t] = task[t]
      BY <2>5 DEF Types
    <3>2. NoTask.kind = "none"
      BY DEF NoTask
    <3>3. QED
      BY <3>1, <3>2
  <2>7. QED
    BY <2>5, <2>6 DEF Lock
<1>2. Inv /\ [Next]_vars => [Harmless]_vars
  BY <1>1
<1>3. QED
  BY <1>2, InvHolds, PTL DEF Spec, StaleUnloadHarmless

\* A call acts on its own generation only: there the Scan it starts runs, and there no
\* Scan runs that could use the profile it deletes.
THEOREM CallsStayHold == Spec => CallsStayHome
<1> DEFINE Started1 == \A s \in Scans : scan[s].state = "new" /\ scan'[s].state = "running" =>
                         \E c \in Calls : call[c].own = scan'[s].gen /\ call'[c] = Done
           Deleted1 == \A c \in Calls :
                         call[c].kind = "delete" /\ call[c].pc = "write" /\ call'[c].pc = "save" =>
                           Running(call[c].own) = {}
<1>1. ASSUME Inv, [Next]_vars PROVE Started1
  <2> SUFFICES ASSUME NEW s \in Scans, scan[s].state = "new", scan'[s].state = "running"
               PROVE  \E c \in Calls : call[c].own = scan'[s].gen /\ call'[c] = Done
    OBVIOUS
  <2> USE <1>1 DEF Inv
  <2>1. ~(Exit \/ Crash)
    <3>1. NewProcess => scan'[s] = scan[s]
      BY DEF NewProcess
    <3>2. QED
      BY <3>1 DEF Exit, Crash
  <2>2. scan' # scan
    OBVIOUS
  <2>3. \A r \in Scans : ~ScanEnds(r)
    <3>1. \A r \in Scans : ScanEnds(r) => scan'[s] = scan[s] \/ scan'[s].state = "ended"
      BY DEF ScanEnds, Types, ScanStates
    <3>2. QED
      BY <3>1
  <2>4. \E c \in Calls, r \in Scans : ScanStarts(c, r)
    BY <2>1, <2>2, <2>3 DEF Next, TaskNext, CallNext, SetupCalled, SetupBegins, SetupLoads, SetupFails,
       SetupCompletes, UnloadCalled, UnloadBegins, UnloadEnds, CallArrives, CallAuthorized, ScanRefused,
       WriteNears, ProfileChanges, ProfileKept, ProfileSaved, DelayedSave, StopCalled, StopEnds,
       scanVars, vars
  <2>5. PICK c \in Calls, r \in Scans : ScanStarts(c, r)
    BY <2>4
  <2>6. /\ scan' = [scan EXCEPT ![r] = [state |-> "running", gen |-> owner]]
        /\ call[c].own = owner /\ call' = [call EXCEPT ![c] = Done]
    BY <2>5, ScanStartsFacts
  <2>7. scan'[s].gen = owner /\ call'[c] = Done
    BY <2>6 DEF Types
  <2>8. QED
    BY <2>6, <2>7
<1>2. ASSUME Inv, [Next]_vars PROVE Deleted1
  <2> SUFFICES ASSUME NEW c \in Calls, call[c].kind = "delete", call[c].pc = "write", call'[c].pc = "save"
               PROVE  Running(call[c].own) = {}
    OBVIOUS
  <2> USE <1>2 DEF Inv
  <2>1. call[c] \in CallStates /\ Done.pc = "done" /\ NoCall.pc = "idle"
    BY CallFacts, DoneFacts
  <2>2. call'[c] # call[c] /\ call'[c] # Done
    BY <2>1
  <2>3. ~(Exit \/ Crash)
    BY <2>1 DEF Exit, Crash, NewProcess
  <2>4. \E d \in Calls : CallNext(d)
    BY <2>2, <2>3 DEF Next, TaskNext, SetupCalled, SetupBegins, SetupLoads, SetupFails, SetupCompletes,
       UnloadCalled, UnloadBegins, UnloadEnds, ScanEnds, DelayedSave, StopCalled, StopEnds, callVars, vars
  <2>5. PICK d \in Calls : CallNext(d)
    BY <2>4
  <2>6. ProfileChanges(c)
    <3>1. \E n : call' = [call EXCEPT ![d] = n]
      BY <2>5 DEF CallNext, CallArrives, CallAuthorized, ScanRefused, WriteNears, ScanStarts, ProfileChanges,
         ProfileKept, ProfileSaved, Answered
    <3>2. d = c
      BY <2>2, <3>1 DEF Types
    <3>3. ~CallAuthorized(c) /\ ~WriteNears(c) /\ \A k \in Kinds : ~CallArrives(c, k)
      BY <2>1 DEF CallAuthorized, WriteNears, CallArrives
    <3>4. ~(ScanRefused(c) \/ ProfileKept(c) \/ ProfileSaved(c) \/ \E s \in Scans : ScanStarts(c, s))
      <4>1. call' # [call EXCEPT ![c] = Done]
        BY <2>2 DEF Types
      <4>2. QED
        BY <4>1 DEF ScanRefused, ProfileKept, ProfileSaved, ScanStarts, Answered
    <3>5. QED
      BY <2>5, <3>2, <3>3, <3>4 DEF CallNext
  <2>7. QED
    BY <2>6 DEF ProfileChanges, InUse, Bound
<1>3. Inv /\ [Next]_vars => [Started1 /\ Deleted1]_vars
  BY <1>1, <1>2
<1>4. QED
  BY <1>3, InvHolds, PTL DEF Spec, CallsStayHome
------------------------------------------------------------------------------
(* What the history's helpers return. *)

\* A sequence with one element more.
LEMMA AppendFacts ==
  ASSUME NEW A, NEW s \in Seq(A), NEW e \in A
  PROVE  Append(s, e) \in Seq(A) /\ Len(Append(s, e)) = Len(s) + 1 /\ ToSet(Append(s, e)) = ToSet(s) \cup {e}
<1> DEFINE t == Append(s, e)
<1>1. t \in Seq(A) /\ Len(t) = Len(s) + 1 /\ DOMAIN t = 1..Len(t) /\ DOMAIN s = 1..Len(s) /\ Len(s) \in Nat
  OBVIOUS
<1>2. \A i \in 1..Len(s) : t[i] = s[i]
  OBVIOUS
<1>3. t[Len(s) + 1] = e
  OBVIOUS
<1> HIDE DEF t
<1>4. ToSet(t) \subseteq ToSet(s) \cup {e}
  BY <1>1, <1>2, <1>3 DEF ToSet
<1>5. ToSet(s) \cup {e} \subseteq ToSet(t)
  BY <1>1, <1>2, <1>3 DEF ToSet
<1>6. QED
  BY <1>1, <1>4, <1>5 DEF t

\* f[n] is what is left of the first n elements.
LeftOf(seq, gone, f) ==
  f = [n \in 0..Len(seq) |-> IF n = 0 THEN <<>>
                             ELSE IF seq[n] \in gone THEN f[n - 1] ELSE Append(f[n - 1], seq[n])]

\* There is such an f: the sequence of what is left of longer and longer beginnings.
LEMMA LeftExists ==
  ASSUME NEW A, NEW seq \in Seq(A), NEW gone
  PROVE  \E f : LeftOf(seq, gone, f)
<1> DEFINE Part(m, f) == f = [n \in 0..m |-> IF n = 0 THEN <<>>
                                ELSE IF seq[n] \in gone THEN f[n - 1] ELSE Append(f[n - 1], seq[n])]
           T == {m \in Nat : \E f : Part(m, f)}
<1>1. 0 \in T
  <2>1. Part(0, [n \in 0..0 |-> <<>>])
    OBVIOUS
  <2>2. \E f : Part(0, f)
    <3> HIDE DEF Part
    <3>1. QED
      BY <2>1
  <2>3. QED
    BY <2>2
<1>2. ASSUME NEW m \in T PROVE m + 1 \in T
  <2>1. m \in Nat /\ \E f : Part(m, f)
    OBVIOUS
  <2>2. PICK f : Part(m, f)
    BY <2>1
  <2> DEFINE g == [n \in 0..(m + 1) |-> IF n = 0 THEN <<>>
                     ELSE IF seq[n] \in gone THEN f[n - 1] ELSE Append(f[n - 1], seq[n])]
  <2>3. \A n \in 0..m : g[n] = f[n]
    <3> TAKE n \in 0..m
    <3>1. n \in 0..(m + 1)
      BY <2>1
    <3>2. g[n] = IF n = 0 THEN <<>> ELSE IF seq[n] \in gone THEN f[n - 1] ELSE Append(f[n - 1], seq[n])
      BY <3>1
    <3>3. f[n] = IF n = 0 THEN <<>> ELSE IF seq[n] \in gone THEN f[n - 1] ELSE Append(f[n - 1], seq[n])
      BY <2>2
    <3>4. QED
      BY <3>2, <3>3
  <2>4. \A n \in 0..(m + 1) : n # 0 => n - 1 \in 0..m
    BY <2>1
  <2>5. Part(m + 1, g)
    <3>1. \A n \in 0..(m + 1) : n # 0 => g[n - 1] = f[n - 1]
      BY <2>3, <2>4
    <3>2. g = [n \in 0..(m + 1) |-> IF n = 0 THEN <<>>
                 ELSE IF seq[n] \in gone THEN g[n - 1] ELSE Append(g[n - 1], seq[n])]
      BY <3>1
    <3>3. QED
      BY <3>2
  <2>6. \E e : Part(m + 1, e)
    <3> HIDE DEF g, Part
    <3>1. QED
      BY <2>5
  <2>7. m + 1 \in Nat
    BY <2>1
  <2>8. QED
    <3> HIDE DEF Part
    <3>1. QED
      BY <2>6, <2>7
<1>3. T = Nat
  <2> HIDE DEF T
  <2>1. T \subseteq Nat
    BY DEF T
  <2>2. QED
    BY <1>1, <1>2, <2>1, AllNumbers
<1>4. Len(seq) \in Nat
  OBVIOUS
<1>5. \E f : Part(Len(seq), f)
  <2> HIDE DEF Part
  <2>1. QED
    BY <1>3, <1>4
<1>6. QED
  BY <1>5 DEF LeftOf

\* Without keeps the elements that are not in gone, and their number if none is.
LEMMA WithoutFacts ==
  ASSUME NEW A, NEW seq \in Seq(A), NEW gone
  PROVE  /\ Without(seq, gone) \in Seq(A)
         /\ ToSet(Without(seq, gone)) = ToSet(seq) \ gone
         /\ ToSet(seq) \cap gone = {} => Len(Without(seq, gone)) = Len(seq)
<1>1. PICK f : LeftOf(seq, gone, f) /\ Without(seq, gone) = f[Len(seq)]
  <2> DEFINE kept == CHOOSE kept : kept = [n \in 0..Len(seq) |-> IF n = 0 THEN <<>>
                       ELSE IF seq[n] \in gone THEN kept[n - 1] ELSE Append(kept[n - 1], seq[n])]
  <2>1. Without(seq, gone) = kept[Len(seq)]
    BY DEF Without
  <2>2. \E f : LeftOf(seq, gone, f)
    BY LeftExists
  <2>3. LeftOf(seq, gone, kept)
    BY <2>2 DEF LeftOf
  <2>4. QED
    <3> HIDE DEF kept
    <3>1. QED
      BY <2>1, <2>3
<1> DEFINE Good(n) == /\ f[n] \in Seq(A)
                      /\ ToSet(f[n]) = {seq[i] : i \in 1..n} \ gone
                      /\ ToSet(seq) \cap gone = {} => Len(f[n]) = n
           T == {n \in Nat : n <= Len(seq) => Good(n)}
<1>2. 0 \in T
  <2>1. f[0] = <<>>
    BY <1>1 DEF LeftOf
  <2>2. Good(0)
    BY <2>1 DEF ToSet
  <2>3. QED
    BY <2>2
<1>3. ASSUME NEW m \in T PROVE m + 1 \in T
  <2> SUFFICES ASSUME m + 1 <= Len(seq) PROVE Good(m + 1)
    OBVIOUS
  <2>1. m \in Nat /\ Good(m)
    OBVIOUS
  <2> DEFINE e == seq[m + 1]
  <2>2. f[m + 1] = IF e \in gone THEN f[m] ELSE Append(f[m], e)
    <3>1. m + 1 \in 0..Len(seq) /\ m + 1 # 0 /\ (m + 1) - 1 = m
      BY <2>1
    <3>2. QED
      BY <1>1, <3>1 DEF LeftOf
  <2>3. e \in A /\ e \in ToSet(seq) /\ {seq[i] : i \in 1..(m + 1)} = {seq[i] : i \in 1..m} \cup {e}
    <3>1. 1..(m + 1) = (1..m) \cup {m + 1} /\ m + 1 \in 1..Len(seq)
      BY <2>1
    <3>2. QED
      BY <3>1 DEF ToSet
  <2>4. CASE e \in gone
    <3>1. f[m + 1] = f[m] /\ ToSet(seq) \cap gone # {}
      BY <2>2, <2>3, <2>4
    <3>2. QED
      BY <2>1, <2>3, <2>4, <3>1
  <2>5. CASE e \notin gone
    <3>1. f[m + 1] = Append(f[m], e)
      BY <2>2, <2>5
    <3>2. f[m + 1] \in Seq(A) /\ Len(f[m + 1]) = Len(f[m]) + 1
      BY <2>1, <2>3, <3>1
    <3>3. ToSet(f[m + 1]) = ToSet(f[m]) \cup {e}
      BY <2>1, <2>3, <3>1, AppendFacts
    <3>4. QED
      BY <2>1, <2>3, <2>5, <3>2, <3>3
  <2>6. QED
    BY <2>4, <2>5
<1>4. T = Nat
  <2> HIDE DEF T
  <2>1. T \subseteq Nat
    BY DEF T
  <2>2. QED
    BY <1>2, <1>3, <2>1, AllNumbers
<1>5. Good(Len(seq))
  <2>1. Len(seq) \in Nat /\ Len(seq) <= Len(seq)
    OBVIOUS
  <2>2. QED
    <3> HIDE DEF Good
    <3>1. QED
      BY <1>4, <2>1
<1>6. ToSet(seq) = {seq[i] : i \in 1..Len(seq)}
  BY DEF ToSet
<1>7. QED
  BY <1>1, <1>5, <1>6

\* The last MaxRecords of a sequence: all of it, or exactly so many.
LEMMA LastFacts ==
  ASSUME NEW A, NEW s \in Seq(A)
  PROVE  /\ LastRecords(s) \in Seq(A) /\ Len(LastRecords(s)) <= MaxRecords
         /\ ToSet(LastRecords(s)) \subseteq ToSet(s)
         /\ Len(s) <= MaxRecords => LastRecords(s) = s
         /\ Len(s) >= MaxRecords => Len(LastRecords(s)) = MaxRecords
<1>1. MaxRecords \in Nat \ {0} /\ Len(s) \in Nat
  BY EntryAssumption
<1>2. CASE Len(s) <= MaxRecords
  <2>1. LastRecords(s) = SubSeq(s, 1, Len(s))
    <3>1. ~(Len(s) > MaxRecords)
      BY <1>1, <1>2
    <3>2. QED
      BY <3>1, Zenon DEF LastRecords
  <2>2. LastRecords(s) = s
    BY <2>1, SubSeqFull
  <2>3. QED
    BY <1>1, <1>2, <2>2
<1>3. CASE Len(s) > MaxRecords
  <2> DEFINE m == Len(s) - MaxRecords + 1
             n == Len(s)
             t == SubSeq(s, m, n)
  <2>1. LastRecords(s) = t /\ m \in 1..n /\ n \in 1..n /\ m <= n + 1 /\ n - m + 1 = MaxRecords
    BY <1>1, <1>3 DEF LastRecords
  <2>2. t \in Seq(A) /\ Len(t) = n - m + 1 /\ \A i \in 1..(n - m + 1) : t[i] = s[m + i - 1]
    <3> HIDE DEF m, n
    <3>1. n = Len(s) /\ m \in Nat \ {0} /\ n \in Nat
      BY <1>1, <1>3, <2>1 DEF n
    <3>2. QED
      BY <2>1, <3>1
  <2>3. \A i \in 1..MaxRecords : m + i - 1 \in 1..n
    BY <1>1, <1>3
  <2>4. ToSet(t) \subseteq ToSet(s)
    <3> HIDE DEF t
    <3>1. DOMAIN t = 1..MaxRecords /\ DOMAIN s = 1..n
      BY <2>1, <2>2
    <3> HIDE DEF m, n
    <3>2. QED
      BY <2>1, <2>2, <2>3, <3>1 DEF ToSet
  <2>5. Len(t) = MaxRecords
    BY <2>1, <2>2
  <2>6. QED
    <3> HIDE DEF t
    <3>1. QED
      BY <1>1, <1>3, <2>1, <2>2, <2>4, <2>5
<1>4. QED
  BY <1>1, <1>2, <1>3

Records == [id : Scans, as : {"ended", "interrupted"}]
Histories == [records : Seq(Records), pending : Seq(Scans)]

\* A record tells of its Scan.
LEMMA RecordFacts ==
  ASSUME NEW s \in Scans, NEW as \in {"ended", "interrupted"}
  PROVE  Record(s, as) \in Records /\ Record(s, as).id = s /\ Record(s, as).as = as
  BY DEF Record, Records

\* The records that stand for a sequence of starts.
LEMMA InterruptedFacts ==
  ASSUME NEW lost \in Seq(Scans), NEW t, t = [k \in DOMAIN lost |-> Record(lost[k], "interrupted")]
  PROVE  /\ t \in Seq(Records) /\ Len(t) = Len(lost)
         /\ ToSet(t) = {Record(s, "interrupted") : s \in ToSet(lost)}
<1>1. DOMAIN lost = 1..Len(lost) /\ Len(lost) \in Nat /\ \A k \in 1..Len(lost) : lost[k] \in Scans
  OBVIOUS
<1>2. \A k \in 1..Len(lost) : Record(lost[k], "interrupted") \in Records
  BY <1>1, RecordFacts
<1>3. t \in [1..Len(lost) -> Records]
  BY <1>1, <1>2
<1>4. t \in Seq(Records) /\ Len(t) = Len(lost)
  BY <1>1, <1>3
<1>5. DOMAIN t = 1..Len(lost) /\ \A k \in 1..Len(lost) : t[k] = Record(lost[k], "interrupted")
  BY <1>1
<1>6. ToSet(t) = {Record(s, "interrupted") : s \in ToSet(lost)}
  BY <1>1, <1>5 DEF ToSet
<1>7. QED
  BY <1>4, <1>6

\* One sequence after the other.
LEMMA ConcatFacts ==
  ASSUME NEW A, NEW s \in Seq(A), NEW t \in Seq(A)
  PROVE  s \o t \in Seq(A) /\ Len(s \o t) = Len(s) + Len(t) /\ ToSet(s \o t) = ToSet(s) \cup ToSet(t)
<1> DEFINE u == s \o t
<1>1. u \in Seq(A) /\ Len(u) = Len(s) + Len(t) /\ Len(s) \in Nat /\ Len(t) \in Nat
  OBVIOUS
<1>2. DOMAIN u = 1..(Len(s) + Len(t)) /\ DOMAIN s = 1..Len(s) /\ DOMAIN t = 1..Len(t)
  BY <1>1
<1>3. /\ \A i \in 1..Len(s) : u[i] = s[i]
      /\ \A i \in 1..(Len(s) + Len(t)) : i > Len(s) => u[i] = t[i - Len(s)]
      /\ \A i \in 1..Len(t) : u[i + Len(s)] = t[i]
  BY <1>1
<1> HIDE DEF u
<1>4. ToSet(u) \subseteq ToSet(s) \cup ToSet(t)
  <2> SUFFICES ASSUME NEW i \in 1..(Len(s) + Len(t)) PROVE u[i] \in ToSet(s) \cup ToSet(t)
    BY <1>2 DEF ToSet
  <2>1. CASE i <= Len(s)
    <3>1. i \in 1..Len(s)
      BY <1>1, <2>1
    <3>2. QED
      BY <1>2, <1>3, <3>1 DEF ToSet
  <2>2. CASE i > Len(s)
    <3>1. i - Len(s) \in 1..Len(t) /\ u[i] = t[i - Len(s)]
      BY <1>1, <1>3, <2>2
    <3>2. QED
      BY <1>2, <3>1 DEF ToSet
  <2>3. QED
    BY <1>1, <2>1, <2>2
<1>5. ToSet(s) \subseteq ToSet(u)
  <2>1. 1..Len(s) \subseteq 1..(Len(s) + Len(t))
    BY <1>1
  <2>2. QED
    BY <1>2, <1>3, <2>1 DEF ToSet
<1>6. ToSet(t) \subseteq ToSet(u)
  <2>1. \A i \in 1..Len(t) : i + Len(s) \in 1..(Len(s) + Len(t))
    BY <1>1
  <2>2. QED
    BY <1>2, <1>3, <2>1 DEF ToSet
<1>7. QED
  BY <1>1, <1>4, <1>5, <1>6 DEF u

\* What is loaded is what was stored and, for each start that has no record, a record of
\* its interruption: all of them, or the last MaxRecords.
LEMMA LoadedFacts ==
  ASSUME NEW h \in Histories, Len(h.records) <= MaxRecords, NEW l, l = Loaded(h)
  PROVE  /\ l \in Histories /\ l.pending = <<>> /\ Len(l.records) <= MaxRecords
         /\ \A r \in ToSet(l.records) :
              r \in ToSet(h.records) \/ \E s \in ToSet(h.pending) : r = Record(s, "interrupted")
         /\ \/ Len(l.records) = MaxRecords
            \/ Recorded(h.records) \cup ToSet(h.pending) \subseteq Recorded(l.records)
         /\ Len(h.records) = MaxRecords => Len(l.records) = MaxRecords
         /\ Len(h.pending) = MaxRecords /\ ToSet(h.pending) \cap Recorded(h.records) = {}
              => Len(l.records) = MaxRecords
<1> DEFINE lost == Without(h.pending, Recorded(h.records))
           told == [k \in DOMAIN lost |-> Record(lost[k], "interrupted")]
           all == h.records \o told
<1>1. h.records \in Seq(Records) /\ h.pending \in Seq(Scans)
  BY DEF Histories
<1>2. l.records = LastRecords(all) /\ l.pending = <<>> /\ l = [records |-> l.records, pending |-> l.pending]
  BY DEF Loaded
<1>3. /\ lost \in Seq(Scans) /\ ToSet(lost) = ToSet(h.pending) \ Recorded(h.records)
      /\ ToSet(h.pending) \cap Recorded(h.records) = {} => Len(lost) = Len(h.pending)
  BY <1>1, WithoutFacts
<1> HIDE DEF lost
<1>4. /\ told \in Seq(Records) /\ Len(told) = Len(lost)
      /\ ToSet(told) = {Record(s, "interrupted") : s \in ToSet(lost)}
  BY <1>3, InterruptedFacts
<1> HIDE DEF told
<1>5. all \in Seq(Records) /\ Len(all) = Len(h.records) + Len(told) /\ ToSet(all) = ToSet(h.records) \cup ToSet(told)
  BY <1>1, <1>4, ConcatFacts
<1> HIDE DEF all
<1>6. /\ l.records \in Seq(Records) /\ Len(l.records) <= MaxRecords /\ ToSet(l.records) \subseteq ToSet(all)
      /\ Len(all) <= MaxRecords => l.records = all
      /\ Len(all) >= MaxRecords => Len(l.records) = MaxRecords
  BY <1>2, <1>5, LastFacts
<1>7. l \in Histories
  <2>1. <<>> \in Seq(Scans)
    OBVIOUS
  <2>2. [records |-> l.records, pending |-> l.pending] \in Histories
    BY <1>2, <1>6, <2>1 DEF Histories
  <2>3. QED
    BY <1>2, <2>2
<1>8. ASSUME NEW r \in ToSet(l.records)
      PROVE  r \in ToSet(h.records) \/ \E s \in ToSet(h.pending) : r = Record(s, "interrupted")
  BY <1>3, <1>4, <1>5, <1>6
<1>9. Recorded(h.records) \cup ToSet(h.pending) \subseteq Recorded(all)
  <2>1. Recorded(h.records) \subseteq Recorded(all)
    BY <1>5 DEF Recorded
  <2>2. ASSUME NEW s \in ToSet(h.pending), s \notin Recorded(h.records) PROVE s \in Recorded(all)
    <3>1. s \in ToSet(lost) /\ s \in Scans
      BY <1>1, <1>3, <2>2 DEF ToSet
    <3>2. Record(s, "interrupted") \in ToSet(all) /\ Record(s, "interrupted").id = s
      BY <1>4, <1>5, <3>1, RecordFacts
    <3>3. QED
      BY <3>2 DEF Recorded
  <2>3. QED
    BY <2>1, <2>2
<1>10. MaxRecords \in Nat /\ Len(h.records) \in Nat /\ Len(lost) \in Nat /\ Len(told) \in Nat /\ Len(all) \in Nat
  BY <1>1, <1>3, <1>4, <1>5, EntryAssumption
<1>11. Len(h.records) = MaxRecords => Len(l.records) = MaxRecords
  BY <1>5, <1>6, <1>10
<1>12. Len(h.pending) = MaxRecords /\ ToSet(h.pending) \cap Recorded(h.records) = {} => Len(l.records) = MaxRecords
  BY <1>3, <1>4, <1>5, <1>6, <1>10
<1>13. Len(l.records) = MaxRecords \/ Recorded(h.records) \cup ToSet(h.pending) \subseteq Recorded(l.records)
  BY <1>6, <1>9, <1>10
<1>14. QED
  BY <1>2, <1>6, <1>7, <1>8, <1>11, <1>12, <1>13

\* A record that fits is remembered: its Scan is pending no more, and no other is
\* forgotten unless the history is full.
LEMMA RememberFacts ==
  ASSUME history \in Histories, Len(history.records) <= MaxRecords, NEW s \in Scans,
         s \notin BigRecords, s \notin Recorded(history.records), Remember(s)
  PROVE  /\ history' \in Histories /\ Len(history'.records) <= MaxRecords
         /\ ToSet(history'.pending) = ToSet(history.pending) \ {s}
         /\ ToSet(history'.records) \subseteq ToSet(history.records) \cup {Record(s, "ended")}
         /\ \/ Len(history'.records) = MaxRecords
            \/ Recorded(history.records) \cup {s} \subseteq Recorded(history'.records)
         /\ Len(history.records) = MaxRecords => Len(history'.records) = MaxRecords
         /\ UNCHANGED <<disk, savedEnd, savedStart>>
<1> DEFINE others == Without(history.records, RecordsOf(s))
           new == Record(s, "ended")
           all == Append(others, new)
<1>1. history.records \in Seq(Records) /\ history.pending \in Seq(Scans)
  BY DEF Histories
<1>2. /\ history' = [records |-> LastRecords(all), pending |-> NotPending(s)]
      /\ UNCHANGED <<disk, savedEnd, savedStart>>
  BY DEF Remember
<1>3. new \in Records /\ new.id = s
  BY RecordFacts
<1>4. ToSet(history.records) \cap RecordsOf(s) = {}
  BY DEF RecordsOf, Recorded
<1>5. /\ others \in Seq(Records) /\ ToSet(others) = ToSet(history.records)
      /\ Len(others) = Len(history.records)
  <2>1. /\ others \in Seq(Records) /\ ToSet(others) = ToSet(history.records) \ RecordsOf(s)
        /\ Len(others) = Len(history.records)
    BY <1>1, <1>4, WithoutFacts
  <2> HIDE DEF others
  <2>2. QED
    BY <1>4, <2>1
<1> HIDE DEF others, new
<1>6. all \in Seq(Records) /\ Len(all) = Len(others) + 1 /\ ToSet(all) = ToSet(others) \cup {new}
  BY <1>3, <1>5, AppendFacts
<1> HIDE DEF all
<1>7. /\ LastRecords(all) \in Seq(Records) /\ Len(LastRecords(all)) <= MaxRecords
      /\ ToSet(LastRecords(all)) \subseteq ToSet(all)
      /\ Len(all) <= MaxRecords => LastRecords(all) = all
      /\ Len(all) >= MaxRecords => Len(LastRecords(all)) = MaxRecords
  BY <1>6, LastFacts
<1>8. NotPending(s) \in Seq(Scans) /\ ToSet(NotPending(s)) = ToSet(history.pending) \ {s}
  BY <1>1, WithoutFacts DEF NotPending
<1>9. history'.records = LastRecords(all) /\ history'.pending = NotPending(s) /\ history' \in Histories
  BY <1>2, <1>7, <1>8 DEF Histories
<1>10. Recorded(history.records) \cup {s} \subseteq Recorded(all)
  BY <1>3, <1>5, <1>6 DEF Recorded
<1>11. MaxRecords \in Nat /\ Len(history.records) \in Nat /\ Len(all) = Len(history.records) + 1
  BY <1>1, <1>5, <1>6, EntryAssumption
<1>12. Len(history'.records) = MaxRecords \/ Recorded(history.records) \cup {s} \subseteq Recorded(history'.records)
  BY <1>7, <1>9, <1>10, <1>11
<1>13. Len(history.records) = MaxRecords => Len(history'.records) = MaxRecords
  BY <1>7, <1>9, <1>11
<1>14. QED
  BY <1>2, <1>5, <1>6, <1>7, <1>8, <1>9, <1>12, <1>13 DEF new

\* What a Scan's start adds.
LEMMA StartedFacts ==
  ASSUME history \in Histories, NEW s \in Scans, Started(s)
  PROVE  /\ history' \in Histories /\ history'.records = history.records
         /\ ToSet(history'.pending) = ToSet(history.pending) \cup {s}
         /\ UNCHANGED <<disk, savedEnd, savedStart>>
<1> DEFINE others == Without(history.pending, {s})
<1>1. history.records \in Seq(Records) /\ history.pending \in Seq(Scans)
  BY DEF Histories
<1>2. others \in Seq(Scans) /\ ToSet(others) = ToSet(history.pending) \ {s}
  BY <1>1, WithoutFacts
<1>3. history' = [history EXCEPT !.pending = Append(others, s)] /\ UNCHANGED <<disk, savedEnd, savedStart>>
  BY DEF Started
<1> HIDE DEF others
<1>4. Append(others, s) \in Seq(Scans) /\ ToSet(Append(others, s)) = ToSet(others) \cup {s}
  BY <1>2, AppendFacts
<1>5. history'.pending = Append(others, s) /\ history'.records = history.records /\ history' \in Histories
  BY <1>3, <1>4 DEF Histories
<1>6. QED
  BY <1>2, <1>3, <1>4, <1>5

\* What a write that succeeds puts on disk.
LEMMA StoredFacts ==
  ASSUME history \in Histories, disk' = [history EXCEPT !.pending = LastRecords(@)]
  PROVE  /\ disk' \in Histories /\ disk'.records = history.records /\ Len(disk'.pending) <= MaxRecords
         /\ ToSet(disk'.pending) \subseteq ToSet(history.pending)
         /\ disk'.pending = history.pending \/ Len(disk'.pending) = MaxRecords
<1>1. history.records \in Seq(Records) /\ history.pending \in Seq(Scans)
  BY DEF Histories
<1> DEFINE last == LastRecords(history.pending)
<1>2. /\ last \in Seq(Scans) /\ Len(last) <= MaxRecords /\ ToSet(last) \subseteq ToSet(history.pending)
      /\ Len(history.pending) <= MaxRecords => last = history.pending
      /\ Len(history.pending) >= MaxRecords => Len(last) = MaxRecords
  BY <1>1, LastFacts
<1>3. Len(history.pending) \in Nat /\ MaxRecords \in Nat
  BY <1>1, EntryAssumption
<1>4. disk' = [history EXCEPT !.pending = last]
  OBVIOUS
<1> HIDE DEF last
<1>5. disk'.pending = last /\ disk'.records = history.records /\ disk' \in Histories
  BY <1>2, <1>4 DEF Histories
<1>6. QED
  BY <1>2, <1>3, <1>5
------------------------------------------------------------------------------
(* The inductive invariant about the history. *)

\* The bounds, and the types the history's truth does not depend on.
Bounds ==
  /\ nextGen <= MaxGen /\ restarts <= MaxRestarts /\ shut \subseteq Gens
  /\ \A s \in Scans : scan[s].gen <= MaxGen
  /\ loaded \in BOOLEAN /\ dirty \in BOOLEAN /\ profile \in BOOLEAN /\ profileDisk \in BOOLEAN
  /\ stop \in {"none", "closing", "done"}

\* The history is loaded before anything uses it.
LoadedFirst == owner # NoGen \/ dirty \/ stop = "closing" => loaded

Over(s) == scan[s].state \in {"ended", "lost"}

\* A history tells of Scans that are over, and of an interruption where the Scan was
\* lost, or its record did not fit; no Scan is told of twice.
Tells(h) ==
  /\ h \in Histories /\ Len(h.records) <= MaxRecords
  /\ \A r \in ToSet(h.records) :
       Over(r.id) /\ (r.as = "interrupted" => scan[r.id].state = "lost" \/ r.id \in BigRecords)
  /\ ToSet(h.pending) \cap Recorded(h.records) = {}

\* A Scan is pending in memory while it runs, unless its record did not fit, and on disk
\* until its end is saved; before a history is loaded nothing runs that was stored.
PendingTrue ==
  /\ \A s \in ToSet(history.pending) :
       scan[s].state = "running" \/ (s \in BigRecords /\ scan[s].state = "ended")
  /\ \A s \in ToSet(disk.pending) :
       /\ scan[s].state # "new" /\ (s \in savedEnd => s \in BigRecords)
       /\ ~loaded => Over(s) /\ (s \notin BigRecords => scan[s].state = "lost")

\* A start that was saved is told of, unless the history, or what was stored, is full.
StartsTold(h) ==
  \A s \in savedStart : s \in Recorded(h.records) \cup ToSet(h.pending) \/ Len(h.records) = MaxRecords
StartsStored == StartsTold(disk) \/ Len(disk.pending) = MaxRecords
StartsTrue == (loaded => StartsTold(history)) /\ StartsStored

\* The inductive invariant.
HistoryInv == Tells(history) /\ Tells(disk) /\ PendingTrue /\ StartsTrue
HInv == Bounds /\ LoadedFirst /\ HistoryInv

\* The initial state satisfies it.
LEMMA InitHistory == Init => HInv
<1> SUFFICES ASSUME Init PROVE HInv
  OBVIOUS
<1>1. MaxGen \in Nat /\ MaxRestarts \in Nat /\ MaxRecords \in Nat
  BY EntryAssumption
<1>2. /\ history = Empty /\ disk = Empty /\ savedStart = {} /\ savedEnd = {} /\ loaded = FALSE
      /\ Empty.records = <<>> /\ Empty.pending = <<>> /\ Len(<<>>) = 0 /\ Len(<<>>) <= MaxRecords
  BY <1>1 DEF Init, Empty
<1>3. Empty \in Histories
  <2>1. <<>> \in Seq(Records) /\ <<>> \in Seq(Scans)
    OBVIOUS
  <2>2. QED
    BY <2>1 DEF Empty, Histories
<1>4. ToSet(<<>>) = {}
  BY DEF ToSet
<1>5. Tells(history) /\ Tells(disk)
  BY <1>2, <1>3, <1>4 DEF Tells
<1>6. PendingTrue /\ StartsTrue
  BY <1>2, <1>4 DEF PendingTrue, StartsTrue, StartsTold, StartsStored
<1>7. Bounds /\ LoadedFirst
  <2>1. \A s \in Scans : scan[s].gen = 0
    BY DEF Init, NoGen
  <2>2. nextGen = 0 /\ restarts = 0 /\ shut = {} /\ stop = "none" /\ owner = NoGen
    BY DEF Init
  <2>3. loaded \in BOOLEAN /\ dirty \in BOOLEAN /\ profile \in BOOLEAN /\ profileDisk \in BOOLEAN
    BY DEF Init
  <2>4. Bounds
    BY <1>1, <2>1, <2>2, <2>3 DEF Bounds
  <2>5. LoadedFirst
    BY <2>2 DEF LoadedFirst, Init
  <2>6. QED
    BY <2>4, <2>5
<1>8. QED
  BY <1>5, <1>6, <1>7 DEF HInv, HistoryInv
------------------------------------------------------------------------------
(* Steps of the history. *)

\* Steps that leave the Scans and the history alone.
LEMMA HistoryKept ==
  ASSUME HistoryInv, UNCHANGED <<scan, loaded, history, disk, savedEnd, savedStart>>
  PROVE  HistoryInv'
  BY DEF HistoryInv, Tells, Over, PendingTrue, StartsTrue, StartsTold, StartsStored

\* A generation that is given to the entry is one of the bounded ones.
LEMMA OwnerBound == ASSUME Inv, Bounds, owner # NoGen PROVE owner \in Gens
  BY EntryAssumption DEF Inv, Types, Owners, Bounds, Gens, NoGen

\* Setups and unloads, but for the load and the last write: an owner has its history.
LEMMA TaskHistory ==
  ASSUME Inv, HInv, NEW t \in Tasks,
         \/ SetupCalled(t) \/ SetupBegins(t) \/ SetupFails(t) \/ SetupCompletes(t)
         \/ UnloadCalled(t) \/ UnloadBegins(t)
  PROVE  HInv'
<1>1. UNCHANGED <<scan, loaded, history, dirty, disk, savedEnd, savedStart, profile, profileDisk, stop, restarts>>
  BY DEF SetupCalled, SetupBegins, SetupFails, SetupCompletes, UnloadCalled, UnloadBegins, scanVars,
         historyVars, callVars, hassVars
<1>2. HistoryInv'
  BY <1>1, HistoryKept DEF HInv
<1>3. nextGen' <= MaxGen
  <2>1. nextGen \in Nat /\ MaxGen \in Nat /\ nextGen <= MaxGen
    BY EntryAssumption DEF HInv, Bounds, Inv, Types
  <2>2. nextGen' = nextGen \/ (nextGen < MaxGen /\ nextGen' = nextGen + 1)
    BY DEF SetupCalled, SetupBegins, SetupFails, SetupCompletes, UnloadCalled, UnloadBegins
  <2>3. QED
    BY <2>1, <2>2
<1>4. shut' \subseteq Gens
  <2>1. shut' = shut \/ (owner # NoGen /\ shut' = shut \cup {owner})
    BY DEF SetupCalled, SetupBegins, SetupFails, SetupCompletes, UnloadCalled, UnloadBegins, scanVars, StillOwner
  <2>2. QED
    BY <2>1, OwnerBound DEF HInv, Bounds
<1>5. LoadedFirst'
  <2>1. owner' = owner \/ loaded
    BY DEF SetupCalled, SetupBegins, SetupFails, SetupCompletes, UnloadCalled, UnloadBegins
  <2>2. QED
    BY <1>1, <2>1 DEF HInv, LoadedFirst
<1>6. QED
  BY <1>1, <1>2, <1>3, <1>4, <1>5 DEF HInv, Bounds

\* Calls that start no Scan, and the stop listener.
LEMMA CallHistory ==
  ASSUME Inv, HInv,
         \/ StopCalled
         \/ \E c \in Calls : \/ \E k \in Kinds : CallArrives(c, k)
                             \/ CallAuthorized(c) \/ ScanRefused(c) \/ WriteNears(c)
                             \/ ProfileChanges(c) \/ ProfileKept(c) \/ ProfileSaved(c)
  PROVE  HInv'
<1>1. UNCHANGED <<entryVars, scan, history, dirty, disk, savedEnd, savedStart, restarts>>
  BY DEF StopCalled, CallArrives, CallAuthorized, ScanRefused, WriteNears, ProfileChanges, ProfileKept,
         ProfileSaved, scanVars, historyVars, hassVars
<1>2. UNCHANGED <<nextGen, loaded, owner>>
  BY <1>1 DEF entryVars
<1>3. HistoryInv'
  BY <1>1, <1>2, HistoryKept DEF HInv
<1>4. shut' \subseteq Gens
  <2>1. shut' = shut \/ (owner # NoGen /\ shut' = shut \cup {owner})
    BY DEF StopCalled, CallArrives, CallAuthorized, ScanRefused, WriteNears, ProfileChanges, ProfileKept,
           ProfileSaved, scanVars
  <2>2. QED
    BY <2>1, OwnerBound DEF HInv, Bounds
<1>5. stop' \in {"none", "closing", "done"} /\ LoadedFirst'
  <2>1. stop' = stop \/ (owner # NoGen /\ stop' = "closing")
    BY DEF StopCalled, CallArrives, CallAuthorized, ScanRefused, WriteNears, ProfileChanges, ProfileKept,
           ProfileSaved, hassVars
  <2>2. QED
    BY <1>1, <1>2, <2>1 DEF HInv, Bounds, LoadedFirst
<1>6. profile' \in BOOLEAN /\ profileDisk' \in BOOLEAN
  <2>1. \/ UNCHANGED <<profile, profileDisk>>
        \/ \E k : profile' = (k = "import") /\ profileDisk' = profileDisk
        \/ profile' = profile /\ profileDisk' \in {profile, profileDisk}
    BY DEF StopCalled, CallArrives, CallAuthorized, ScanRefused, WriteNears, ProfileChanges, ProfileKept,
           ProfileSaved, callVars
  <2>2. profile \in BOOLEAN /\ profileDisk \in BOOLEAN
    BY DEF HInv, Bounds
  <2>3. QED
    BY <2>1, <2>2
<1>7. QED
  BY <1>1, <1>2, <1>3, <1>4, <1>5, <1>6 DEF HInv, Bounds

\* A load tells of every start that was stored, for none of those Scans runs.
LEMMA LoadHistory ==
  ASSUME Inv, HInv, NEW t \in Tasks, SetupLoads(t)
  PROVE  HInv'
<1> USE DEF HInv, HistoryInv
<1>1. /\ ~loaded /\ loaded' = TRUE /\ history' = Loaded(disk)
      /\ UNCHANGED <<owner, nextGen, shut, scan, dirty, disk, savedEnd, savedStart, profile, profileDisk, stop, restarts>>
  BY DEF SetupLoads, scanVars, callVars, hassVars
<1>2. Bounds' /\ LoadedFirst'
  BY <1>1 DEF Bounds, LoadedFirst
<1>3. disk \in Histories /\ Len(disk.records) <= MaxRecords /\ ToSet(disk.pending) \cap Recorded(disk.records) = {}
  BY DEF Tells
<1>4. ToSet(disk.pending) \subseteq Scans
  BY <1>3 DEF Histories, ToSet
<1>5. /\ history' \in Histories /\ history'.pending = <<>> /\ Len(history'.records) <= MaxRecords
      /\ \A r \in ToSet(history'.records) :
           r \in ToSet(disk.records) \/ \E s \in ToSet(disk.pending) : r = Record(s, "interrupted")
      /\ \/ Len(history'.records) = MaxRecords
         \/ Recorded(disk.records) \cup ToSet(disk.pending) \subseteq Recorded(history'.records)
      /\ Len(disk.records) = MaxRecords => Len(history'.records) = MaxRecords
      /\ Len(disk.pending) = MaxRecords => Len(history'.records) = MaxRecords
  BY <1>1, <1>3, LoadedFacts
<1>6. ToSet(history'.pending) = {}
  BY <1>5 DEF ToSet
<1>7. Tells(history)'
  <2>1. ASSUME NEW r \in ToSet(history'.records)
        PROVE  Over(r.id) /\ (r.as = "interrupted" => scan[r.id].state = "lost" \/ r.id \in BigRecords)
    <3>1. CASE r \in ToSet(disk.records)
      BY <3>1 DEF Tells
    <3>2. CASE \E s \in ToSet(disk.pending) : r = Record(s, "interrupted")
      <4>1. PICK s \in ToSet(disk.pending) : r = Record(s, "interrupted")
        BY <3>2
      <4>2. r.id = s
        BY <1>4, <4>1, RecordFacts
      <4>3. QED
        BY <1>1, <4>1, <4>2 DEF PendingTrue
    <3>3. QED
      BY <1>5, <2>1, <3>1, <3>2
  <2>2. QED
    BY <1>1, <1>5, <1>6, <2>1 DEF Tells, Over
<1>8. Tells(disk)'
  BY <1>1 DEF Tells, Over
<1>9. PendingTrue'
  BY <1>1, <1>6 DEF PendingTrue
<1>10. StartsTrue'
  <2>1. StartsStored'
    BY <1>1 DEF StartsTrue, StartsStored, StartsTold
  <2>2. StartsTold(history)'
    BY <1>1, <1>5 DEF StartsTrue, StartsStored, StartsTold
  <2>3. QED
    BY <2>1, <2>2 DEF StartsTrue
<1>11. QED
  BY <1>2, <1>7, <1>8, <1>9, <1>10

\* A write, of what is loaded: what is stored is what the memory says, and no pending
\* Scan has ended but those whose record did not fit.
LEMMA WriteHistory ==
  ASSUME Inv, HistoryInv, loaded, Write, UNCHANGED <<scan, loaded>>
  PROVE  HistoryInv'
<1> USE DEF HistoryInv
<1>1. CASE UNCHANGED <<disk, savedEnd, savedStart>>
  BY <1>1, HistoryKept DEF Write
<1>2. CASE /\ disk' = [history EXCEPT !.pending = LastRecords(@)]
           /\ savedEnd' = savedEnd \cup Ended /\ savedStart' = savedStart \cup ToSet(disk'.pending)
  <2>1. history' = history /\ history \in Histories /\ ToSet(history.pending) \subseteq Scans
    BY DEF Write, Tells, Histories, ToSet
  <2>2. /\ disk' \in Histories /\ disk'.records = history.records /\ Len(disk'.pending) <= MaxRecords
        /\ ToSet(disk'.pending) \subseteq ToSet(history.pending)
        /\ disk'.pending = history.pending \/ Len(disk'.pending) = MaxRecords
    BY <1>2, <2>1, StoredFacts
  <2>3. Tells(history)' /\ Tells(disk)'
    BY <2>1, <2>2 DEF Tells, Over
  <2>4. PendingTrue'
    <3>1. ASSUME NEW s \in ToSet(disk'.pending)
          PROVE  scan[s].state # "new" /\ (s \in savedEnd' => s \in BigRecords)
      <4>1. s \in Scans /\ (scan[s].state = "running" \/ (s \in BigRecords /\ scan[s].state = "ended"))
        BY <2>1, <2>2, <3>1 DEF PendingTrue
      <4>2. s \in savedEnd' => scan[s].state = "ended"
        BY <4>1, WriteFacts
      <4>3. QED
        BY <4>1, <4>2
    <3>2. QED
      BY <2>1, <3>1 DEF PendingTrue
  <2>5. StartsTold(history)'
    BY <1>2, <2>1, <2>2 DEF StartsTrue, StartsTold
  <2>6. StartsStored'
    BY <2>1, <2>2, <2>5 DEF StartsStored, StartsTold
  <2>7. QED
    BY <2>3, <2>4, <2>5, <2>6 DEF StartsTrue
<1>3. QED
  BY <1>1, <1>2 DEF Write

\* The writes: each is of a history that is loaded.
LEMMA SaveHistory ==
  ASSUME Inv, HInv, DelayedSave \/ StopEnds \/ \E t \in Tasks : UnloadEnds(t)
  PROVE  HInv'
<1>1. /\ Write /\ dirty' = FALSE
      /\ UNCHANGED <<nextGen, loaded, shut, scan, profile, profileDisk, restarts>>
  BY DEF DelayedSave, StopEnds, UnloadEnds, Write, entryVars, scanVars, callVars, hassVars
<1>2. loaded
  <2>1. ASSUME NEW t \in Tasks, UnloadEnds(t) PROVE owner # NoGen
    BY <2>1 DEF UnloadEnds, Inv, Lock
  <2>2. QED
    BY <2>1 DEF HInv, LoadedFirst, DelayedSave, StopEnds
<1>3. HistoryInv'
  BY <1>1, <1>2, WriteHistory DEF HInv
<1>4. stop' \in {stop, "done"}
  BY DEF DelayedSave, StopEnds, UnloadEnds, hassVars
<1>5. Bounds' /\ LoadedFirst'
  BY <1>1, <1>2, <1>4 DEF HInv, Bounds, LoadedFirst
<1>6. QED
  BY <1>3, <1>5 DEF HInv

\* A history tells of Scans.
LEMMA TellsOfScans ==
  ASSUME NEW h \in Histories
  PROVE  (\A r \in ToSet(h.records) : r.id \in Scans) /\ ToSet(h.pending) \subseteq Scans
<1>1. h.records \in Seq(Records) /\ h.pending \in Seq(Scans)
  BY DEF Histories
<1>2. \A r \in ToSet(h.records) : r \in Records
  BY <1>1 DEF ToSet
<1>3. ToSet(h.pending) \subseteq Scans
  BY <1>1 DEF ToSet
<1>4. QED
  BY <1>2, <1>3 DEF Records

\* A Scan that starts was told of nowhere; now it is pending.
LEMMA StartHistory ==
  ASSUME Inv, HInv, NEW c \in Calls, NEW s \in Scans, ScanStarts(c, s)
  PROVE  HInv'
<1> USE DEF HInv, HistoryInv
<1>1. /\ scan[s].state = "new" /\ Started(s) /\ owner # NoGen
      /\ scan' = [scan EXCEPT ![s] = [state |-> "running", gen |-> owner]]
      /\ UNCHANGED <<entryVars, shut, profile, profileDisk, stop, restarts>>
  BY ScanStartsFacts DEF ScanStarts, hassVars
<1>2. UNCHANGED <<nextGen, loaded, owner>> /\ loaded /\ dirty' = TRUE
  BY <1>1 DEF entryVars, LoadedFirst, Started
<1>3. \A r \in Scans : scan'[r] = IF r = s THEN [state |-> "running", gen |-> owner] ELSE scan[r]
  BY <1>1 DEF Inv, Types
<1>4. Bounds' /\ LoadedFirst'
  <2>1. owner <= MaxGen
    BY <1>1, OwnerBound DEF Gens
  <2>2. \A r \in Scans : scan'[r].gen <= MaxGen
    BY <1>3, <2>1 DEF Bounds
  <2>3. QED
    BY <1>1, <1>2, <2>2 DEF Bounds, LoadedFirst
<1>5. history \in Histories /\ disk \in Histories
  BY DEF Tells
<1>6. /\ history' \in Histories /\ history'.records = history.records
      /\ ToSet(history'.pending) = ToSet(history.pending) \cup {s}
      /\ UNCHANGED <<disk, savedEnd, savedStart>>
  BY <1>1, <1>5, StartedFacts
<1>7. /\ \A r \in ToSet(history.records) \cup ToSet(disk.records) : r.id \in Scans /\ r.id # s
      /\ \A p \in ToSet(history.pending) \cup ToSet(disk.pending) : p \in Scans /\ p # s
  BY <1>1, <1>5, TellsOfScans DEF Tells, Over, PendingTrue
<1>8. Tells(history)'
  <2>1. s \notin Recorded(history.records)
    BY <1>7 DEF Recorded
  <2>2. ToSet(history'.pending) \cap Recorded(history'.records) = {}
    BY <1>6, <2>1 DEF Tells
  <2>3. QED
    BY <1>3, <1>6, <1>7, <2>2 DEF Tells, Over
<1>9. Tells(disk)'
  BY <1>3, <1>6, <1>7 DEF Tells, Over
<1>10. PendingTrue'
  BY <1>2, <1>3, <1>6, <1>7 DEF PendingTrue
<1>11. StartsTrue'
  BY <1>2, <1>6 DEF StartsTrue, StartsTold, StartsStored
<1>12. QED
  BY <1>4, <1>8, <1>9, <1>10, <1>11

\* A Scan that ends was told of nowhere but as pending: its record takes that place, if
\* it fits.
LEMMA EndHistory ==
  ASSUME Inv, HInv, NEW s \in Scans, ScanEnds(s)
  PROVE  HInv'
<1> USE DEF HInv, HistoryInv
<1>1. /\ scan[s].state = "running" /\ Remember(s) /\ scan' = [scan EXCEPT ![s].state = "ended"]
      /\ UNCHANGED <<entryVars, shut, profile, profileDisk, stop, restarts>>
  BY DEF ScanEnds, callVars, hassVars
<1>2. UNCHANGED <<nextGen, loaded, owner>> /\ loaded
  BY <1>1 DEF entryVars, LoadedFirst, Inv, RunsForOwner
<1>3. \A r \in Scans : /\ scan'[r].state = (IF r = s THEN "ended" ELSE scan[r].state)
                       /\ scan'[r].gen = scan[r].gen
  BY <1>1 DEF Inv, Types, ScanStates
<1>4. Bounds' /\ LoadedFirst'
  <2>1. dirty' \in BOOLEAN
    BY <1>1 DEF Remember, Bounds, historyVars
  <2>2. \A r \in Scans : scan'[r].gen <= MaxGen
    BY <1>3 DEF Bounds
  <2>3. QED
    BY <1>1, <1>2, <2>1, <2>2 DEF Bounds, LoadedFirst
<1>5. history \in Histories /\ disk \in Histories /\ Len(history.records) <= MaxRecords
  BY DEF Tells
<1>6. /\ \A r \in ToSet(history.records) \cup ToSet(disk.records) : r.id \in Scans /\ r.id # s
      /\ ToSet(history.pending) \cup ToSet(disk.pending) \subseteq Scans
  BY <1>1, <1>5, TellsOfScans DEF Tells, Over
<1>7. disk' = disk /\ savedEnd' = savedEnd /\ savedStart' = savedStart
  BY <1>1 DEF Remember, historyVars
<1>8. Tells(disk)'
  BY <1>3, <1>6, <1>7 DEF Tells, Over
<1>9. CASE s \in BigRecords
  <2>1. history' = history
    BY <1>1, <1>9 DEF Remember, historyVars
  <2>2. Tells(history)'
    BY <1>3, <1>6, <2>1 DEF Tells, Over
  <2>3. PendingTrue'
    BY <1>2, <1>3, <1>6, <1>7, <1>9, <2>1 DEF PendingTrue
  <2>4. StartsTrue'
    BY <1>2, <1>7, <2>1 DEF StartsTrue, StartsTold, StartsStored
  <2>5. QED
    BY <1>4, <1>8, <2>2, <2>3, <2>4
<1>10. CASE s \notin BigRecords
  <2>1. s \notin Recorded(history.records)
    BY <1>6 DEF Recorded
  <2>2. /\ history' \in Histories /\ Len(history'.records) <= MaxRecords
        /\ ToSet(history'.pending) = ToSet(history.pending) \ {s}
        /\ ToSet(history'.records) \subseteq ToSet(history.records) \cup {Record(s, "ended")}
        /\ \/ Len(history'.records) = MaxRecords
           \/ Recorded(history.records) \cup {s} \subseteq Recorded(history'.records)
        /\ Len(history.records) = MaxRecords => Len(history'.records) = MaxRecords
    BY <1>1, <1>5, <1>10, <2>1, RememberFacts
  <2>3. Record(s, "ended").id = s /\ Record(s, "ended").as = "ended"
    BY RecordFacts
  <2>4. Tells(history)'
    <3>1. ASSUME NEW r \in ToSet(history'.records)
          PROVE  Over(r.id)' /\ (r.as = "interrupted" => scan'[r.id].state = "lost" \/ r.id \in BigRecords)
      <4>1. CASE r = Record(s, "ended")
        BY <1>3, <2>3, <4>1 DEF Over
      <4>2. CASE r \in ToSet(history.records)
        BY <1>3, <1>6, <4>2 DEF Tells, Over
      <4>3. QED
        BY <2>2, <3>1, <4>1, <4>2
    <3>2. ToSet(history'.pending) \cap Recorded(history'.records) = {}
      <4>1. Recorded(history'.records) \subseteq Recorded(history.records) \cup {s}
        BY <2>2, <2>3 DEF Recorded
      <4>2. QED
        BY <2>2, <4>1 DEF Tells
    <3>3. QED
      BY <2>2, <3>1, <3>2 DEF Tells, Over
  <2>5. PendingTrue'
    BY <1>2, <1>3, <1>6, <1>7, <2>2 DEF PendingTrue
  <2>6. StartsTrue'
    <3>1. StartsTold(history)
      BY <1>2 DEF StartsTrue
    <3>2. StartsTold(history)'
      BY <1>7, <2>2, <3>1 DEF StartsTold
    <3>3. StartsStored'
      BY <1>7 DEF StartsTrue, StartsTold, StartsStored
    <3>4. QED
      BY <3>2, <3>3 DEF StartsTrue
  <2>7. QED
    BY <1>4, <1>8, <2>4, <2>5, <2>6
<1>11. QED
  BY <1>9, <1>10

\* In a new process only the disk tells: what was pending there is over.
LEMMA ProcessHistory ==
  ASSUME Inv, HInv, NewProcess
  PROVE  HInv'
<1> USE DEF HInv, HistoryInv
<1>1. /\ restarts < MaxRestarts /\ restarts' = restarts + 1 /\ stop' = "none" /\ owner' = NoGen
      /\ nextGen' = 0 /\ loaded' = FALSE /\ shut' = {} /\ history' = Empty /\ dirty' = FALSE
      /\ profile' = profileDisk /\ UNCHANGED <<disk, savedEnd, savedStart, profileDisk>>
  BY DEF NewProcess
<1>2. \A s \in Scans :
        /\ scan'[s].gen = scan[s].gen
        /\ scan'[s].state = IF scan[s].state = "new" \/ s \in savedEnd THEN scan[s].state ELSE "lost"
  <2>1. scan' = [s \in Scans |-> IF scan[s].state = "new" \/ s \in savedEnd THEN scan[s]
                                 ELSE [scan[s] EXCEPT !.state = "lost"]]
    BY DEF NewProcess
  <2>2. \A s \in Scans : scan[s] \in ScanStates
    BY DEF Inv, Types
  <2>3. QED
    BY <2>1, <2>2 DEF ScanStates
<1>3. Bounds' /\ LoadedFirst'
  <2>1. restarts + 1 <= MaxRestarts /\ 0 <= MaxGen
    BY <1>1, EntryAssumption DEF Inv, Types
  <2>2. \A s \in Scans : scan'[s].gen <= MaxGen
    BY <1>2 DEF Bounds
  <2>3. profileDisk \in BOOLEAN
    BY DEF Bounds
  <2>4. Bounds'
    BY <1>1, <2>1, <2>2, <2>3 DEF Bounds
  <2>5. LoadedFirst'
    BY <1>1 DEF LoadedFirst
  <2>6. QED
    BY <2>4, <2>5
<1>4. \A s \in Scans : /\ Over(s) => Over(s)'
                       /\ scan[s].state = "lost" => scan'[s].state = "lost"
                       /\ scan[s].state # "new" /\ s \notin savedEnd => scan'[s].state = "lost"
                       /\ s \in savedEnd => scan'[s].state = "ended"
  BY <1>2 DEF Over, Inv, RunsForOwner
<1>5. disk \in Histories
  BY DEF Tells
<1>6. Tells(disk)'
  <2>1. \A r \in ToSet(disk.records) : r.id \in Scans
    BY <1>5, TellsOfScans
  <2>2. QED
    BY <1>1, <1>4, <2>1 DEF Tells
<1>7. /\ Empty \in Histories /\ ToSet(Empty.records) = {} /\ ToSet(Empty.pending) = {}
      /\ Len(Empty.records) <= MaxRecords
  <2>1. <<>> \in Seq(Records) /\ <<>> \in Seq(Scans) /\ Len(<<>>) <= MaxRecords
    BY EntryAssumption
  <2>2. QED
    BY <2>1 DEF Empty, Histories, ToSet
<1>8. Tells(history)'
  BY <1>1, <1>7 DEF Tells
<1>9. PendingTrue'
  <2>1. \A s \in ToSet(disk.pending) : s \in Scans
    BY <1>5, TellsOfScans
  <2>2. \A s \in ToSet(disk.pending) :
          /\ scan'[s].state \in {"ended", "lost"} /\ (s \in savedEnd => s \in BigRecords)
          /\ s \notin BigRecords => scan'[s].state = "lost"
    BY <1>4, <2>1 DEF PendingTrue
  <2>3. QED
    BY <1>1, <1>7, <2>2 DEF PendingTrue, Over
<1>10. StartsTrue'
  BY <1>1 DEF StartsTrue, StartsStored, StartsTold
<1>11. QED
  BY <1>3, <1>6, <1>8, <1>9, <1>10

\* Every step keeps it.
LEMMA StepHistory == Inv /\ HInv /\ [Next]_vars => HInv'
<1> SUFFICES ASSUME Inv, HInv, [Next]_vars PROVE HInv'
  OBVIOUS
<1>1. ASSUME NEW t \in Tasks, TaskNext(t) PROVE HInv'
  BY <1>1, TaskHistory, LoadHistory, SaveHistory DEF TaskNext
<1>2. ASSUME NEW c \in Calls, CallNext(c) PROVE HInv'
  BY <1>2, CallHistory, StartHistory DEF CallNext
<1>3. ASSUME NEW s \in Scans, ScanEnds(s) PROVE HInv'
  BY <1>3, EndHistory
<1>4. CASE DelayedSave \/ StopCalled \/ StopEnds
  BY <1>4, SaveHistory, CallHistory
<1>5. CASE Exit \/ Crash
  BY <1>5, ProcessHistory DEF Exit, Crash
<1>6. CASE UNCHANGED vars
  <2>1. HistoryInv'
    BY <1>6, HistoryKept DEF HInv, vars, entryVars, scanVars, historyVars
  <2>2. Bounds' /\ LoadedFirst'
    BY <1>6 DEF HInv, Bounds, LoadedFirst, vars, entryVars, scanVars, historyVars, callVars, hassVars
  <2>3. QED
    BY <2>1, <2>2 DEF HInv
<1>7. QED
  BY <1>1, <1>2, <1>3, <1>4, <1>5, <1>6 DEF Next
------------------------------------------------------------------------------
(* Theorems about the history. *)

\* The history's invariant holds in every reachable state.
THEOREM HistoryInvHolds == Spec => [](Inv /\ HInv)
<1>1. Init => Inv /\ HInv
  BY InitInv, InitHistory
<1>2. Inv /\ HInv /\ [Next]_vars => (Inv /\ HInv)'
  BY StepInv, StepHistory
<1>3. QED
  BY <1>1, <1>2, PTL DEF Spec

\* The variables have their types.
THEOREM TypeCorrect == Spec => []TypeOK
<1>1. Inv /\ HInv => TypeOK
  <2> SUFFICES ASSUME Inv, HInv PROVE TypeOK
    OBVIOUS
  <2>1. MaxGen \in Nat /\ MaxRestarts \in Nat
    BY EntryAssumption
  <2>2. {owner, pending, nextGen, services, coord} \subseteq 0..MaxGen
    <3>1. /\ owner \in Nat /\ pending \in Nat /\ nextGen \in Nat /\ nextGen <= MaxGen
          /\ owner <= nextGen /\ pending <= nextGen /\ coord = owner /\ services \in {0, owner}
      BY DEF Inv, Types, Owners, HInv, Bounds, NoGen
    <3>2. owner \in 0..MaxGen /\ pending \in 0..MaxGen /\ nextGen \in 0..MaxGen /\ 0 \in 0..MaxGen
      BY <2>1, <3>1
    <3>3. QED
      BY <3>1, <3>2
  <2>3. ToSet(queue) \subseteq Tasks /\ ToSet(profileQueue) \subseteq Calls
    BY DEF Inv, Types, ToSet
  <2>4. \A s \in Scans : scan[s].state \in {"new", "running", "ended", "lost"} /\ scan[s].gen \in 0..MaxGen
    <3> TAKE s \in Scans
    <3>1. scan[s] \in ScanStates /\ scan[s].gen <= MaxGen
      BY DEF Inv, Types, HInv, Bounds
    <3>2. QED
      BY <2>1, <3>1 DEF ScanStates
  <2>5. \A h \in {history, disk} : Len(h.records) <= MaxRecords /\ ToSet(h.pending) \subseteq Scans
    BY TellsOfScans DEF HInv, HistoryInv, Tells
  <2>6. restarts \in 0..MaxRestarts
    BY <2>1 DEF Inv, Types, HInv, Bounds
  <2>7. QED
    BY <2>2, <2>3, <2>4, <2>5, <2>6 DEF TypeOK, HInv, Bounds
<1>2. QED
  BY <1>1, HistoryInvHolds, PTL

\* No Scan whose record fits is told of as interrupted once its end was saved, and a start
\* that was saved is told of while there is room.
THEOREM FittingTold ==
  Spec => [](loaded =>
               /\ \A r \in ToSet(history.records) :
                    r.as = "interrupted" => r.id \notin savedEnd \/ r.id \in BigRecords
               /\ StartsTold(history))
<1> DEFINE Told == loaded =>
                     /\ \A r \in ToSet(history.records) :
                          r.as = "interrupted" => r.id \notin savedEnd \/ r.id \in BigRecords
                     /\ StartsTold(history)
<1>1. Inv /\ HInv => Told
  <2> SUFFICES ASSUME Inv, HInv PROVE Told
    OBVIOUS
  <2>1. \A r \in ToSet(history.records) : r.id \in Scans
    BY TellsOfScans DEF HInv, HistoryInv, Tells
  <2>2. ASSUME NEW r \in ToSet(history.records), r.as = "interrupted", r.id \in savedEnd
        PROVE  r.id \in BigRecords
    BY <2>1, <2>2 DEF HInv, HistoryInv, Tells, Inv, RunsForOwner
  <2>3. loaded => StartsTold(history)
    BY DEF HInv, HistoryInv, StartsTrue
  <2>4. QED
    BY <2>2, <2>3
<1>2. QED
  BY <1>1, HistoryInvHolds, PTL

\* What the history says after a restart is true, if every record fits (HistoryInterrupted
\* shows what one that does not does).
THEOREM HistoryHolds == ASSUME BigRecords = {} PROVE Spec => []HistoryTrue
<1>1. Inv /\ HInv => HistoryTrue
  <2> SUFFICES ASSUME Inv, HInv PROVE HistoryTrue
    OBVIOUS
  <2>1. \A r \in ToSet(history.records) : r.id \in Scans
    BY TellsOfScans DEF HInv, HistoryInv, Tells
  <2>2. EndRemembered
    BY <2>1 DEF EndRemembered, HInv, HistoryInv, Tells, Inv, RunsForOwner
  <2>3. loaded => StartsTold(history)
    BY DEF HInv, HistoryInv, StartsTrue
  <2>4. QED
    BY <2>2, <2>3 DEF HistoryTrue, StartsTold
<1>2. QED
  BY <1>1, HistoryInvHolds, PTL
==============================================================================
