----------------------------- MODULE SlotContract -----------------------------
(***************************************************************************)
(* What the coordinator promises the Gateways about concurrency: every     *)
(* running Scan holds Buses that no other Scan holds.  A Scan whose Bus is *)
(* not known yet holds every Bus of its Gateway and later keeps only the   *)
(* one it found.  Coordinator is shown to implement this specification.    *)
(***************************************************************************)
CONSTANTS ScanIds,   \* scan ids
          Slots      \* Buses, each with its Gateway

VARIABLE held        \* the slots each Scan holds

SlotInit == held = [i \in ScanIds |-> {}]

Acquire(i, slots) ==
  /\ held[i] = {}
  /\ \A j \in ScanIds : held[j] \cap slots = {}
  /\ held' = [held EXCEPT ![i] = slots]

\* The Scan found which Bus it is on.
Narrow(i, slot) ==
  /\ slot \in held[i]
  /\ held' = [held EXCEPT ![i] = {slot}]

\* Scans end, several at once when the coordinator shuts down.
Drop(ended) == held' = [i \in ScanIds |-> IF i \in ended THEN {} ELSE held[i]]

SlotNext ==
  \/ \E i \in ScanIds, slots \in (SUBSET Slots) \ {{}} : Acquire(i, slots)
  \/ \E i \in ScanIds, slot \in Slots : Narrow(i, slot)
  \/ \E ended \in SUBSET ScanIds : Drop(ended)

SlotSpec == SlotInit /\ [][SlotNext]_held
==============================================================================
