---- MODULE MCEntry ----
(* Instance of EntryLifecycle for TLC: tasks, calls and Scans are interchangeable. *)
EXTENDS EntryLifecycle, TLC
Interchangeable == Permutations(Tasks) \cup Permutations(Calls) \cup Permutations(Scans)
====
