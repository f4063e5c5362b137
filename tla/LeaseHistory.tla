----------------------------- MODULE LeaseHistory -----------------------------
(***************************************************************************)
(* ScannerBus with the memory a reader of the contract has: the Scans      *)
(* whose lease has ended.  The Bus itself remembers only the last one.     *)
(***************************************************************************)
EXTENDS ScannerBus

VARIABLE endedScans   \* history: Scans that held a lease which ended

historyVars == <<vars, endedScans>>

LeaseEnds == lease.active /\ ~(lease'.active /\ lease'.scan = lease.scan)

HistoryInit == Init /\ endedScans = {}

HistoryNext ==
  /\ Next
  /\ endedScans' = endedScans \cup (IF LeaseEnds THEN {lease.scan} ELSE {})

HistorySpec == HistoryInit /\ [][HistoryNext]_historyVars

\* contract.json, lease rules: "Once a lease for a scan_id has ended it never
\* restarts; later probes of that scan_id run without pausing."
NeverRestarts == lease.active => lease.scan \notin endedScans
==============================================================================
