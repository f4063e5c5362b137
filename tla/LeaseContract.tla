---------------------------- MODULE LeaseContract ----------------------------
(***************************************************************************)
(* What a Bus promises the rest of the system about Normal Polling (ADR    *)
(* 0007): at any time it is paused for at most one Scan, for exactly the   *)
(* Pausable Pollers that Scan chose, and every ending resumes all of them. *)
(* ScannerBus is shown to implement this specification.                    *)
(***************************************************************************)
CONSTANTS Scans,     \* scan ids
          Pollers,   \* the Bus's Pausable Pollers
          NoScan     \* nobody holds a lease

VARIABLES holder,    \* the Scan whose lease pauses polling, or NoScan
          paused     \* the Pausable Pollers that are stopped

contractVars == <<holder, paused>>

ContractInit == holder = NoScan /\ paused = {}

\* A Scan that is not the holder takes the pause over with its own selection.
\* What an earlier holder had paused is resumed in the same step.
Take(s, chosen) ==
  /\ holder # s
  /\ chosen # {}
  /\ holder' = s
  /\ paused' = chosen

\* Released, idle, at the hard limit, or superseded by a Scan that pauses nothing.
Resume ==
  /\ holder # NoScan
  /\ holder' = NoScan
  /\ paused' = {}

ContractNext ==
  \/ \E s \in Scans, chosen \in SUBSET Pollers : Take(s, chosen)
  \/ Resume

ContractSpec == ContractInit /\ [][ContractNext]_contractVars
==============================================================================
