----------------------------- MODULE MCScannerBus -----------------------------
(* A small instance of ScannerBus for TLC.  Poller m has an address, as a meter   *)
(* does; poller n has none, so its frames are not cleared.                        *)
EXTENDS ScannerBus, TLC
CONSTANTS m, n, A, B, x, y
MCAddress == (m :> 1) @@ (n :> 0)
==============================================================================
