---------------------------- MODULE MCLeaseHistory ----------------------------
(* The instance of MCScannerBus, for LeaseHistory. *)
EXTENDS LeaseHistory, TLC
CONSTANTS m, n, A, B, x, y
MCAddress == (m :> 1) @@ (n :> 0)
==============================================================================
