------------------------------ MODULE MCBridge ------------------------------
(* Small instances of BridgeSession for TLC: Scan A of one Home Assistant with Scan B *)
(* on the Gateway's other Bus, after it on the same Bus, or from a second one.        *)
EXTENDS BridgeSession, TLC
CONSTANTS A, B, ha, other, X, Y
OneHome == [s \in Scans |-> ha]
TwoHomes == (A :> ha) @@ (B :> other)
TwoBuses == (A :> X) @@ (B :> Y)
SameBus == [s \in Scans |-> X]
OnlyAPauses == [s \in Scans |-> s = A]
AllPause == [s \in Scans |-> TRUE]

OneAddress == [s \in Scans |-> 1]
AScansTwo == [s \in Scans |-> IF s = A THEN 2 ELSE 1]
NoRetries == [s \in Scans |-> 0]
BRetries == [s \in Scans |-> IF s = B THEN 1 ELSE 0]
==============================================================================
