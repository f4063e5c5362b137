---------------------------- MODULE MCCoordinator ----------------------------
(* A small instance of Coordinator for TLC: one Gateway with two Buses, and two    *)
(* Scans, so that one is forgotten, and two can run side by side.                 *)
EXTENDS Coordinator
==============================================================================
