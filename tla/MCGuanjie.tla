------------------------------ MODULE MCGuanjie ------------------------------
(* A small instance of Guanjie for TLC: two slaves, two core registers and an     *)
(* optional one, a command of one write and one of two.                           *)
EXTENDS Guanjie
MCCommands == {<<[reg |-> 0, value |-> 1]>>, <<[reg |-> 1, value |-> 1], [reg |-> 0, value |-> 1]>>}
==============================================================================
