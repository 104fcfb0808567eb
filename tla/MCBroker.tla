------------------------------ MODULE MCBroker ------------------------------
(***************************************************************************)
(* Broker for TLC: clients a1, a2 of one caller and b1 of another.         *)
(***************************************************************************)
EXTENDS Broker

CONSTANTS a1, a2, b1, a, b

MCCallerOf == [j \in Clients |-> IF j \in {a1, a2} THEN a ELSE b]
=============================================================================
