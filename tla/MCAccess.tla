------------------------------ MODULE MCAccess ------------------------------
(***************************************************************************)
(* Access for TLC: of the three contexts of OpenClaw two have nothing in   *)
(* common and one has no key.  Hermes takes the same three as its sessions *)
(* and Pi selects the first two.                                           *)
(***************************************************************************)
EXTENDS Access

MCKeys == <<{"a"}, {"b"}, {}>>
=============================================================================
