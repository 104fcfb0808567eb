----------------------------- MODULE MCWorkspace -----------------------------
(***************************************************************************)
(* WorkspaceHistory for TLC: one vine with a plain anchor and one with a   *)
(* shielded one, which are not interchangeable.                            *)
(***************************************************************************)
EXTENDS WorkspaceHistory

CONSTANTS plain, shielded
=============================================================================
