----------------------------- MODULE MCHubRoute -----------------------------
(***************************************************************************)
(* Two operations: the Hub may fail and complete the first, and never       *)
(* reports anything of the second.                                          *)
(***************************************************************************)
EXTENDS HubRoute

TwoOps == <<{"failed", "completed"}, {}>>
=============================================================================
