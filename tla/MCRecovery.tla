----------------------------- MODULE MCRecovery -----------------------------
(* Instance of Recovery for TLC: two rooms, listed in a fixed order. *)
EXTENDS Recovery

CONSTANTS r1, r2

TwoRooms == <<r1, r2>>
OneRoom == <<r1>>
=============================================================================
