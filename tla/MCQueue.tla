------------------------------- MODULE MCQueue ------------------------------
(***************************************************************************)
(* A small queue for TLC: two values besides Zero, initial sizes on both   *)
(* sides of a slot boundary, and a client that keeps at most MaxLen values *)
(* queued.                                                                 *)
(***************************************************************************)
EXTENDS Queue

CONSTANTS v1, v2, z  (* Queued values, z being the value of a zeroed slot. *)

MCVal == {z, v1, v2}
MCInitSizes == {0, 2, 8, 12, 24}
=============================================================================
