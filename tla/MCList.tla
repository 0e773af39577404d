------------------------------- MODULE MCList -------------------------------
(***************************************************************************)
(* Two lists of 2-byte elements, created with room for one, or with room   *)
(* for three and a byte: a list of the latter size that is merged into     *)
(* itself moves while there are elements left to read.                     *)
(***************************************************************************)
EXTENDS List

CONSTANTS a, b, v1, z  (* Two lists, an element, and the element of zeros. *)

MCLists == {a, b}
MCVal == {z, v1}
MCInitSizes == {2, 7}
MCSmallSizes == {0, 2}
=============================================================================
