--------------------------- MODULE MCVmemWindows ----------------------------
(***************************************************************************)
(* An address space of five views, rings of two or three of them and two   *)
(* or three attempts instead of 42.                                        *)
(***************************************************************************)
EXTENDS VmemWindows

CONSTANTS r1, r2, u1, u2

MCRinger == {r1}
MCRingers == {r1, r2}
MCUser == {u1}
MCUsers == {u1, u2}
MCSizes == {1, 2}
=============================================================================
