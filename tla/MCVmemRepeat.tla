---------------------------- MODULE MCVmemRepeat ----------------------------
(***************************************************************************)
(* Two ordinary processes with rings of three units and one that runs as   *)
(* root with rings of one, each shown twice, over two objects.  A word of  *)
(* four units holds the size of root's mappings and not of the others'.    *)
(***************************************************************************)
EXTENDS VmemRepeat, TLC

CONSTANTS p1, p2, root, o1, o2

MCCallers == {p1, p2, root}
MCPrivileged == {root}
MCObjects == {o1, o2}
MCWidths == [c \in MCCallers |-> IF c = root THEN {1} ELSE {3}]
MCRepeats == {2}
MCMayFail == {"open", "truncate", "reserve", "map"}

Symmetry == Permutations({p1, p2}) \cup Permutations(MCObjects)
=============================================================================
