------------------------------ MODULE MCHelpers -----------------------------
(***************************************************************************)
(* Inputs on both sides of every boundary that a helper has: the ends of a *)
(* block of 64 bytes, the ranges of UTF-8, counts and positions that wrap, *)
(* paths with and without slashes, the first and the last joystick.        *)
(***************************************************************************)
EXTENDS Helpers

MCPaths == {"a", "b", "c"}
MCOptions == {"--silent", "--first", "--second", "--other"}
MCArgs == <<"--first", "--second", "--first">>

MCChars == {"/", "\\", "x"}

MCCodepoints == {36, 127, 128, 233, 2047, 2048, 8364, 21845, 65535, 65536, 128512, 299593, 1114111}

MCLengths == {0, 1, 55, 56, 57, 63, 64, 65, 119, 120, 127, 128, 183}

MCKeys == {"a", "left_shift", "right_shift", "left_control"}
MCMods == {"shift", "control", "num_lock"}
MCButtons == {"left", "right", "six"}
MCJoysticks == {0, 1, 2}
MCPadButtons == {"x"}
MCAxes == {"LX"}
MCPadStates ==
  {[buttons |-> {"x"}, axes |-> [a \in MCAxes |-> 1]], [buttons |-> {}, axes |-> [a \in MCAxes |-> -1]]}
=============================================================================
