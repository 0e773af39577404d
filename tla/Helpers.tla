------------------------------ MODULE Helpers -------------------------------
(***************************************************************************)
(* The helpers of the library that one thread uses and that share no       *)
(* state: arguments, paths, UTF-8, SHA-1, OBJ models and the input state.  *)
(* A behaviour of the composition is one of a single helper, whose name    *)
(* does not change, while the others rest: what holds of each of them in   *)
(* every such behaviour holds in any interleaving of their calls.          *)
(***************************************************************************)
EXTENDS Arguments, Path, Utf8, Sha1, ObjModel, Input

VARIABLE helper  (* The helper of this behaviour.                          *)

helperVars ==
  <<helper, argumentsVars, pathVars, utf8Vars, sha1Vars, objVars, inputVars>>

Init ==
  /\ helper \in {"arguments", "path", "utf8", "sha1", "model", "input"}
  /\ ArgumentsInit /\ PathInit /\ Utf8Init /\ Sha1Init /\ ObjInit /\ InputInit

Next ==
  /\ \/ /\ helper = "arguments" /\ ArgumentsNext
        /\ UNCHANGED <<pathVars, utf8Vars, sha1Vars, objVars, inputVars>>
     \/ /\ helper = "path" /\ PathNext
        /\ UNCHANGED <<argumentsVars, utf8Vars, sha1Vars, objVars, inputVars>>
     \/ /\ helper = "utf8" /\ Utf8Next
        /\ UNCHANGED <<argumentsVars, pathVars, sha1Vars, objVars, inputVars>>
     \/ /\ helper = "sha1" /\ Sha1Next
        /\ UNCHANGED <<argumentsVars, pathVars, utf8Vars, objVars, inputVars>>
     \/ /\ helper = "model" /\ ObjNext
        /\ UNCHANGED <<argumentsVars, pathVars, utf8Vars, sha1Vars, inputVars>>
     \/ /\ helper = "input" /\ InputNext
        /\ UNCHANGED <<argumentsVars, pathVars, utf8Vars, sha1Vars, objVars>>
  /\ UNCHANGED helper

(* The thread goes on once it is in a call; nothing makes it call.         *)
Fairness ==
  /\ WF_argumentsVars(ArgumentsStep)
  /\ WF_pathVars(PathStep)
  /\ WF_utf8Vars(WalkStep)
  /\ WF_sha1Vars(Sha1Step)
  /\ WF_objVars(ObjStep)

Spec == Init /\ [][Next]_helperVars /\ Fairness

Running ==
  \/ args_pc = "loop"
  \/ path_pc \notin {"idle", "return", "fault"}
  \/ utf8_pc = "walk"
  \/ sha_pc = "input"
  \/ obj_pc \in {"tally", "read"}

(* Every call of a helper ends: no scan runs for ever, even where its      *)
(* position wraps around or the text was cut.                              *)
HelperReturns == Running ~> ~Running

=============================================================================
