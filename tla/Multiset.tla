------------------------------ MODULE Multiset ------------------------------
(***************************************************************************)
(* What list.h promises: a list keeps what was put into it, as often as it *)
(* was put there and in no particular order, and each call answers for     *)
(* what it did.  `count` says how often each list holds each value; `call` *)
(* is the last call, with `ok` what it found or whether it had an effect.  *)
(***************************************************************************)
EXTENDS Integers

CONSTANTS
  Lists,  (* The lists of the program.      *)
  Val     (* The values a list can hold.    *)

VARIABLES
  count,  (* [Lists -> [Val -> Nat]]        *)
  call

None == [val \in Val |-> 0]

Did(op, x, val, ok) == call' = [op |-> op, list |-> x, val |-> val, ok |-> ok]

Init == count = [x \in Lists |-> None] /\ call.op = "none"

(* list_create, list_destroy and list_clear leave an empty list.           *)
Empty(x) ==
  /\ call'.op \in {"create", "destroy", "clear"}
  /\ count' = [count EXCEPT ![x] = None]

(* list_add and every iteration of list_merge add one value; an allocation *)
(* failure loses it.                                                       *)
Add(x, val) ==
  \E op \in {"add", "merge"} :
    \/ /\ Did(op, x, val, TRUE)
       /\ count' = [count EXCEPT ![x][val] = @ + 1]
    \/ /\ Did(op, x, val, FALSE)
       /\ UNCHANGED count

(* list_remove takes one value away, or nothing.                           *)
Remove(x, val) ==
  \/ /\ Did("remove", x, val, TRUE)
     /\ count[x][val] > 0
     /\ count' = [count EXCEPT ![x][val] = @ - 1]
  \/ /\ Did("remove", x, val, FALSE)
     /\ UNCHANGED count

(* list_remove_val takes away that value, if it is there.                  *)
RemoveVal(x, val) ==
  /\ Did("remove_val", x, val, count[x][val] > 0)
  /\ count' = IF count[x][val] > 0 THEN [count EXCEPT ![x][val] = @ - 1] ELSE count

(* list_find and list_contains tell whether the value is there.            *)
Find(x, val) ==
  /\ Did("find", x, val, count[x][val] > 0)
  /\ UNCHANGED count

(* The start and the end of list_merge.                                    *)
MergeCall == call'.op \in {"merge", "merged"} /\ UNCHANGED count

Next ==
  \/ \E x \in Lists : Empty(x)
  \/ \E x \in Lists, val \in Val :
       Add(x, val) \/ Remove(x, val) \/ RemoveVal(x, val) \/ Find(x, val)
  \/ MergeCall

Spec == Init /\ [][Next]_<<count, call>>
=============================================================================
