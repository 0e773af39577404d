-------------------------------- MODULE Fifo --------------------------------
(***************************************************************************)
(* What queue.h promises: values come out of the queue in the order they   *)
(* were added, whatever the backing buffer went through in between.  An    *)
(* add may be dropped, because queue_add reports an allocation failure to  *)
(* nobody.                                                                 *)
(***************************************************************************)
EXTENDS Sequences

CONSTANTS
  Val,  (* The values of queue_element.           *)
  Zero  (* What `out` holds when nothing came out. *)

VARIABLES
  items,  (* The queued values, oldest first.              *)
  out     (* The value that the last operation handed out. *)

Init == items = <<>> /\ out = Zero

(* queue_create and queue_clear. *)
Reset == items' = <<>> /\ out' = Zero

Add(val) == items' = Append(items, val) /\ out' = Zero

(* A dropped add, or an operation that only looks at the queue. *)
Keep == items' = items /\ out' = Zero

Get ==
  /\ items # <<>>
  /\ out' = Head(items)
  /\ items' = Tail(items)

Next ==
  \/ Reset
  \/ \E val \in Val : Add(val)
  \/ Keep
  \/ Get

Spec == Init /\ [][Next]_<<items, out>>
=============================================================================
