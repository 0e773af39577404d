---------------------------- MODULE VmemWindows -----------------------------
(***************************************************************************)
(* common/vmem_windows.c: repeat mappings and reserve / commit / free over *)
(* the address space that the threads of a process share.                  *)
(*                                                                         *)
(* vmem_create_repeat_mapping finds a free range by reserving it, releases *)
(* it and maps the views into it one at a time; another thread can get     *)
(* there first, in which case it cleans up and tries again.  Every system  *)
(* call is a step.  Addresses count views: the ring width only scales the  *)
(* ranges, and sizes that overflow a u32 are left out.                     *)
(***************************************************************************)
EXTENDS Integers

CONSTANTS
  Ringers,   (* Threads that use repeat mappings, one at a time each.       *)
  Users,     (* Threads that reserve, commit and free one region at a time. *)
  Space,     (* The number of addresses.                                    *)
  Repeat,    (* repeat_count                                                *)
  Sizes,     (* The sizes of the regions of Users.                          *)
  Attempts,  (* The initial value of num_attempts: 42 in the code.          *)
  None       (* Nothing is at an address.                                   *)

ASSUME VmemWindowsAssumption ==
  /\ Ringers \cap Users = {}
  /\ Space \in Nat /\ Repeat \in Nat \ {0} /\ Sizes \subseteq Nat \ {0}
  /\ Attempts \in Nat
  /\ None \notin {"reserved", "committed", "view"} \X (Ringers \cup Users)

VARIABLES
  space,     (* [Addresses -> None or <<kind, thread>>]                      *)
  pc,        (* The next system call of each of Ringers.                     *)
  base,      (* Its base_addr.                                               *)
  idx,       (* Its loop variable, i or j.                                   *)
  attempts,  (* Its num_attempts.                                            *)
  file,      (* Whether CreateFileMapping gave it a handle.                  *)
  held       (* [Users -> the addresses of the region it holds]              *)

vars == <<space, pc, base, idx, attempts, file, held>>

Addresses == 0 .. Space - 1

Range(start, size) == start .. start + size - 1

(* The ranges that the kernel can place `size` views at.                   *)
FreeStarts(size) ==
  {start \in Addresses : /\ start + size <= Space
                         /\ \A a \in Range(start, size) : space[a] = None}

Fill(addresses, x) == [a \in Addresses |-> IF a \in addresses THEN x ELSE space[a]]

InCall == {"attempt", "find", "release", "map", "clean"}

(* Where base_addr is an address that was found.                           *)
Placed == {"release", "map", "clean", "mapped", "destroy"}

Go(t, from, to) == pc[t] = from /\ pc' = [pc EXCEPT ![t] = to]

Init ==
  /\ space = [a \in Addresses |-> None]
  /\ pc = [t \in Ringers |-> "idle"]
  /\ base = [t \in Ringers |-> 0]
  /\ idx = [t \in Ringers |-> 0]
  /\ attempts = [t \in Ringers |-> 0]
  /\ file = [t \in Ringers |-> FALSE]
  /\ held = [u \in Users |-> {}]

-----------------------------------------------------------------------------
(* vmem_create_repeat_mapping is called.                                   *)
Call(t) ==
  /\ Go(t, "idle", "attempt") \/ Go(t, "failed", "attempt")
  /\ attempts' = [attempts EXCEPT ![t] = Attempts]
  /\ UNCHANGED <<space, base, idx, file, held>>

(* Mutant: attempts are not counted. *)
AttemptUncounted(t) ==
  /\ Go(t, "attempt", "find")
  /\ attempts[t] > 0
  /\ \E ok \in BOOLEAN : file' = [file EXCEPT ![t] = ok]
  /\ UNCHANGED <<space, base, idx, attempts, held>>

(* Mutant: the count is not tested. *)
AttemptUntested(t) ==
  /\ Go(t, "attempt", "find")
  /\ attempts' = [attempts EXCEPT ![t] = @ - 1]
  /\ \E ok \in BOOLEAN : file' = [file EXCEPT ![t] = ok]
  /\ UNCHANGED <<space, base, idx, held>>

(* An attempt starts with CreateFileMapping.  A failure is a NULL handle,  *)
(* which the test for INVALID_HANDLE_VALUE lets through.                   *)
Attempt(t) ==
  /\ Go(t, "attempt", "find")
  /\ attempts[t] > 0
  /\ attempts' = [attempts EXCEPT ![t] = @ - 1]
  /\ \E ok \in BOOLEAN : file' = [file EXCEPT ![t] = ok]
  /\ UNCHANGED <<space, base, idx, held>>

(* No attempt is left: NULL is returned.                                   *)
GiveUp(t) ==
  /\ Go(t, "attempt", "failed")
  /\ attempts[t] = 0
  /\ UNCHANGED <<space, base, idx, attempts, file, held>>

(* VirtualAlloc finds a range for the whole mapping.                       *)
Find(t) ==
  /\ Go(t, "find", "release")
  /\ \E start \in FreeStarts(Repeat) :
       /\ base' = [base EXCEPT ![t] = start]
       /\ space' = Fill(Range(start, Repeat), <<"reserved", t>>)
  /\ UNCHANGED <<idx, attempts, file, held>>

(* There is no such range, or no memory: the attempt is over, and its      *)
(* handle is not closed.                                                   *)
FindFails(t) ==
  /\ Go(t, "find", "attempt")
  /\ file' = [file EXCEPT ![t] = FALSE]
  /\ UNCHANGED <<space, base, idx, attempts, held>>

Release(t) ==
  /\ Go(t, "release", "map")
  /\ space' = Fill(Range(base[t], Repeat), None)
  /\ idx' = [idx EXCEPT ![t] = 0]
  /\ UNCHANGED <<base, attempts, file, held>>

(* The address of view i.                                                  *)
Target(t) == base[t] + idx[t]

(* Mutant: one view too few. *)
FewerViews(t) == idx[t] < Repeat - 1

(* The condition of the loop over the views.                               *)
MoreViews(t) == idx[t] < Repeat

MapView(t) ==
  /\ pc[t] = "map" /\ MoreViews(t)
  /\ file[t] /\ space[Target(t)] = None
  /\ space' = Fill({Target(t)}, <<"view", t>>)
  /\ idx' = [idx EXCEPT ![t] = @ + 1]
  /\ UNCHANGED <<pc, base, attempts, file, held>>

(* MapViewOfFileEx fails: the address is taken, or there is no handle, or  *)
(* no memory.                                                              *)
MapFails(t) ==
  /\ MoreViews(t)
  /\ Go(t, "map", "clean")
  /\ idx' = [idx EXCEPT ![t] = 0]
  /\ UNCHANGED <<space, base, attempts, file, held>>

(* base_addr is returned; the handle stays open.                           *)
Return(t) ==
  /\ ~MoreViews(t)
  /\ Go(t, "map", "mapped")
  /\ idx' = [idx EXCEPT ![t] = 0]
  /\ UNCHANGED <<space, base, attempts, file, held>>

(* Mutant: releases whatever is at the address. *)
UnmapAny == [a \in Addresses |-> TRUE]

(* UnmapViewOfFile works on a view, whosever it is.                        *)
IsView == [a \in Addresses |-> space[a] # None /\ space[a][1] = "view"]

(* Mutant: the last slot is not visited. *)
FewerSlots(t) == idx[t] < Repeat - 1

(* The condition of the loop of vmem_destroy_repeat_mapping.               *)
MoreSlots(t) == idx[t] < Repeat

(* vmem_destroy_repeat_mapping, one slot: called by the clean-up or, later, *)
(* by the client.                                                          *)
Unmap(t) ==
  /\ pc[t] \in {"clean", "destroy"} /\ MoreSlots(t)
  /\ space' = IF IsView[Target(t)] THEN Fill({Target(t)}, None) ELSE space
  /\ idx' = [idx EXCEPT ![t] = @ + 1]
  /\ UNCHANGED <<pc, base, attempts, file, held>>

(* The clean-up is over and the handle closed: the attempt returns NULL.   *)
Cleaned(t) ==
  /\ ~MoreSlots(t)
  /\ Go(t, "clean", "attempt")
  /\ file' = [file EXCEPT ![t] = FALSE]
  /\ UNCHANGED <<space, base, idx, attempts, held>>

(* The client destroys its mapping.                                        *)
Destroy(t) ==
  /\ Go(t, "mapped", "destroy")
  /\ UNCHANGED <<space, base, idx, attempts, file, held>>

Destroyed(t) ==
  /\ ~MoreSlots(t)
  /\ Go(t, "destroy", "idle")
  /\ file' = [file EXCEPT ![t] = FALSE]
  /\ UNCHANGED <<space, base, idx, attempts, held>>

-----------------------------------------------------------------------------
(* vmem_reserve succeeds.                                                  *)
Reserve(u) ==
  /\ held[u] = {}
  /\ \E size \in Sizes : \E start \in FreeStarts(size) :
       /\ space' = Fill(Range(start, size), <<"reserved", u>>)
       /\ held' = [held EXCEPT ![u] = Range(start, size)]
  /\ UNCHANGED <<pc, base, idx, attempts, file>>

(* vmem_commit of one address of the region.                               *)
Commit(u) ==
  /\ \E a \in held[u] : space' = Fill({a}, <<"committed", u>>)
  /\ UNCHANGED <<pc, base, idx, attempts, file, held>>

(* vmem_free releases the whole region, whatever size it is given.         *)
Free(u) ==
  /\ held[u] # {}
  /\ space' = Fill(held[u], None)
  /\ held' = [held EXCEPT ![u] = {}]
  /\ UNCHANGED <<pc, base, idx, attempts, file>>

(* What a thread does on its own once vmem_create_repeat_mapping or        *)
(* vmem_destroy_repeat_mapping is called.                                  *)
Run(t) ==
  \/ Attempt(t)
  \/ GiveUp(t)
  \/ Find(t)
  \/ FindFails(t)
  \/ Release(t)
  \/ MapView(t)
  \/ MapFails(t)
  \/ Return(t)
  \/ Unmap(t)
  \/ Cleaned(t)
  \/ Destroyed(t)

Next ==
  \/ \E t \in Ringers : Run(t) \/ Call(t) \/ Destroy(t)
  \/ \E u \in Users : Reserve(u) \/ Commit(u) \/ Free(u)

(* A thread that is in a call is scheduled; nobody has to call.            *)
Fairness == \A t \in Ringers : WF_vars(Run(t))

Spec == Init /\ [][Next]_vars /\ Fairness

-----------------------------------------------------------------------------
(* Types; a thread has left the loop over the views when it has mapped     *)
(* them all, and no loop passes its bound.                                 *)
TypeOK ==
  /\ space \in [Addresses -> {None} \cup ({"reserved", "committed"} \X (Ringers \cup Users))
                                    \cup ({"view"} \X Ringers)]
  /\ pc \in [Ringers -> InCall \cup {"idle", "failed", "mapped", "destroy"}]
  /\ base \in [Ringers -> Nat]
  /\ \A t \in Ringers : pc[t] \in Placed => base[t] + Repeat <= Space
  /\ idx \in [Ringers -> 0 .. Repeat]
  /\ attempts \in [Ringers -> 0 .. Attempts]
  /\ file \in [Ringers -> BOOLEAN]
  /\ held \in [Users -> SUBSET Addresses]

(* A mapping that was returned keeps every one of its views until it is    *)
(* destroyed, whatever range other threads want in the meantime.           *)
RingKept ==
  \A t \in Ringers : pc[t] = "mapped" =>
    \A a \in Range(base[t], Repeat) : space[a] = <<"view", t>>

(* "A lot of these calls will fail because those regions were never        *)
(* mapped.  But that's "ok"": the clean-up after a lost race leaves alone  *)
(* the regions that other threads reserved inside the range.               *)
RegionKept ==
  \A u \in Users : \A a \in held[u] :
    space[a] \in {<<"reserved", u>>, <<"committed", u>>}

(* A thread outside a call that has no mapping has no view anywhere: what  *)
(* an attempt mapped before it lost the race is gone.                      *)
NoStrayViews ==
  \A t \in Ringers : pc[t] \in {"idle", "failed", "attempt", "find", "release"} =>
    \A a \in Addresses : space[a] # <<"view", t>>

(* vmem_create_repeat_mapping returns, even when every attempt loses its   *)
(* race, because the attempts are counted.                                 *)
Returns ==
  \A t \in Ringers : pc[t] \in InCall ~> pc[t] \in {"mapped", "failed"}

=============================================================================
