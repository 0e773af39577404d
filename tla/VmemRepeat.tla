----------------------------- MODULE VmemRepeat -----------------------------
(***************************************************************************)
(* The repeat mappings of common/vmem_posix.c: a shared-memory object      *)
(* mapped several times side by side, so that a small ring looks like a    *)
(* large buffer.                                                           *)
(*                                                                         *)
(* Every caller on the machine creates its object under the SAME name, so  *)
(* the system calls of vmem_create_repeat_mapping by different processes   *)
(* interleave on it; each is a step.  A process may crash between any two  *)
(* of them, which closes its descriptors and unmaps its memory but leaves  *)
(* the name.  The processes that are not root all run as one user, who may *)
(* unlink what any of them created but nothing that root created: the      *)
(* directory of the names is sticky.  Sizes count units of                 *)
(* VMEM_ALLOC_GRANULARITY.                                                 *)
(***************************************************************************)
EXTENDS Integers, FiniteSets

CONSTANTS
  Callers,     (* Processes that use repeat mappings, one at a time each.  *)
  Privileged,  (* Those that run as root, whom a mode of 0 keeps from      *)
               (* nothing.                                                 *)
  Objects,     (* Identities for shared-memory objects: bounds how many    *)
               (* exist at once.                                           *)
  NULL,        (* No object, no descriptor, no memory.                     *)
  Widths,      (* The values of ring_width that each caller passes.        *)
  Repeats,     (* The values of repeat_count.                              *)
  MayFail,     (* The system calls that can fail for want of resources:    *)
               (* of "open", "truncate", "reserve", "map".                 *)
  MaxRefused,  (* Bound on the callers that such failures hit at once.     *)
  Word         (* 2^32 bytes in units: 65536.                              *)

ASSUME VmemRepeatAssumption ==
  /\ Privileged \subseteq Callers
  /\ NULL \notin Objects
  /\ Widths \in [Callers -> SUBSET Nat] /\ Repeats \subseteq Nat \ {0}
  /\ MayFail \subseteq {"open", "truncate", "reserve", "map"}
  /\ MaxRefused \in Nat
  /\ Word \in Nat \ {0}

VARIABLES
  name,    (* The object that "_repeatmap_vfile" names, or NULL.           *)
  rooted,  (* The objects that root created.                               *)
  size,    (* [Objects -> Nat]: what ftruncate made of each object.        *)
  pc,      (* The next system call of each caller.                         *)
  arg,     (* ring_width and repeat_count of its mapping.                  *)
  ramfile, (* Its descriptor in the call under way, as the object.         *)
  fds,     (* The descriptors it holds open, as objects.                   *)
  view,    (* The loop variable i.                                         *)
  region,  (* Its address range from mapbase on: for each unit NULL        *)
           (* (reserved) or the object and the unit of it that it shows.   *)
  alone,   (* Ghost: no other call overlapped its call so far.             *)
  refused, (* Ghost: a system call of its failed for want of resources.    *)
  shared,  (* Ghost: the objects that two callers opened.                  *)
  left     (* Ghost: those whose call failed or crashed.                   *)

vars == <<name, rooted, size, pc, arg, ramfile, fds, view, region, alone, refused,
          shared, left>>

Steps == {"unlink", "open", "truncate", "reserve", "map"}

(* A product of u32 sizes.                                                 *)
u32(units) == units % Word

(* The address range of a caller that has none: mapbase is MAP_FAILED.     *)
NoRegion == [k \in {} |-> NULL]

Shown(c) == {region[c][k][1] : k \in {k \in DOMAIN region[c] : region[c][k] # NULL}}

(* The objects that something still refers to.                             *)
Alive == ({name} \cup UNION {fds[c] \cup Shown(c) : c \in Callers}) \ {NULL}

InCall(c) == pc[c] \in Steps

Arg0 == [width |-> 0, repeat |-> 0]

Go(c, from, to) == pc[c] = from /\ pc' = [pc EXCEPT ![c] = to]

Fails(call, c) ==
  /\ call \in MayFail
  /\ Cardinality({d \in Callers : refused[d]}) < MaxRefused
  /\ refused' = [refused EXCEPT ![c] = TRUE]

(* What a call that ends now leaves without taking it off the name.        *)
Lost(c) == IF InCall(c) THEN {ramfile[c]} \ {NULL} ELSE {}

(* The kernel frees an object that nothing refers to any more.             *)
FreeUnused(lost) ==
  /\ rooted' = rooted \cap Alive'
  /\ size' = [o \in Objects |-> IF o \in Alive' THEN size[o] ELSE 0]
  /\ shared' = shared \cap Alive'
  /\ left' = (left \cup lost) \cap Alive'

(* The variables of a call that is over have no value.                     *)
Forget(c) ==
  /\ arg' = [arg EXCEPT ![c] = Arg0]
  /\ ramfile' = [ramfile EXCEPT ![c] = NULL]
  /\ view' = [view EXCEPT ![c] = 0]
  /\ alone' = [alone EXCEPT ![c] = FALSE]
  /\ refused' = [refused EXCEPT ![c] = FALSE]

-----------------------------------------------------------------------------
Init ==
  /\ name = NULL
  /\ rooted = {}
  /\ size = [o \in Objects |-> 0]
  /\ pc = [c \in Callers |-> "idle"]
  /\ arg = [c \in Callers |-> Arg0]
  /\ ramfile = [c \in Callers |-> NULL]
  /\ fds = [c \in Callers |-> {}]
  /\ view = [c \in Callers |-> 0]
  /\ region = [c \in Callers |-> NoRegion]
  /\ alone = [c \in Callers |-> FALSE]
  /\ refused = [c \in Callers |-> FALSE]
  /\ shared = {}
  /\ left = {}

(* vmem_create_repeat_mapping(ring_width, repeat_count) is called.  What   *)
(* the caller's last vmem_destroy_repeat_mapping did not unmap stays       *)
(* mapped, at an address that nobody asks for any more.                    *)
Call(c) ==
  /\ Go(c, "idle", "unlink") \/ Go(c, "null", "unlink")
  /\ \E w \in Widths[c], n \in Repeats : arg' = [arg EXCEPT ![c] = [width |-> w, repeat |-> n]]
  /\ view' = [view EXCEPT ![c] = 0]
  /\ region' = [region EXCEPT ![c] = NoRegion]
  /\ alone' = [d \in Callers |->
       IF d = c THEN \A e \in Callers \ {c} : ~InCall(e) ELSE alone[d] /\ ~InCall(d)]
  /\ refused' = [refused EXCEPT ![c] = FALSE]
  /\ UNCHANGED <<name, rooted, size, ramfile, fds, shared, left>>

(* Mutant: nothing is deleted. *)
UnlinkNothing(c) ==
  /\ Go(c, "unlink", "open")
  /\ UNCHANGED <<name, rooted, size, arg, ramfile, fds, view, region, alone, refused, shared, left>>

(* Whom the kernel lets take the object of now off the name.               *)
MayUnlink(c) == c \in Privileged \/ name \notin rooted

(* A file left behind by a crash is deleted first, if it may be: the       *)
(* result of shm_unlink is not tested.                                     *)
Unlink(c) ==
  /\ Go(c, "unlink", "open")
  /\ name' = IF MayUnlink(c) THEN NULL ELSE name
  /\ UNCHANGED <<arg, ramfile, fds, view, region, alone, refused>>
  /\ FreeUnused({})

(* Mutant: a mode that lets every process open the object. *)
MayOpenAny(c) == TRUE

(* Who may open an object whose mode is 0.                                 *)
MayOpen(c) == c \in Privileged

(* shm_open(vfile_name, O_RDWR | O_CREAT, 0): a new object, or the one     *)
(* that has the name already.  The result is not tested.                   *)
Open(c) ==
  /\ Go(c, "open", "truncate")
  /\ \/ /\ name = NULL
        /\ \E o \in Objects \ Alive :
             /\ name' = o
             /\ rooted' = IF c \in Privileged THEN rooted \cup {o} ELSE rooted \ {o}
             /\ ramfile' = [ramfile EXCEPT ![c] = o]
             /\ fds' = [fds EXCEPT ![c] = @ \cup {o}]
        /\ UNCHANGED <<size, refused, shared, left>>
     \/ /\ name # NULL
        /\ MayOpen(c)
        /\ ramfile' = [ramfile EXCEPT ![c] = name]
        /\ fds' = [fds EXCEPT ![c] = @ \cup {name}]
        /\ shared' = shared \cup {name}
        /\ UNCHANGED <<name, rooted, size, refused, left>>
     \/ /\ name # NULL
        /\ ~MayOpen(c)
        /\ ramfile' = [ramfile EXCEPT ![c] = NULL]
        /\ UNCHANGED <<name, rooted, size, fds, refused, shared, left>>
     \/ /\ Fails("open", c)
        /\ ramfile' = [ramfile EXCEPT ![c] = NULL]
        /\ UNCHANGED <<name, rooted, size, fds, shared, left>>
  /\ UNCHANGED <<arg, view, region, alone>>

(* Mutant: the object is a unit too short. *)
ShortExtent(c) == u32(arg[c].width - 1)

Extent(c) == u32(arg[c].width)

(* ftruncate to the ring width; the result is not tested.                  *)
Truncate(c) ==
  /\ Go(c, "truncate", "reserve")
  /\ \/ /\ ramfile[c] # NULL
        /\ size' = [size EXCEPT ![ramfile[c]] = Extent(c)]
        /\ UNCHANGED refused
     \/ ramfile[c] = NULL /\ UNCHANGED <<size, refused>>
     \/ Fails("truncate", c) /\ UNCHANGED size
  /\ UNCHANGED <<name, rooted, arg, ramfile, fds, view, region, alone, shared, left>>

(* mmap of the whole range.  A failure is MAP_FAILED, the test is for      *)
(* NULL: the loop goes on with an address that no view can have.           *)
Reserve(c) ==
  LET units == arg[c].width * arg[c].repeat
  IN  /\ Go(c, "reserve", "map")
      /\ \/ /\ units > 0
            /\ region' = [region EXCEPT ![c] = [k \in 0 .. units - 1 |-> NULL]]
            /\ UNCHANGED refused
         \/ /\ units = 0
            /\ region' = [region EXCEPT ![c] = NoRegion]
            /\ UNCHANGED refused
         \/ /\ Fails("reserve", c)
            /\ region' = [region EXCEPT ![c] = NoRegion]
      /\ UNCHANGED <<name, rooted, size, arg, ramfile, fds, view, alone, shared, left>>

(* Mutant: one view too many. *)
MoreViewsPast(c) == view[c] <= arg[c].repeat

(* The condition of the loop over the views.                               *)
MoreViews(c) == view[c] < arg[c].repeat

(* Mutant: the index is taken for an offset. *)
ViewStartAtIndex(c) == view[c]

(* mmap of view i over its part of the range.                              *)
ViewStart(c) == view[c] * arg[c].width
ViewUnits(c) == ViewStart(c) .. ViewStart(c) + u32(arg[c].width) - 1
CanMap(c) == ramfile[c] # NULL /\ region[c] # NoRegion /\ ViewUnits(c) # {}

MapView(c) ==
  /\ pc[c] = "map" /\ MoreViews(c)
  /\ CanMap(c)
  /\ region' = [region EXCEPT ![c] = [k \in DOMAIN @ |->
       IF k \in ViewUnits(c) THEN <<ramfile[c], k - ViewStart(c)>> ELSE @[k]]]
  /\ view' = [view EXCEPT ![c] = @ + 1]
  /\ UNCHANGED <<name, rooted, size, pc, arg, ramfile, fds, alone, refused, shared, left>>

(* A view that cannot be mapped: NULL is returned.  The range, the views   *)
(* mapped so far, the descriptor and the name are left behind.             *)
MapFails(c) ==
  /\ MoreViews(c)
  /\ Go(c, "map", "null")
  /\ \/ ~CanMap(c) /\ UNCHANGED refused
     \/ Fails("map", c)
  /\ left' = left \cup Lost(c)
  /\ arg' = [arg EXCEPT ![c] = Arg0]
  /\ ramfile' = [ramfile EXCEPT ![c] = NULL]
  /\ view' = [view EXCEPT ![c] = 0]
  /\ region' = [region EXCEPT ![c] = NoRegion]
  /\ UNCHANGED <<name, rooted, size, fds, alone, shared>>

(* Mutant: the name stays. *)
ReturnOnly(c) ==
  /\ ~MoreViews(c)
  /\ Go(c, "map", "mapped")
  /\ ramfile' = [ramfile EXCEPT ![c] = NULL]
  /\ view' = [view EXCEPT ![c] = 0]
  /\ alone' = [alone EXCEPT ![c] = FALSE]
  /\ UNCHANGED <<name, rooted, size, arg, fds, region, refused, shared, left>>

(* The loop is over: the name goes, whoever it is of by now, unless that   *)
(* is root and the caller is not, and mapbase is returned.  The descriptor *)
(* stays open.                                                             *)
UnlinkAgain(c) ==
  /\ ~MoreViews(c)
  /\ Go(c, "map", "mapped")
  /\ name' = IF MayUnlink(c) THEN NULL ELSE name
  /\ ramfile' = [ramfile EXCEPT ![c] = NULL]
  /\ view' = [view EXCEPT ![c] = 0]
  /\ alone' = [alone EXCEPT ![c] = FALSE]
  /\ UNCHANGED <<arg, fds, region, refused>>
  /\ FreeUnused({})

(* Mutant: only the first view is unmapped. *)
FirstView(c) == u32(arg[c].width)

Unmapped(c) == u32(arg[c].width * arg[c].repeat)

(* vmem_destroy_repeat_mapping, with the arguments of the creation: munmap *)
(* of a u32 number of bytes, which fails when that is 0.  The creation     *)
(* counts the bytes of the range in a u64.                                 *)
Destroy(c) ==
  /\ Go(c, "mapped", "idle")
  /\ region' = [region EXCEPT ![c] =
       [k \in {k \in DOMAIN @ : k >= Unmapped(c)} |-> @[k]]]
  /\ Forget(c)
  /\ UNCHANGED <<name, rooted, size, fds, shared, left>>

(* The process dies and is started again.                                  *)
Crash(c) ==
  /\ pc[c] # "idle"
  /\ pc' = [pc EXCEPT ![c] = "idle"]
  /\ Forget(c)
  /\ fds' = [fds EXCEPT ![c] = {}]
  /\ region' = [region EXCEPT ![c] = NoRegion]
  /\ UNCHANGED name
  /\ FreeUnused(Lost(c))

Next ==
  \E c \in Callers :
    \/ Call(c)
    \/ Unlink(c)
    \/ Open(c)
    \/ Truncate(c)
    \/ Reserve(c)
    \/ MapView(c)
    \/ MapFails(c)
    \/ UnlinkAgain(c)
    \/ Destroy(c)
    \/ Crash(c)

Spec == Init /\ [][Next]_vars

-----------------------------------------------------------------------------
(* Types, and the range of each variable of a call: a descriptor in use is *)
(* open, and the loop never goes past repeat_count.                        *)
TypeOK ==
  /\ name \in Objects \cup {NULL} /\ rooted \subseteq Objects
  /\ size \in [Objects -> Nat]
  /\ pc \in [Callers -> Steps \cup {"idle", "null", "mapped"}]
  /\ \A c \in Callers :
       /\ arg[c].width \in Widths[c] \cup {0} /\ arg[c].repeat \in Repeats \cup {0}
       /\ fds[c] \subseteq Objects
       /\ ramfile[c] \in fds[c] \cup {NULL}
       /\ view[c] \in 0 .. arg[c].repeat
       /\ Shown(c) \subseteq Objects
       /\ pc[c] # "idle" => DOMAIN region[c] \subseteq 0 .. arg[c].width * arg[c].repeat - 1
  /\ alone \in [Callers -> BOOLEAN] /\ refused \in [Callers -> BOOLEAN]
  /\ shared \subseteq Objects /\ left \subseteq Objects

(* The mapping that the caller gets back is a ring over one object: every  *)
(* unit of the range shows the unit at its offset modulo ring_width, and   *)
(* no part of the range is left reserved.                                  *)
Ring ==
  \A c \in Callers : pc[c] = "mapped" =>
    \E o \in Objects :
      region[c] = [k \in 0 .. arg[c].width * arg[c].repeat - 1 |-> <<o, k % arg[c].width>>]

(* Two processes that are not root never get views of the same memory,     *)
(* although they create their objects under the same name at the same      *)
(* time: the mode of 0 makes the second shm_open fail.                     *)
Isolation ==
  \A c, d \in Callers \ Privileged : c # d => Shown(c) \cap Shown(d) = {}

(* Every unit of a mapping that was returned exists in the object, so that *)
(* no access raises SIGBUS, if and only if ftruncate, whose result is not  *)
(* tested, was not refused: with anything else refused nothing is returned. *)
(* Root may open the same object and cut it.                               *)
Backed ==
  \A c \in Callers : pc[c] = "mapped" =>
    \A k \in DOMAIN region[c] :
      \/ region[c][k][1] \in shared
      \/ region[c][k][2] < size[region[c][k][1]] <=> ~refused[c]

(* What the caller can neither delete nor open has the name.               *)
Blocked(c) == c \notin Privileged /\ name \in rooted

(* Whatever crashed before, a call that no other call overlaps fails, once *)
(* resources permit, if and only if root left the name to a caller that is *)
(* not root: any other file left behind is deleted first.                  *)
AloneSucceeds ==
  [][\A c \in Callers : InCall(c) /\ alone[c] =>
       /\ pc'[c] = "null" => refused'[c] \/ Blocked(c)
       /\ pc'[c] = "mapped" => ~Blocked(c)]_vars

(* The name stays behind only when a call failed or crashed: otherwise it  *)
(* belongs to a call under way, even when calls unlink each other's names. *)
NoLitter ==
  name # NULL /\ name \notin left =>
    \E c \in Callers : InCall(c) /\ ramfile[c] = name

(* vmem_destroy_repeat_mapping leaves nothing of a mapping below 2^32      *)
(* bytes, and always leaves a part of a larger one, which the creation     *)
(* makes all the same.                                                     *)
DestroyUnmaps ==
  [][\A c \in Callers :
       pc[c] = "mapped" /\ pc'[c] = "idle" /\ fds'[c] # {} =>
         (region'[c] = NoRegion <=> arg[c].width * arg[c].repeat < Word)]_vars

(* "Delete a repeat mapping": a caller that deleted its mapping keeps no   *)
(* backing buffer alive.                                                   *)
DestroyFrees == \A c \in Callers : pc[c] = "idle" => fds[c] = {}

=============================================================================
