-------------------------------- MODULE List --------------------------------
(***************************************************************************)
(* The auto-expanding list of common/list.c: a heap buffer of slots of     *)
(* element_size bytes, the first end_idx of which are in use.  Removing an *)
(* element moves the last one into its place.                              *)
(*                                                                         *)
(* Several lists of one single-threaded client.  Every call is a step but  *)
(* list_merge, whose loop takes a step for each list_add, because an       *)
(* iteration can free what it and the next ones read.                      *)
(***************************************************************************)
EXTENDS CInt, Sequences, FiniteSets

CONSTANTS
  Lists,      (* The list variables of the client.                          *)
  Val,        (* Contents of an element.                                    *)
  Zero,       (* An element of zero bytes.                                  *)
  ElemSize,   (* The element_size that the client passes to list_create.    *)
  InitSizes,  (* The init_size, in bytes.                                   *)
  MaxLen,     (* The client keeps at most this many elements in a list.     *)
  UnusedIdx   (* TRUE when the client also passes end_idx, the index of no  *)
              (* element, to list_remove.                                   *)

ASSUME ListAssumption ==
  /\ Zero \in Val
  /\ ElemSize \in u32 \ {0}
  /\ InitSizes \subseteq u32
  /\ MaxLen \in Nat
  /\ UnusedIdx \in BOOLEAN

VARIABLES
  lists,   (* [Lists -> header and buffer of a list]                  *)
  merge,   (* The list_merge under way.                               *)
  call,    (* The last call and what it found or whether it had an    *)
           (* effect.                                                 *)
  status   (* "fault": memory outside a buffer was used; "abort": an  *)
           (* assertion failed.  The program does nothing more.       *)

vars == <<lists, merge, call, status>>

Slots(size, element_size) ==
  IF element_size = 0 THEN {} ELSE 0 .. (size \div element_size) - 1

SlotsOf(l) == DOMAIN l.data

(* What a successful calloc(1, size) returns.                              *)
calloc(size, element_size) == [i \in Slots(size, element_size) |-> Zero]

NoBuffer == [i \in {} |-> Zero]

(* (list){0}                                                               *)
NoList == [data |-> NoBuffer, live |-> FALSE, alloc_size |-> 0, end_idx |-> 0,
           element_size |-> 0]

NoMerge == [on |-> FALSE]

-----------------------------------------------------------------------------
(* The functions of list.c that only read the list.                        *)

(* Wraps to U32 - 1 when the buffer is smaller than an element.            *)
list_maxidx(l) == ((l.alloc_size \div l.element_size) - 1) % U32

(* Mutant: compares with the number of slots. *)
FullLate(l) == l.end_idx > list_maxidx(l) + 1

list_full(l) == l.end_idx >= list_maxidx(l)

list_empty(l) == l.end_idx = 0

(* The elements in use, in index order.                                    *)
Items(l) == [i \in 1 .. l.end_idx |-> l.data[i - 1]]

(* Mutant: the search starts at 1. *)
FindAfterFirst(l, val) ==
  LET hits == {i \in 1 .. l.end_idx - 1 : l.data[i] = val}
  IN  IF hits = {} THEN -1 ELSE CHOOSE i \in hits : \A j \in hits : i <= j

list_find(l, val) ==
  LET hits == {i \in 0 .. l.end_idx - 1 : l.data[i] = val}
  IN  IF hits = {} THEN -1 ELSE CHOOSE i \in hits : \A j \in hits : i <= j

list_contains(l, val) == list_find(l, val) # -1

-----------------------------------------------------------------------------
(* The functions that change a list, as the results they can have.         *)

Result(l, status_, ok) == [list |-> l, status |-> status_, ok |-> ok]

(* The element goes into the next open slot, whose index is end_idx.       *)
Put(l, val) ==
  IF l.end_idx \in SlotsOf(l)
    THEN Result([l EXCEPT !.data[l.end_idx] = val, !.end_idx = @ + 1], "ok", TRUE)
    ELSE Result(l, "fault", FALSE)

(* Mutant: forgets the size of the new buffer. *)
GrownKeepsSize(l, newsize) ==
  [l EXCEPT !.data = [i \in Slots(newsize, l.element_size) |->
                       IF i \in SlotsOf(l) THEN l.data[i] ELSE Zero],
            !.live = TRUE]

Grown(l, newsize) ==
  [l EXCEPT !.data = [i \in Slots(newsize, l.element_size) |->
                       IF i \in SlotsOf(l) THEN l.data[i] ELSE Zero],
            !.live = TRUE,
            !.alloc_size = newsize]

(* A full list: the size must grow, calloc may fail (the element is lost   *)
(* and the caller is not told), and the copy reads the old buffer.         *)
AddFull(l, val) ==
  UNION { IF newsize <= l.alloc_size THEN {Result(l, "abort", FALSE)}
          ELSE { Result(l, "ok", FALSE),
                 IF l.live \/ l.alloc_size = 0 THEN Put(Grown(l, newsize), val)
                                               ELSE Result(l, "fault", FALSE) }
          : newsize \in GrownSizes(l.alloc_size, l.element_size) }

list_add(l, val) ==
  IF l.element_size = 0 THEN {Result(l, "fault", FALSE)}  \* division by zero
  ELSE IF list_full(l) THEN AddFull(l, val)
  ELSE {Put(l, val)}

(* The guard of list_remove.                                               *)
Removes(l, idx) == ~(idx > l.end_idx \/ list_empty(l))

(* Mutant: the slot of the last element keeps its bytes. *)
RemoveNoZero(l, idx) ==
  IF Removes(l, idx)
    THEN Result([l EXCEPT !.data[idx] = l.data[l.end_idx - 1], !.end_idx = @ - 1],
                "ok", TRUE)
    ELSE Result(l, "ok", FALSE)

(* The last element replaces the one removed and its slot is zeroed.       *)
list_remove(l, idx) ==
  LET back == l.end_idx - 1
  IN  IF ~Removes(l, idx) THEN Result(l, "ok", FALSE)
      ELSE IF idx \in SlotsOf(l)
        THEN Result([l EXCEPT !.data[idx] = l.data[back], !.data[back] = Zero,
                              !.end_idx = back], "ok", TRUE)
        ELSE Result(l, "fault", FALSE)

list_remove_val(l, val) ==
  IF list_contains(l, val) THEN list_remove(l, list_find(l, val))
                           ELSE Result(l, "ok", FALSE)

list_clear(l) ==
  IF l.live \/ l.alloc_size = 0
    THEN Result([l EXCEPT !.data = [i \in SlotsOf(l) |-> Zero], !.end_idx = 0],
                "ok", TRUE)
    ELSE Result(l, "fault", FALSE)

-----------------------------------------------------------------------------
Return(op, x, val, ok) ==
  call' = [op |-> op, list |-> x, val |-> val, ok |-> ok]

(* The call `op` on the list x has the result r.                           *)
Becomes(op, x, val, r) ==
  /\ lists' = [lists EXCEPT ![x] = r.list]
  /\ status' = r.status
  /\ Return(op, x, val, r.ok)

Init ==
  /\ lists = [x \in Lists |-> NoList]
  /\ merge = NoMerge
  /\ call = [op |-> "none", list |-> CHOOSE x \in Lists : TRUE, val |-> Zero, ok |-> TRUE]
  /\ status = "ok"

(* One call at a time.                                                     *)
Idle == status = "ok" /\ ~merge.on

(* The client creates a list it does not have, and tests data.             *)
Create(x) ==
  /\ Idle /\ ~lists[x].live
  /\ \E init_size \in InitSizes, live \in BOOLEAN :
       /\ lists' = [lists EXCEPT ![x] =
            [data |-> IF live THEN calloc(init_size, ElemSize) ELSE NoBuffer,
             live |-> live, alloc_size |-> init_size, end_idx |-> 0,
             element_size |-> ElemSize]]
       /\ Return("create", x, Zero, live)
  /\ UNCHANGED <<merge, status>>

Destroy(x) ==
  /\ Idle
  /\ lists' = [lists EXCEPT ![x] = NoList]
  /\ Return("destroy", x, Zero, TRUE)
  /\ UNCHANGED <<merge, status>>

Add(x, val) ==
  /\ Idle /\ lists[x].live /\ lists[x].end_idx < MaxLen
  /\ \E r \in list_add(lists[x], val) : Becomes("add", x, val, r)
  /\ UNCHANGED merge

(* Any index but that of the next open slot, unless UnusedIdx.             *)
Remove(x, idx) ==
  /\ Idle /\ (UnusedIdx \/ idx # lists[x].end_idx)
  /\ Becomes("remove", x,
             IF idx < lists[x].end_idx THEN lists[x].data[idx] ELSE Zero,
             list_remove(lists[x], idx))
  /\ UNCHANGED merge

RemoveVal(x, val) ==
  /\ Idle
  /\ Becomes("remove_val", x, val, list_remove_val(lists[x], val))
  /\ UNCHANGED merge

Find(x, val) ==
  /\ Idle
  /\ Return("find", x, val, list_contains(lists[x], val))
  /\ UNCHANGED <<lists, merge, status>>

Clear(x) ==
  /\ Idle /\ lists[x].live
  /\ Becomes("clear", x, Zero, list_clear(lists[x]))
  /\ UNCHANGED merge

(* list_merge(&dest, src): src is a copy of the header, taken now; i is    *)
(* the loop variable.  The ghost `start` is what dest held, `stale` that   *)
(* the buffer that src.data points to was freed, `dropped` that an element *)
(* was lost.                                                               *)
MergeCall(dest, src) ==
  /\ Idle /\ lists[dest].live
  /\ lists[dest].end_idx + lists[src].end_idx <= MaxLen
  /\ merge' = [on |-> TRUE, dest |-> dest, src |-> src, i |-> 0,
               end_idx |-> lists[src].end_idx, start |-> Items(lists[dest]),
               stale |-> FALSE, dropped |-> FALSE]
  /\ Return("merge", dest, Zero, TRUE)
  /\ UNCHANGED <<lists, status>>

(* list_add gets a pointer into the buffer of src, and reads the element   *)
(* through it only when it has grown dest and freed the old buffer: with r *)
(* its result, that buffer is freed when the element is read.              *)
Freed(r) ==
  \/ merge.stale
  \/ /\ merge.src = merge.dest
     /\ r.list.alloc_size # lists[merge.dest].alloc_size

(* Mutant: reads the list that is written. *)
MergeReadsDest(r) == {lists[merge.dest].data[merge.i]}

(* What an iteration can find: anything, in a freed buffer.                *)
MergeReads(r) == IF Freed(r) THEN Val ELSE {lists[merge.src].data[merge.i]}

MergeAdd ==
  /\ status = "ok" /\ merge.on /\ merge.i < merge.end_idx
  /\ \E val \in Val : \E r \in list_add(lists[merge.dest], val) :
       /\ val \in MergeReads(r)
       /\ Becomes("merge", merge.dest, val, r)
       /\ merge' = [merge EXCEPT !.i = @ + 1, !.dropped = @ \/ ~r.ok, !.stale = Freed(r)]

(* Reading the freed buffer may also crash.                                *)
MergeFault ==
  /\ status = "ok" /\ merge.on /\ merge.i < merge.end_idx
  /\ \E val \in Val : \E r \in list_add(lists[merge.dest], val) : r.ok /\ Freed(r)
  /\ status' = "fault"
  /\ Return("merge", merge.dest, Zero, FALSE)
  /\ merge' = [merge EXCEPT !.stale = TRUE]
  /\ UNCHANGED lists

MergeReturn ==
  /\ status = "ok" /\ merge.on /\ merge.i >= merge.end_idx
  /\ merge' = NoMerge
  /\ Return("merged", merge.dest, Zero, ~merge.dropped)
  /\ UNCHANGED <<lists, status>>

Next ==
  \/ \E x \in Lists : Create(x) \/ Destroy(x) \/ Clear(x)
  \/ \E x \in Lists, val \in Val : Add(x, val) \/ RemoveVal(x, val) \/ Find(x, val)
  \/ \E x \in Lists, idx \in 0 .. MaxLen + 1 : Remove(x, idx)
  \/ \E dest, src \in Lists : MergeCall(dest, src)
  \/ MergeAdd
  \/ MergeFault
  \/ MergeReturn

Spec == Init /\ [][Next]_vars

-----------------------------------------------------------------------------
(* The types of the header, and a buffer with the slots that alloc_size    *)
(* pays for.                                                               *)
TypeOK ==
  /\ \A x \in Lists :
       LET l == lists[x] IN
         /\ l.live \in BOOLEAN
         /\ l.alloc_size \in u32
         /\ l.end_idx \in u32
         /\ l.element_size \in {0, ElemSize}
         /\ l.data \in [ (IF l.live THEN Slots(l.alloc_size, l.element_size) ELSE {})
                         -> Val ]
  /\ merge.on \in BOOLEAN
  /\ merge.on => /\ merge.dest \in Lists
                 /\ merge.src \in Lists
                 /\ merge.i \in 0 .. merge.end_idx
  /\ status \in {"ok", "fault", "abort"}

(* A list with a buffer always has one slot to spare, so that end_idx is   *)
(* the index of a slot that exists, and every slot from end_idx on is      *)
(* zero: removing and clearing leave no trace of an element.               *)
SpareZeroTail ==
  \A x \in Lists :
    LET l == lists[x] IN
      /\ l.live => l.end_idx \in SlotsOf(l)
      /\ ~l.live => l.end_idx = 0
      /\ \A i \in SlotsOf(l) : i >= l.end_idx => l.data[i] = Zero

(* Only merging a list into itself can use memory outside the buffers, and *)
(* only from the iteration on that moves the list to a larger one: the     *)
(* element of that iteration is already read from the buffer it freed, and *)
(* the copy of the header keeps pointing there.                            *)
FaultOnlyInSelfMerge ==
  status # "ok" => merge.on /\ merge.src = merge.dest /\ merge.stale

(* list_merge appends the elements of src in order, and all of them, when  *)
(* no allocation fails, even when src is dest and did not have to move.    *)
MergeAppends ==
  (merge.on /\ ~merge.dropped /\ ~merge.stale) =>
    Items(lists[merge.dest]) =
      merge.start \o SubSeq(Items(lists[merge.src]), 1, merge.i)

(* The lists are multisets that every call changes and answers for as      *)
(* list.h says.                                                            *)
Count(l) == [val \in Val |-> Cardinality({i \in 0 .. l.end_idx - 1 : l.data[i] = val})]

Multiset == INSTANCE Multiset WITH count <- [x \in Lists |-> Count(lists[x])]

MultisetSpec == Multiset!Spec

(* "Caller wants to remove an element that isn't used...": list_remove     *)
(* changes nothing when idx is not the index of an element.                *)
RemoveUnusedKeeps ==
  [][\A x \in Lists, idx \in 0 .. MaxLen + 1 :
       Remove(x, idx) /\ idx >= lists[x].end_idx => lists' = lists]_vars

(* "This allocates memory if the list is full": list_add never writes an   *)
(* element outside the buffer.                                             *)
AddStaysInBuffer == ~(status = "fault" /\ call.op = "add")

=============================================================================
