------------------------------- MODULE Queue --------------------------------
(***************************************************************************)
(* The auto-expanding queue of common/queue.c: a heap buffer of 8-byte     *)
(* slots with a front and a back index.  Elements drift towards the end of *)
(* the buffer; when the back is full the queue reclaims the slots freed at *)
(* the front, or, when there are none, moves to a buffer 50% larger.       *)
(*                                                                         *)
(* One queue and the one client that calls it.  Every call returns before  *)
(* the next one starts, so a call is a step; `call` remembers the last one *)
(* and what it returned.  Reading or writing outside the buffer sets       *)
(* `fault`: the program is no longer defined and does nothing more.        *)
(***************************************************************************)
EXTENDS CInt, Sequences

CONSTANTS
  Val,        (* Values of the type queue_element.                          *)
  Zero,       (* The value of a zeroed slot.                                *)
  InitSizes,  (* The sizes in bytes that the client passes to queue_create. *)
  MaxLen,     (* The client adds only while fewer values than this are      *)
              (* queued.                                                    *)
  Careful     (* TRUE when the client tests `data` after queue_create and   *)
              (* queue_empty before queue_get, as no header asks it to.     *)

ASSUME QueueAssumption ==
  /\ Zero \in Val
  /\ InitSizes \subseteq u32
  /\ MaxLen \in Nat
  /\ Careful \in BOOLEAN

VARIABLES
  data,        (* The slots of the buffer: [0 .. Slots - 1 -> Val].  *)
  live,        (* data != NULL                                       *)
  alloc_size,  (* Bytes allocated, not always a multiple of a slot.  *)
  front_idx,
  back_idx,
  call,        (* The last call, its argument or result, and whether *)
               (* it did what it was called for.                     *)
  fault

vars == <<data, live, alloc_size, front_idx, back_idx, call, fault>>

ElemSize == 8  (* sizeof(queue_element) *)

Slots == IF live THEN alloc_size \div ElemSize ELSE 0

Buffer(size) == [0 .. (size \div ElemSize) - 1 -> Val]

NoBuffer == [i \in {} |-> Zero]

(* What a successful calloc(1, size) returns.                              *)
calloc(size) == [i \in 0 .. (size \div ElemSize) - 1 |-> Zero]

-----------------------------------------------------------------------------
(* The predicates of queue.c.                                              *)

queue_maxidx == (alloc_size \div ElemSize) - 1

(* Mutant: compares with the number of slots. *)
FullbackLate == back_idx > queue_maxidx + 1 \/ queue_maxidx < 0

queue_fullback == back_idx >= queue_maxidx \/ queue_maxidx < 0

(* Mutant: no slot at the front is seen until the queue is empty. *)
FullfrontWhileQueued == front_idx < back_idx

queue_fullfront == front_idx = 0

queue_empty == front_idx = back_idx

(* The queued values, oldest first.                                        *)
Length == back_idx - front_idx
Contents == [i \in 1 .. Length |-> data[front_idx + i - 1]]

-----------------------------------------------------------------------------
Calls == [op : {"none", "create", "add", "get", "clear", "contains"},
          val : Val, ok : BOOLEAN]

Return(op, val, ok) ==
  /\ call' = [op |-> op, val |-> val, ok |-> ok]
  /\ fault' = FALSE

(* The call `op` touches memory that is not its own.                       *)
Fault(op, val) ==
  /\ fault' = TRUE
  /\ call' = [op |-> op, val |-> val, ok |-> FALSE]
  /\ UNCHANGED <<data, live, alloc_size, front_idx, back_idx>>

(* The header of the queue: everything but the ghosts.                     *)
Unchanged == UNCHANGED <<data, live, alloc_size, front_idx, back_idx>>

Init ==  \* queue q = {0}
  /\ data = NoBuffer
  /\ live = FALSE
  /\ alloc_size = 0
  /\ front_idx = 0
  /\ back_idx = 0
  /\ call = [op |-> "none", val |-> Zero, ok |-> TRUE]
  /\ fault = FALSE

(* A failed calloc leaves data NULL and alloc_size as asked for.           *)
queue_create(init_size) ==
  /\ live' \in BOOLEAN
  /\ data' = IF live' THEN calloc(init_size) ELSE NoBuffer
  /\ alloc_size' = init_size
  /\ front_idx' = 0
  /\ back_idx' = 0
  /\ Return("create", Zero, live')

(* q->data[q->back_idx++] = val, the buffer being buf and back_idx idx.    *)
Put(buf, idx, val) ==
  /\ data' = [buf EXCEPT ![idx] = val]
  /\ back_idx' = idx + 1
  /\ Return("add", val, TRUE)

(* There is room at the back.                                              *)
AddInPlace(val) ==
  /\ ~queue_fullback
  /\ IF back_idx < Slots
       THEN Put(data, back_idx, val) /\ UNCHANGED <<live, alloc_size, front_idx>>
       ELSE Fault("add", val)

(* How many slots the memmove of a reclaim carries: a u32 number of bytes. *)
MovedSlots == (((back_idx - front_idx) * ElemSize) % U32) \div ElemSize

(* Mutant: moves the slots from the start of the buffer. *)
AddReclaimFromStart(val) ==
  /\ queue_fullback /\ ~queue_fullfront /\ live
  /\ Put([i \in 0 .. Slots - 1 |-> IF i < MovedSlots THEN data[i] ELSE Zero],
         back_idx - front_idx, val)
  /\ front_idx' = 0
  /\ UNCHANGED <<live, alloc_size>>

(* The slots freed at the front are reclaimed: the values move to the      *)
(* start of the buffer and the rest of it is zeroed.                       *)
AddReclaim(val) ==
  /\ queue_fullback
  /\ ~queue_fullfront
  /\ live
  /\ IF front_idx + MovedSlots <= Slots
       THEN /\ Put([i \in 0 .. Slots - 1 |->
                     IF i < MovedSlots THEN data[front_idx + i] ELSE Zero],
                   back_idx - front_idx, val)
            /\ front_idx' = 0
            /\ UNCHANGED <<live, alloc_size>>
       ELSE Fault("add", val)

(* Mutant: forgets the size of the new buffer. *)
AddGrowKeepsSize(val) ==
  /\ queue_fullback /\ (queue_fullfront \/ ~live)
  /\ \E newsize \in GrownSizes(alloc_size, ElemSize) :
       Put([i \in 0 .. (newsize \div ElemSize) - 1 |->
             IF i < Slots THEN data[i] ELSE Zero],
           back_idx, val)
  /\ live' = TRUE
  /\ UNCHANGED <<alloc_size, front_idx>>

(* The buffer is completely full: the values are copied into a larger one. *)
(* memcpy copies alloc_size bytes, whatever the new size came out as.      *)
AddGrow(val) ==
  /\ queue_fullback
  /\ queue_fullfront \/ ~live
  /\ \E newsize \in GrownSizes(alloc_size, ElemSize) :
       IF newsize >= alloc_size /\ (live \/ alloc_size = 0)
                                /\ back_idx < newsize \div ElemSize
         THEN /\ Put([i \in 0 .. (newsize \div ElemSize) - 1 |->
                       IF i < Slots THEN data[i] ELSE Zero],
                     back_idx, val)
              /\ live' = TRUE
              /\ alloc_size' = newsize
              /\ UNCHANGED front_idx
         ELSE Fault("add", val)

(* Mutant: asks for memory before it looks for slots at the front. *)
AddDroppedEarly(val) ==
  /\ queue_fullback
  /\ Return("add", val, FALSE)
  /\ Unchanged

(* calloc returned NULL: the value is dropped and the caller is not told.  *)
AddDropped(val) ==
  /\ queue_fullback
  /\ queue_fullfront \/ ~live
  /\ Return("add", val, FALSE)
  /\ Unchanged

queue_add(val) ==
  \/ AddInPlace(val)
  \/ AddReclaim(val)
  \/ AddGrow(val)
  \/ AddDropped(val)

(* There is not enough buffer for a read: the queue answers 0.             *)
GetNothing ==
  /\ alloc_size < ElemSize \/ ~live
  /\ Return("get", Zero, FALSE)
  /\ Unchanged

(* Mutant: an emptied queue stays where it is. *)
GetNoReset ==
  /\ alloc_size >= ElemSize /\ live /\ front_idx < Slots
  /\ Return("get", data[front_idx], TRUE)
  /\ front_idx' = front_idx + 1
  /\ UNCHANGED <<data, live, alloc_size, back_idx>>

(* The value at front_idx; a queue that this empties starts over at slot 0. *)
GetValue ==
  /\ alloc_size >= ElemSize /\ live
  /\ front_idx < Slots
  /\ Return("get", data[front_idx], TRUE)
  /\ IF front_idx + 1 = back_idx
       THEN front_idx' = 0 /\ back_idx' = 0
       ELSE front_idx' = front_idx + 1 /\ back_idx' = back_idx
  /\ UNCHANGED <<data, live, alloc_size>>

GetFault ==
  /\ alloc_size >= ElemSize /\ live
  /\ front_idx >= Slots
  /\ Fault("get", Zero)

queue_get == GetNothing \/ GetValue \/ GetFault

queue_clear ==
  IF live \/ alloc_size = 0
    THEN /\ data' = IF live THEN calloc(alloc_size) ELSE NoBuffer
         /\ front_idx' = 0
         /\ back_idx' = 0
         /\ Return("clear", Zero, TRUE)
         /\ UNCHANGED <<live, alloc_size>>
    ELSE Fault("clear", Zero)

(* Mutant: the loop misses the front. *)
SearchedAfterFront == front_idx + 1 .. back_idx

(* The slots that the loop of queue_contains visits: back_idx included.    *)
SearchedSlots == front_idx .. back_idx

(* The loop stops at the first match.  Without one it also reads the slot  *)
(* at back_idx, which is past the end of a buffer filled to the last slot: *)
(* the read faults or finds whatever lies there.                           *)
queue_contains(val) ==
  /\ \/ /\ \E i \in SearchedSlots : i < Slots /\ data[i] = val
        /\ Return("contains", val, TRUE)
        /\ Unchanged
     \/ /\ \A i \in SearchedSlots : i < Slots /\ data[i] # val
        /\ Return("contains", val, FALSE)
        /\ Unchanged
     \/ /\ \A i \in SearchedSlots : i < Slots => data[i] # val
        /\ \E i \in SearchedSlots : i >= Slots
        /\ \/ Fault("contains", val)
           \/ \E found \in BOOLEAN : Return("contains", val, found) /\ Unchanged

-----------------------------------------------------------------------------
(* What the client may call: nothing once the program is undefined.        *)
MayUse == ~fault /\ (Careful => live \/ alloc_size = 0)
MayAdd == MayUse /\ Length < MaxLen
MayGet == MayUse /\ (Careful => ~queue_empty)

Next ==
  \/ \E init_size \in InitSizes : ~fault /\ queue_create(init_size)
  \/ \E val \in Val : MayAdd /\ queue_add(val)
  \/ MayGet /\ queue_get
  \/ MayUse /\ queue_clear
  \/ \E val \in Val : MayUse /\ queue_contains(val)

Spec == Init /\ [][Next]_vars

-----------------------------------------------------------------------------
(* The largest buffer that queue_add can ask for, and the condition that a *)
(* u32 can say its size.                                                   *)
LargestGrowth == ALIGN_UP(HalfAgain(ElemSize * (MaxLen + 1) - 1), ElemSize)
WordFits == LargestGrowth < U32

(* Every variable keeps its C type, and the buffer has the slots that its  *)
(* size pays for: data and alloc_size are always replaced together.        *)
TypeOK ==
  /\ live \in BOOLEAN
  /\ alloc_size \in u32
  /\ data \in (IF live THEN Buffer(alloc_size) ELSE [{} -> Val])
  /\ front_idx \in u32
  /\ back_idx \in u32
  /\ call \in Calls
  /\ fault \in BOOLEAN

(* Used as queue_create and queue_empty allow, the only call of queue.c    *)
(* that leaves the buffer is queue_contains, whose loop runs to back_idx   *)
(* included, and only when the last slot is taken or there is no buffer.   *)
FaultOnlyInContains ==
  fault => call.op = "contains" /\ back_idx = Slots

(* The indices stay in the buffer in the right order, and an empty queue   *)
(* is always one that queue_get and queue_clear reset to slot 0, so that   *)
(* queue_fullfront means "no slot to reclaim".                             *)
Shape ==
  /\ 0 <= front_idx
  /\ front_idx <= back_idx
  /\ back_idx <= Slots
  /\ front_idx = back_idx => front_idx = 0

(* queue_add loses a value only to an allocation failure in a queue with   *)
(* no slot left but the last one: never while slots freed at the front can *)
(* be reclaimed.                                                           *)
DropOnlyWhenFull ==
  (call.op = "add" /\ ~call.ok /\ ~fault) => Length >= Slots - 1

(* The buffer grows with the number of values queued at once and not with  *)
(* the number that ever went through the queue: slots at the front are     *)
(* reclaimed before queue_add asks for more memory.                        *)
BoundedMemory ==
  \/ alloc_size \in InitSizes \cup {0}
  \/ alloc_size <= LargestGrowth

(* The values come out in the order they went in, across reclaims, growths *)
(* and resets of the indices.                                              *)
Out == IF call.op = "get" THEN call.val ELSE Zero

Fifo == INSTANCE Fifo WITH items <- Contents, out <- Out

FifoSpec == Fifo!Spec

(* The size that queue_add would grow to is past the word, or its ALIGN_UP *)
(* is: newsize is then less than alloc_size, which memcpy copies.          *)
GrowthWraps == ALIGN_UP(HalfAgain(alloc_size), ElemSize) >= U32

(* Whatever the client does, and however large the queue becomes: a fault  *)
(* always has one of four causes, a buffer that was never allocated, a     *)
(* queue_get that moved front_idx past back_idx, queue_contains on a queue *)
(* filled to its last slot, or a growth past 2^32 bytes.  No other         *)
(* sequence of calls reaches memory outside the buffer.                    *)
FaultHasCause ==
  fault => \/ ~live
           \/ front_idx > back_idx
           \/ call.op = "contains" /\ back_idx = Slots
           \/ call.op = "add" /\ GrowthWraps

(* "Retreiving from an empty queue should fail": it returns 0 and leaves   *)
(* the queue as it was.                                                    *)
GetOnEmptyFails ==
  [][queue_empty /\ call'.op = "get" => call'.val = Zero /\ Unchanged]_vars

(* queue_contains never misses a value that is in the queue.               *)
ContainsComplete ==
  [][\A i \in 1 .. Length :
       (call'.op = "contains" /\ ~call'.ok) => call'.val # Contents[i]]_vars

=============================================================================
