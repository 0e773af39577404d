----------------------------- MODULE QueueProofs ----------------------------
(***************************************************************************)
(* Proofs about the queue for every set of values, every set of initial    *)
(* sizes and every number of queued values whose buffer a u32 can size.    *)
(***************************************************************************)
EXTENDS Queue, SequenceTheorems, TLAPS

(***************************************************************************)
(* Arithmetic.                                                             *)
(***************************************************************************)

(* ALIGN_UP moves to the next multiple of a slot, by a whole slot at most. *)
LEMMA AlignUp ==
  ASSUME NEW x \in Nat
  PROVE  /\ ALIGN_UP(x, ElemSize) \in Nat
         /\ ALIGN_UP(x, ElemSize) > x
         /\ ALIGN_UP(x, ElemSize) <= x + ElemSize
         /\ ALIGN_UP(x, ElemSize) = ElemSize * ((x \div ElemSize) + 1)
BY DEF ALIGN_UP, ElemSize

(* The next multiple of a slot is monotonic.                               *)
LEMMA AlignUpMonotonic ==
  ASSUME NEW x \in Nat, NEW y \in Nat, x <= y
  PROVE  ALIGN_UP(x, ElemSize) <= ALIGN_UP(y, ElemSize)
BY DEF ALIGN_UP, ElemSize

(* What `newsize` is for a buffer of at most MaxLen slots whose growth a    *)
(* u32 can size: no conversion wraps, and the new buffer has room for the  *)
(* old one and a value more.                                               *)
LEMMA Growth ==
  ASSUME MaxLen \in Nat, U32 \in Nat \ {0},
         NEW size \in Nat, size <= ElemSize * (MaxLen + 1) - 1,
         ALIGN_UP(HalfAgain(size), ElemSize) < U32,
         NEW newsize \in GrownSizes(size, ElemSize)
  PROVE  /\ newsize \in u32
         /\ newsize <= LargestGrowth
         /\ newsize >= size
         /\ newsize \div ElemSize > size \div ElemSize
<1> DEFINE top == ElemSize * (MaxLen + 1) - 1
<1>1. top \in Nat /\ HalfAgain(top) \in Nat /\ HalfAgain(size) \in Nat
  BY DEF HalfAgain, ElemSize
<1>2. HalfAgain(size) <= HalfAgain(top)
  BY DEF HalfAgain, ElemSize
<1>3. ALIGN_UP(HalfAgain(size), ElemSize) <= LargestGrowth
  BY <1>1, <1>2, AlignUpMonotonic DEF LargestGrowth
<1>4. HalfAgain(size) < U32 /\ ALIGN_UP(HalfAgain(size), ElemSize) \in u32
  BY <1>1, AlignUp DEF u32
<1>5. newsize = ALIGN_UP(HalfAgain(size), ElemSize) % U32
  BY <1>4 DEF GrownSizes, DoubleToU32
<1>6. newsize = ALIGN_UP(HalfAgain(size), ElemSize)
  BY <1>4, <1>5 DEF u32
<1>7. HalfAgain(size) >= size
  BY DEF HalfAgain
<1>8. newsize = ElemSize * ((HalfAgain(size) \div ElemSize) + 1) /\ newsize > HalfAgain(size)
  BY <1>1, <1>6, AlignUp
<1>9. newsize \div ElemSize = (HalfAgain(size) \div ElemSize) + 1
  BY <1>1, <1>8 DEF ElemSize
<1>10. HalfAgain(size) \div ElemSize >= size \div ElemSize
  BY <1>1, <1>7 DEF ElemSize
<1>11. newsize \div ElemSize > size \div ElemSize
  BY <1>1, <1>9, <1>10 DEF ElemSize
<1>12. newsize >= size
  BY <1>1, <1>4, <1>6, <1>7, <1>8 DEF u32
<1> QED
  BY <1>3, <1>4, <1>6, <1>11, <1>12

(* A wide enough word sizes every growth of such a buffer.                 *)
LEMMA WideEnough ==
  ASSUME WordFits, MaxLen \in Nat,
         NEW size \in Nat, size <= ElemSize * (MaxLen + 1) - 1
  PROVE  ALIGN_UP(HalfAgain(size), ElemSize) < U32
<1> DEFINE top == ElemSize * (MaxLen + 1) - 1
<1>1. HalfAgain(top) \in Nat /\ HalfAgain(size) \in Nat /\ HalfAgain(size) <= HalfAgain(top)
  BY DEF HalfAgain, ElemSize
<1>2. ALIGN_UP(HalfAgain(size), ElemSize) <= LargestGrowth
  BY <1>1, AlignUpMonotonic DEF LargestGrowth
<1>3. LargestGrowth \in Nat /\ ALIGN_UP(HalfAgain(size), ElemSize) \in Nat
  BY <1>1, AlignUp DEF LargestGrowth
<1>4. LargestGrowth < U32
  BY DEF WordFits
<1> QED
  BY <1>2, <1>3, <1>4, U32Assumption

(* A word holds a whole number of slots.                                   *)
WordOfSlots == U32 % ElemSize = 0

(* A number between the word and twice the word wraps once.                *)
LEMMA WrapsOnce ==
  ASSUME NEW w \in Nat \ {0}, NEW r \in 0 .. w - 1
  PROVE  (w + r) % w = r
<1> DEFINE q == (w + r) \div w
           s == (w + r) % w
<1>1. q \in Nat /\ s \in 0 .. w - 1 /\ w + r = (w * q) + s
  OBVIOUS
<1> HIDE DEF q, s
<1>2. ASSUME q >= 2 PROVE FALSE
  <2>1. PICK d \in Nat : q = 2 + d
    <3>1. q - 2 \in Nat /\ q = 2 + (q - 2)
      BY <1>1, <1>2
    <3> QED
      BY <3>1
  <2>2. w * q = (w + w) + (w * d) /\ w * d \in Nat
    BY <2>1
  <2> QED
    BY <1>1, <2>2
<1>3. CASE q = 0
  BY <1>1, <1>3
<1>4. CASE q = 1
  <2>1. s = r
    BY <1>1, <1>4
  <2> QED
    BY <2>1 DEF s
<1> QED
  BY <1>1, <1>2, <1>3, <1>4

(* A growth past the word: whatever the conversion of the double makes of  *)
(* it, the new buffer is smaller than the old one, or has no slot at all.  *)
LEMMA GrowthPast ==
  ASSUME WordOfSlots, U32 \in Nat \ {0}, NEW size \in 0 .. U32 - 1,
         ALIGN_UP(HalfAgain(size), ElemSize) >= U32,
         NEW newsize \in GrownSizes(size, ElemSize)
  PROVE  newsize \in Nat /\ (newsize < size \/ newsize = 0)
<1> DEFINE words == U32 \div ElemSize
           half == size \div 2
<1>1. /\ words \in Nat \ {0} /\ U32 = ElemSize * words
      /\ half \in 0 .. size /\ half <= 4 * words - 1
      /\ HalfAgain(size) = size + half
  BY DEF WordOfSlots, ElemSize, HalfAgain
<1> HIDE DEF words, half
<1>2. PICK d \in DoubleToU32(HalfAgain(size)) : newsize = ALIGN_UP(d, ElemSize) % U32
  BY DEF GrownSizes
<1>3. \A x \in 0 .. U32 - 1 :
        ALIGN_UP(x, ElemSize) >= U32 => ALIGN_UP(x, ElemSize) = U32
  BY <1>1 DEF ALIGN_UP, ElemSize
<1>4. U32 % U32 = 0
  OBVIOUS
<1>5. CASE HalfAgain(size) < U32
  <2>1. HalfAgain(size) \in 0 .. U32 - 1 /\ d = HalfAgain(size)
    BY <1>1, <1>2, <1>5 DEF DoubleToU32
  <2> QED
    BY <1>2, <1>3, <1>4, <2>1
<1>6. CASE HalfAgain(size) >= U32 /\ d = U32 - 1
  <2>1. ALIGN_UP(d, ElemSize) = U32
    BY <1>1, <1>6 DEF ALIGN_UP, ElemSize
  <2> QED
    BY <1>2, <1>4, <2>1
<1>7. CASE HalfAgain(size) >= U32 /\ d = HalfAgain(size) % U32
  <2>1. d = size + half - U32 /\ d \in Nat
    <3>1. size + half - U32 \in 0 .. U32 - 1
      BY <1>1, <1>7
    <3>2. (U32 + (size + half - U32)) % U32 = size + half - U32
      BY <3>1, WrapsOnce
    <3>3. U32 + (size + half - U32) = HalfAgain(size)
      BY <1>1
    <3> QED
      BY <1>7, <3>1, <3>2, <3>3
  <2>2. ALIGN_UP(d, ElemSize) \in Nat /\ ALIGN_UP(d, ElemSize) <= d + ElemSize
    BY <2>1, AlignUp
  <2>3. CASE words = 1
    <3>1. d <= 2 /\ U32 = 8
      BY <1>1, <2>1, <2>3 DEF ElemSize
    <3>2. ALIGN_UP(d, ElemSize) = U32
      BY <2>1, <3>1 DEF ALIGN_UP, ElemSize
    <3> QED
      BY <1>2, <1>4, <3>2
  <2>4. CASE words >= 2
    <3>1. ALIGN_UP(d, ElemSize) < size
      BY <1>1, <2>1, <2>2, <2>4 DEF ElemSize
    <3>2. newsize = ALIGN_UP(d, ElemSize)
      BY <1>2, <2>2, <3>1
    <3> QED
      BY <2>2, <3>1, <3>2
  <2> QED
    BY <1>1, <2>3, <2>4
<1> QED
  BY <1>1, <1>2, <1>5, <1>6, <1>7 DEF DoubleToU32

(***************************************************************************)
(* The inductive invariant.  Each conjunct needs the others: a reclaim is  *)
(* in bounds because the indices are ordered, a growth is exact because a  *)
(* full buffer has no more slots than the client has values, and an empty  *)
(* queue starts at slot 0 because no call of a careful client moves        *)
(* front_idx past back_idx.                                                *)
(***************************************************************************)
Inv ==
  /\ TypeOK
  /\ FaultOnlyInContains
  /\ Shape
  /\ DropOnlyWhenFull
  /\ BoundedMemory

(* The ghosts after a call returned.                                      *)
LEMMA ReturnType ==
  ASSUME NEW op \in {"create", "add", "get", "clear", "contains"},
         NEW val \in Val, NEW ok \in BOOLEAN, Return(op, val, ok)
  PROVE  /\ call' \in Calls
         /\ call'.op = op /\ call'.val = val /\ call'.ok = ok
         /\ fault' = FALSE
BY DEF Return, Calls

(* A call that changes the header of the queue in nothing and does not     *)
(* drop a value keeps the invariant.                                       *)
LEMMA UnchangedInv ==
  ASSUME Inv, Unchanged, NEW op \in {"get", "contains"},
         NEW val \in Val, NEW ok \in BOOLEAN, Return(op, val, ok)
  PROVE  Inv'
<1>1. call' \in Calls /\ call'.op = op /\ fault' = FALSE
  BY ReturnType
<1>2. Slots' = Slots /\ Length' = Length
  BY DEF Unchanged, Slots, Length
<1> QED
  BY <1>1, <1>2 DEF Inv, Unchanged, TypeOK, FaultOnlyInContains, Shape,
     DropOnlyWhenFull, BoundedMemory, Buffer

(* A zeroed queue satisfies the invariant.                                *)
LEMMA InitInv ==
  ASSUME Init
  PROVE  Inv
<1>1. 0 \in u32 /\ Zero \in Val
  BY U32Assumption, QueueAssumption DEF u32
<1>2. data \in [{} -> Val] /\ ~live
  BY DEF Init, NoBuffer
<1>3. TypeOK
  BY <1>1, <1>2 DEF Init, TypeOK, Calls
<1>4. FaultOnlyInContains /\ Shape
  BY DEF Init, FaultOnlyInContains, Shape, Slots
<1>5. DropOnlyWhenFull /\ BoundedMemory
  BY DEF Init, DropOnlyWhenFull, BoundedMemory
<1> QED
  BY <1>3, <1>4, <1>5 DEF Inv

(* So does one that queue_create returned, NULL or not.                   *)
LEMMA CreateInv ==
  ASSUME NEW init_size \in InitSizes, queue_create(init_size)
  PROVE  Inv'
<1>1. init_size \in u32 /\ Zero \in Val
  BY QueueAssumption
<1>2. live' \in BOOLEAN
  BY DEF queue_create
<1>3. call' \in Calls /\ call'.op = "create" /\ fault' = FALSE
  BY <1>1, <1>2, ReturnType DEF queue_create
<1>4. data' \in (IF live' THEN Buffer(alloc_size') ELSE [{} -> Val])
  BY <1>1 DEF queue_create, calloc, NoBuffer, Buffer
<1>5. front_idx' = 0 /\ back_idx' = 0 /\ alloc_size' = init_size
  BY DEF queue_create
<1>6. Slots' \in Nat
  BY <1>1, <1>5 DEF Slots, ElemSize, u32
<1>7. TypeOK'
  <2>1. alloc_size' \in u32 /\ front_idx' \in u32 /\ back_idx' \in u32
    BY U32Assumption, <1>1, <1>5 DEF u32
  <2>2. fault' \in BOOLEAN
    BY <1>3, Zenon
  <2> QED
    BY <2>1, <2>2, <1>2, <1>3, <1>4, Zenon DEF TypeOK
<1>8. Shape'
  BY <1>5, <1>6 DEF Shape
<1>9. FaultOnlyInContains' /\ DropOnlyWhenFull'
  BY <1>3 DEF FaultOnlyInContains, DropOnlyWhenFull
<1>10. BoundedMemory'
  BY <1>5 DEF BoundedMemory
<1> QED
  BY <1>7, <1>8, <1>9, <1>10 DEF Inv

(* A call that did what it was called for satisfies what the invariant     *)
(* says of the last call.                                                  *)
LEMMA DoneInv ==
  ASSUME NEW op \in {"create", "add", "get", "clear", "contains"},
         NEW val \in Val, Return(op, val, TRUE)
  PROVE  FaultOnlyInContains' /\ DropOnlyWhenFull'
<1>1. call'.ok = TRUE /\ fault' = FALSE
  BY ReturnType
<1> QED
  BY <1>1, Zenon DEF FaultOnlyInContains, DropOnlyWhenFull

(* The slots fit in the allocated bytes, whose number is a u32.            *)
LEMMA SlotsFit ==
  ASSUME TypeOK
  PROVE  /\ Slots \in Nat
         /\ ElemSize * Slots <= alloc_size
         /\ alloc_size < ElemSize * (Slots + 1) \/ ~live
         /\ alloc_size \in Nat /\ alloc_size < U32
         /\ front_idx \in Nat /\ back_idx \in Nat
         /\ live => data \in [0 .. Slots - 1 -> Val]
<1>1. alloc_size \in u32 /\ front_idx \in u32 /\ back_idx \in u32
  BY DEF TypeOK
<1>2. alloc_size \in Nat /\ alloc_size < U32 /\ front_idx \in Nat /\ back_idx \in Nat
  BY <1>1, U32Assumption DEF u32
<1>3. live => data \in [0 .. Slots - 1 -> Val]
  BY DEF TypeOK, Buffer, Slots
<1>4. Slots \in Nat /\ ElemSize * Slots <= alloc_size
  BY <1>2 DEF Slots, ElemSize
<1>5. alloc_size < ElemSize * (Slots + 1) \/ ~live
  BY <1>2 DEF Slots, ElemSize
<1> QED
  BY <1>2, <1>3, <1>4, <1>5

(* Put writes inside the buffer buf, which holds n slots.                  *)
LEMMA PutType ==
  ASSUME NEW n \in Nat, NEW buf \in [0 .. n - 1 -> Val], NEW idx \in 0 .. n - 1,
         NEW val \in Val, Put(buf, idx, val)
  PROVE  /\ data' \in [0 .. n - 1 -> Val]
         /\ back_idx' = idx + 1
         /\ call' \in Calls
         /\ fault' = FALSE
         /\ FaultOnlyInContains' /\ DropOnlyWhenFull'
<1>1. data' = [buf EXCEPT ![idx] = val] /\ back_idx' = idx + 1 /\ Return("add", val, TRUE)
  BY DEF Put
<1>2. data' \in [0 .. n - 1 -> Val]
  BY <1>1
<1> QED
  BY <1>1, <1>2, ReturnType, DoneInv

(* There is room at the back: the write is inside the buffer.             *)
LEMMA InPlaceInv ==
  ASSUME Careful, Inv, MayAdd, NEW val \in Val, AddInPlace(val)
  PROVE  /\ Inv'
         /\ live /\ back_idx < Slots
         /\ Put(data, back_idx, val) /\ front_idx' = front_idx
<1>1. TypeOK /\ Shape /\ BoundedMemory
  BY DEF Inv
<1>2. live /\ back_idx < Slots
  <2>1. live \/ alloc_size = 0
    BY DEF MayAdd, MayUse
  <2>2. back_idx < (alloc_size \div ElemSize) - 1
    BY <1>1, SlotsFit DEF AddInPlace, queue_fullback, queue_maxidx, ElemSize
  <2>3. alloc_size # 0
    BY <1>1, <2>2, SlotsFit DEF ElemSize
  <2> QED
    BY <1>1, <2>1, <2>2, <2>3, SlotsFit DEF Slots, ElemSize
<1>3. Put(data, back_idx, val) /\ UNCHANGED <<live, alloc_size, front_idx>>
  BY <1>2 DEF AddInPlace
<1>4. Slots' = Slots
  BY <1>3 DEF Slots
<1>5. /\ data' \in [0 .. Slots - 1 -> Val]
      /\ back_idx' = back_idx + 1
      /\ call' \in Calls
      /\ fault' = FALSE
      /\ FaultOnlyInContains' /\ DropOnlyWhenFull'
  <2>1. Slots \in Nat /\ data \in [0 .. Slots - 1 -> Val] /\ back_idx \in 0 .. Slots - 1
    BY <1>1, <1>2, SlotsFit
  <2> QED
    BY <1>3, <2>1, PutType
<1>6. TypeOK'
  <2>1. back_idx' \in u32
    BY <1>1, <1>2, <1>5, U32Assumption, SlotsFit DEF u32, ElemSize
  <2>2. data' \in Buffer(alloc_size')
    BY <1>2, <1>3, <1>5 DEF Buffer, Slots
  <2>3. live' = live /\ alloc_size' = alloc_size /\ front_idx' = front_idx
    BY <1>3
  <2> QED
    BY <1>1, <1>2, <1>5, <2>1, <2>2, <2>3, Zenon DEF TypeOK
<1>7. Shape'
  BY <1>1, <1>2, <1>3, <1>4, <1>5, SlotsFit DEF Shape
<1>8. BoundedMemory'
  BY <1>1, <1>3 DEF BoundedMemory
<1>9. Inv'
  BY <1>5, <1>6, <1>7, <1>8 DEF Inv
<1> QED
  BY <1>2, <1>3, <1>9

(* Slots are reclaimed: the memmove stays inside the buffer, nothing       *)
(* wraps, and the value goes to the slot behind the values moved.          *)
LEMMA ReclaimInv ==
  ASSUME Careful, Inv, MayAdd, NEW val \in Val, AddReclaim(val)
  PROVE  /\ Inv'
         /\ front_idx > 0 /\ front_idx' = 0 /\ back_idx - front_idx < Slots
         /\ MovedSlots = back_idx - front_idx
         /\ Put([i \in 0 .. Slots - 1 |->
                   IF i < MovedSlots THEN data[front_idx + i] ELSE Zero],
                back_idx - front_idx, val)
<1> DEFINE moved == [i \in 0 .. Slots - 1 |->
                      IF i < MovedSlots THEN data[front_idx + i] ELSE Zero]
<1>1. TypeOK /\ Shape /\ BoundedMemory
  BY DEF Inv
<1>2. live /\ front_idx > 0 /\ front_idx <= back_idx /\ back_idx <= Slots
  BY <1>1, SlotsFit DEF AddReclaim, queue_fullfront, Shape
<1>3. back_idx - front_idx \in 0 .. Slots - 1
  BY <1>1, <1>2, SlotsFit
<1>4. MovedSlots = back_idx - front_idx
  <2>1. (back_idx - front_idx) * ElemSize \in 0 .. U32 - 1
    BY <1>1, <1>3, SlotsFit, U32Assumption DEF ElemSize
  <2>2. ((back_idx - front_idx) * ElemSize) % U32 = (back_idx - front_idx) * ElemSize
    BY <2>1, U32Assumption
  <2> QED
    BY <1>3, <2>2 DEF MovedSlots, ElemSize
<1>5. moved \in [0 .. Slots - 1 -> Val]
  <2>1. \A i \in 0 .. Slots - 1 : i < MovedSlots => data[front_idx + i] \in Val
    BY <1>1, <1>2, <1>4, SlotsFit
  <2> QED
    BY <2>1, QueueAssumption
<1>6. Put(moved, back_idx - front_idx, val) /\ front_idx' = 0 /\ UNCHANGED <<live, alloc_size>>
  <2>1. front_idx + MovedSlots <= Slots
    BY <1>1, <1>2, <1>4, SlotsFit
  <2> QED
    BY <2>1 DEF AddReclaim
<1>7. Slots' = Slots
  BY <1>6 DEF Slots
<1>8. /\ data' \in [0 .. Slots - 1 -> Val]
      /\ back_idx' = back_idx - front_idx + 1
      /\ call' \in Calls
      /\ fault' = FALSE
      /\ FaultOnlyInContains' /\ DropOnlyWhenFull'
  <2> HIDE DEF moved
  <2>1. Slots \in Nat
    BY <1>1, SlotsFit
  <2> QED
    BY <2>1, <1>3, <1>5, <1>6, PutType
<1>9. TypeOK'
  <2>1. back_idx' \in u32 /\ front_idx' \in u32
    BY <1>1, <1>3, <1>6, <1>8, U32Assumption, SlotsFit DEF u32, ElemSize
  <2>2. data' \in Buffer(alloc_size')
    BY <1>2, <1>6, <1>8 DEF Buffer, Slots
  <2>3. live' = live /\ alloc_size' = alloc_size
    BY <1>6
  <2> QED
    BY <1>1, <1>2, <1>8, <2>1, <2>2, <2>3, Zenon DEF TypeOK
<1>10. Shape'
  BY <1>1, <1>3, <1>6, <1>7, <1>8, SlotsFit DEF Shape
<1>11. BoundedMemory'
  BY <1>1, <1>6 DEF BoundedMemory
<1>12. Inv'
  BY <1>8, <1>9, <1>10, <1>11 DEF Inv
<1>13. back_idx - front_idx < Slots
  BY <1>1, <1>3, SlotsFit
<1> QED
  BY <1>2, <1>4, <1>6, <1>12, <1>13, Zenon

(* The buffer that queue_add outgrows holds at most MaxLen slots, so that  *)
(* the new size is exact and has room for a value more.                    *)
LEMMA GrowSizes ==
  ASSUME Careful, WordFits, Inv, MayAdd, queue_fullback, queue_fullfront \/ ~live,
         NEW newsize \in GrownSizes(alloc_size, ElemSize)
  PROVE  /\ newsize \in u32
         /\ newsize <= LargestGrowth
         /\ newsize >= alloc_size
         /\ Slots < newsize \div ElemSize
         /\ front_idx = 0
<1>1. TypeOK /\ Shape /\ (live \/ alloc_size = 0) /\ Length < MaxLen
  BY DEF Inv, MayAdd, MayUse
<1>2. Slots = alloc_size \div ElemSize
  BY <1>1, SlotsFit DEF Slots, ElemSize
<1>3. front_idx = 0
  BY <1>1, <1>2, SlotsFit DEF Shape, queue_fullfront, ElemSize, Slots
<1>4. Slots - 1 <= back_idx
  BY <1>1, <1>2, SlotsFit DEF queue_fullback, queue_maxidx
<1>5. Slots <= MaxLen
  BY <1>1, <1>3, <1>4, SlotsFit, QueueAssumption DEF Length
<1>6. alloc_size \in Nat /\ alloc_size <= ElemSize * (MaxLen + 1) - 1
  BY <1>1, <1>2, <1>5, SlotsFit, QueueAssumption DEF ElemSize
<1>7. MaxLen \in Nat
  BY QueueAssumption
<1>8. /\ newsize \in u32
      /\ newsize <= LargestGrowth
      /\ newsize >= alloc_size
      /\ newsize \div ElemSize > alloc_size \div ElemSize
  BY <1>6, <1>7, U32Assumption, Growth, WideEnough
<1>10. Slots < newsize \div ElemSize
  BY <1>2, <1>6, <1>8, U32Assumption DEF u32, ElemSize
<1> QED
  BY <1>3, <1>8, <1>10

(* The queue moves to a larger buffer, which the new value fits in.        *)
LEMMA GrowInv ==
  ASSUME Careful, WordFits, Inv, MayAdd, NEW val \in Val, AddGrow(val)
  PROVE  /\ Inv'
         /\ front_idx = 0 /\ front_idx' = 0
         /\ \E n \in Nat :
              /\ Slots < n
              /\ Put([i \in 0 .. n - 1 |-> IF i < Slots THEN data[i] ELSE Zero],
                     back_idx, val)
<1>1. TypeOK /\ Shape /\ (live \/ alloc_size = 0)
  BY DEF Inv, MayAdd, MayUse
<1>2. queue_fullback /\ (queue_fullfront \/ ~live)
  BY DEF AddGrow
<1>3. PICK newsize \in GrownSizes(alloc_size, ElemSize) :
        IF newsize >= alloc_size /\ (live \/ alloc_size = 0)
                                 /\ back_idx < newsize \div ElemSize
          THEN /\ Put([i \in 0 .. (newsize \div ElemSize) - 1 |->
                        IF i < Slots THEN data[i] ELSE Zero],
                      back_idx, val)
               /\ live' = TRUE
               /\ alloc_size' = newsize
               /\ UNCHANGED front_idx
          ELSE Fault("add", val)
  BY DEF AddGrow
<1> DEFINE n == newsize \div ElemSize
<1> DEFINE copy == [i \in 0 .. n - 1 |-> IF i < Slots THEN data[i] ELSE Zero]
<1>4. /\ newsize \in u32
      /\ newsize <= LargestGrowth
      /\ newsize >= alloc_size
      /\ Slots < n
      /\ front_idx = 0
  BY <1>2, GrowSizes
<1>5. n \in Nat /\ back_idx \in 0 .. n - 1
  BY <1>1, <1>4, SlotsFit, U32Assumption DEF Shape, u32, ElemSize
<1>6. back_idx < n
  BY <1>5
<1>7. Put(copy, back_idx, val) /\ live' = TRUE /\ alloc_size' = newsize /\ front_idx' = front_idx
  BY <1>1, <1>3, <1>4, <1>6
<1>8. copy \in [0 .. n - 1 -> Val]
  <2>1. \A i \in 0 .. n - 1 : i < Slots => data[i] \in Val
    <3>1. live \/ Slots = 0
      BY DEF Slots
    <3> QED
      BY <1>1, <1>5, <3>1, SlotsFit
  <2> QED
    BY <2>1, QueueAssumption
<1> HIDE DEF copy
<1>9. /\ data' \in [0 .. n - 1 -> Val]
      /\ back_idx' = back_idx + 1
      /\ call' \in Calls
      /\ fault' = FALSE
      /\ FaultOnlyInContains' /\ DropOnlyWhenFull'
  BY <1>5, <1>7, <1>8, PutType
<1>10. Slots' = n
  BY <1>7 DEF Slots
<1>11. TypeOK'
  <2>1. back_idx' \in u32 /\ front_idx' \in u32 /\ alloc_size' \in u32
    <3>1. n < U32
      BY <1>4, U32Assumption DEF u32, ElemSize
    <3>2. back_idx' \in u32
      BY <1>1, <1>5, <1>9, <3>1, U32Assumption, SlotsFit DEF u32
    <3>3. front_idx' \in u32
      BY <1>4, <1>7, U32Assumption DEF u32
    <3> QED
      BY <1>4, <1>7, <3>2, <3>3
  <2>2. data' \in Buffer(alloc_size')
    BY <1>7, <1>9 DEF Buffer
  <2> QED
    BY <1>7, <1>9, <2>1, <2>2, Zenon DEF TypeOK
<1>12. Shape'
  BY <1>1, <1>4, <1>5, <1>7, <1>9, <1>10, SlotsFit DEF Shape
<1>13. BoundedMemory'
  BY <1>4, <1>7 DEF BoundedMemory
<1>14. Inv'
  BY <1>9, <1>11, <1>12, <1>13 DEF Inv
<1>15. \E k \in Nat :
         /\ Slots < k
         /\ Put([i \in 0 .. k - 1 |-> IF i < Slots THEN data[i] ELSE Zero],
                back_idx, val)
  <2>1. n \in Nat /\ Slots < n
    BY <1>4, <1>5
  <2>2. Put([i \in 0 .. n - 1 |-> IF i < Slots THEN data[i] ELSE Zero], back_idx, val)
    BY <1>7 DEF copy
  <2> HIDE DEF n
  <2> QED
    BY <2>1, <2>2
<1> QED
  BY <1>4, <1>7, <1>14, <1>15

(* The allocation failed: the queue was full up to its last slot.         *)
LEMMA DroppedInv ==
  ASSUME Careful, Inv, MayAdd, NEW val \in Val, AddDropped(val)
  PROVE  Inv'
<1>1. TypeOK /\ Shape /\ BoundedMemory /\ (live \/ alloc_size = 0)
  BY DEF Inv, MayAdd, MayUse
<1>2. Return("add", val, FALSE) /\ Unchanged
  BY DEF AddDropped
<1>3. /\ call' \in Calls
      /\ fault' = FALSE
  BY <1>2, ReturnType
<1>4. Slots' = Slots /\ Length' = Length
  BY <1>2 DEF Unchanged, Slots, Length
<1>5. Length >= Slots - 1
  BY <1>1, SlotsFit DEF AddDropped, queue_fullback, queue_fullfront, queue_maxidx, Shape,
     Slots, Length, ElemSize
<1>6. TypeOK'
  BY <1>1, <1>2, <1>3, Zenon DEF TypeOK, Unchanged, Buffer
<1>7. Shape' /\ BoundedMemory'
  BY <1>1, <1>2, <1>4 DEF Shape, BoundedMemory, Unchanged
<1>8. FaultOnlyInContains' /\ DropOnlyWhenFull'
  BY <1>3, <1>4, <1>5, Zenon DEF FaultOnlyInContains, DropOnlyWhenFull
<1> QED
  BY <1>6, <1>7, <1>8 DEF Inv

(* A careful client gets a value: there is one, and it is in the buffer.   *)
LEMMA GetInv ==
  ASSUME Careful, Inv, MayGet, queue_get
  PROVE  /\ Inv'
         /\ GetValue
         /\ front_idx < back_idx /\ data[front_idx] \in Val
         /\ call'.op = "get" /\ call'.val = data[front_idx]
<1>1. TypeOK /\ Shape /\ BoundedMemory
  BY DEF Inv
<1>2. front_idx < back_idx /\ back_idx <= Slots
  BY <1>1, SlotsFit DEF MayGet, queue_empty, Shape
<1>3. live /\ alloc_size >= ElemSize
  BY <1>1, <1>2, SlotsFit DEF Slots, ElemSize
<1>4. GetValue
  <2>1. ~(alloc_size < ElemSize) /\ ~(front_idx >= Slots)
    BY <1>1, <1>2, <1>3, SlotsFit DEF ElemSize
  <2> QED
    BY <1>3, <2>1, Zenon DEF queue_get, GetNothing, GetFault
<1>5. front_idx \in 0 .. Slots - 1 /\ data[front_idx] \in Val
  BY <1>1, <1>2, <1>3, SlotsFit
<1>6. Return("get", data[front_idx], TRUE) /\ UNCHANGED <<data, live, alloc_size>>
  BY <1>4 DEF GetValue
<1>7. /\ call' \in Calls
      /\ call'.op = "get" /\ call'.val = data[front_idx] /\ fault' = FALSE
      /\ FaultOnlyInContains' /\ DropOnlyWhenFull'
  BY <1>5, <1>6, ReturnType, DoneInv
<1>8. \/ front_idx' = 0 /\ back_idx' = 0
      \/ /\ front_idx' = front_idx + 1 /\ back_idx' = back_idx
         /\ front_idx + 1 # back_idx
  BY <1>4 DEF GetValue
<1>9. Slots' = Slots
  BY <1>6 DEF Slots
<1>10. TypeOK'
  <2>1. front_idx' \in u32 /\ back_idx' \in u32
    <3>1. Slots < U32
      BY <1>1, U32Assumption, SlotsFit DEF ElemSize
    <3> QED
      BY <1>1, <1>2, <1>8, <3>1, U32Assumption, SlotsFit DEF u32
  <2> QED
    BY <1>1, <1>6, <1>7, <2>1, Zenon DEF TypeOK, Buffer
<1>11. Shape'
  BY <1>1, <1>2, <1>8, <1>9, SlotsFit DEF Shape
<1>12. BoundedMemory'
  BY <1>1, <1>6 DEF BoundedMemory
<1>13. Inv'
  BY <1>7, <1>10, <1>11, <1>12 DEF Inv
<1> QED
  BY <1>2, <1>4, <1>5, <1>7, <1>13

(* queue_clear keeps the buffer and empties the queue.                    *)
LEMMA ClearInv ==
  ASSUME Careful, Inv, MayUse, queue_clear
  PROVE  /\ Inv'
         /\ front_idx' = 0 /\ back_idx' = 0 /\ call'.op = "clear"
         /\ alloc_size' = alloc_size
<1>1. TypeOK /\ Shape /\ BoundedMemory /\ (live \/ alloc_size = 0)
  BY DEF Inv, MayUse
<1>2. /\ data' = IF live THEN calloc(alloc_size) ELSE NoBuffer
      /\ front_idx' = 0 /\ back_idx' = 0
      /\ Return("clear", Zero, TRUE)
      /\ UNCHANGED <<live, alloc_size>>
  BY <1>1 DEF queue_clear
<1>3. /\ call' \in Calls
      /\ call'.op = "clear" /\ fault' = FALSE
      /\ FaultOnlyInContains' /\ DropOnlyWhenFull'
  BY <1>2, QueueAssumption, ReturnType, DoneInv
<1>4. data' \in (IF live THEN Buffer(alloc_size) ELSE [{} -> Val])
  BY <1>2, QueueAssumption DEF calloc, NoBuffer, Buffer
<1>5. TypeOK'
  <2>1. front_idx' \in u32 /\ back_idx' \in u32
    BY <1>2, U32Assumption DEF u32
  <2> QED
    BY <1>1, <1>2, <1>3, <1>4, <2>1, Zenon DEF TypeOK, Buffer
<1>6. Shape'
  <2>1. Slots' = Slots
    BY <1>2 DEF Slots
  <2> QED
    BY <1>1, <1>2, <2>1, SlotsFit DEF Shape
<1>7. BoundedMemory'
  BY <1>1, <1>2 DEF BoundedMemory
<1> QED
  BY <1>2, <1>3, <1>5, <1>6, <1>7 DEF Inv

(* queue_contains changes nothing, and faults only on a queue filled to    *)
(* its last slot.                                                          *)
LEMMA ContainsInv ==
  ASSUME Careful, Inv, MayUse, NEW val \in Val, queue_contains(val)
  PROVE  Inv' /\ Unchanged /\ call'.op = "contains"
<1>1. TypeOK /\ Shape /\ BoundedMemory
  BY DEF Inv
<1>2. CASE \E found \in BOOLEAN : Return("contains", val, found) /\ Unchanged
  BY <1>2, UnchangedInv, ReturnType
<1>3. CASE Fault("contains", val) /\ \E i \in SearchedSlots : i >= Slots
  <2>1. back_idx = Slots
    BY <1>1, <1>3, SlotsFit DEF SearchedSlots, Shape
  <2>2. /\ fault' = TRUE /\ call' = [op |-> "contains", val |-> val, ok |-> FALSE]
        /\ Unchanged
    BY <1>3 DEF Fault, Unchanged
  <2>3. /\ call' \in Calls
        /\ call'.op = "contains"
    BY <2>2 DEF Calls
  <2>4. TypeOK'
    BY <1>1, <2>2, <2>3, Zenon DEF TypeOK, Unchanged, Buffer
  <2>5. Slots' = Slots
    BY <2>2 DEF Slots, Unchanged
  <2>6. FaultOnlyInContains' /\ DropOnlyWhenFull'
    BY <2>1, <2>2, <2>3, <2>5 DEF FaultOnlyInContains, DropOnlyWhenFull, Unchanged
  <2>7. Shape' /\ BoundedMemory'
    BY <1>1, <2>2, <2>5 DEF Shape, BoundedMemory, Unchanged
  <2> QED
    BY <2>2, <2>3, <2>4, <2>6, <2>7 DEF Inv
<1> QED
  <2>1. TRUE \in BOOLEAN /\ FALSE \in BOOLEAN
    OBVIOUS
  <2> QED
    BY <1>2, <1>3, <2>1, Zenon DEF queue_contains

(* Every step keeps the invariant.                                         *)
LEMMA NextInv ==
  ASSUME Careful, WordFits, Inv, [Next]_vars
  PROVE  Inv'
<1>1. ASSUME NEW init_size \in InitSizes, queue_create(init_size)
      PROVE  Inv'
  BY <1>1, CreateInv
<1>2. ASSUME NEW val \in Val, MayAdd, queue_add(val)
      PROVE  Inv'
  BY <1>2, InPlaceInv, ReclaimInv, GrowInv, DroppedInv DEF queue_add
<1>3. ASSUME MayGet, queue_get
      PROVE  Inv'
  BY <1>3, GetInv
<1>4. ASSUME MayUse, queue_clear
      PROVE  Inv'
  BY <1>4, ClearInv
<1>5. ASSUME NEW val \in Val, MayUse, queue_contains(val)
      PROVE  Inv'
  BY <1>5, ContainsInv
<1>6. CASE UNCHANGED vars
  BY <1>6 DEF vars, Inv, TypeOK, FaultOnlyInContains, Shape, DropOnlyWhenFull,
     BoundedMemory, Buffer, Slots, Length
<1> QED
  BY <1>1, <1>2, <1>3, <1>4, <1>5, <1>6, Zenon DEF Next

(* The inductive invariant holds of the queue of a careful client.         *)
THEOREM Invariance ==
  ASSUME Careful, WordFits
  PROVE  Spec => []Inv
BY InitInv, NextInv, PTL DEF Spec

(* The sequence read off `len` slots from the slot `first` on.            *)
LEMMA SeqOfSlots ==
  ASSUME NEW n \in Nat, NEW first \in Nat, NEW len \in Nat, first + len <= n,
         NEW slots \in [0 .. n - 1 -> Val],
         NEW s, s = [i \in 1 .. len |-> slots[first + i - 1]]
  PROVE  /\ s \in Seq(Val)
         /\ Len(s) = len
         /\ \A i \in 1 .. len : s[i] = slots[first + i - 1]
<1>1. \A i \in 1 .. len : slots[first + i - 1] \in Val
  OBVIOUS
<1>2. s \in [1 .. len -> Val]
  BY <1>1
<1>3. s \in Seq(Val) /\ Len(s) = len
  BY <1>2, SMT
<1> QED
  BY <1>3

(* The queued values form a sequence, read off the slots from front_idx on. *)
LEMMA ContentsType ==
  ASSUME TypeOK, Shape
  PROVE  /\ Contents \in Seq(Val)
         /\ Length \in Nat /\ Len(Contents) = Length
         /\ \A i \in 1 .. Length : Contents[i] = data[front_idx + i - 1]
<1>1. data \in [0 .. Slots - 1 -> Val] /\ Slots \in Nat
  BY SlotsFit DEF TypeOK, Slots
<1>2. front_idx \in Nat /\ Length \in Nat /\ front_idx + Length <= Slots
  BY <1>1, SlotsFit DEF Shape, Length
<1> QED
  BY <1>1, <1>2, SeqOfSlots DEF Contents

(* When a sequence is another one with a value appended.                  *)
LEMMA IsAppend ==
  ASSUME NEW s \in Seq(Val), NEW t \in Seq(Val), NEW val \in Val,
         Len(t) = Len(s) + 1,
         \A i \in 1 .. Len(s) : t[i] = s[i],
         t[Len(s) + 1] = val
  PROVE  t = Append(s, val)
<1>1. Len(s) \in Nat
  BY LenProperties
<1>2. /\ Append(s, val) \in Seq(Val)
      /\ Len(Append(s, val)) = Len(s) + 1
      /\ \A i \in 1 .. Len(s) : Append(s, val)[i] = s[i]
      /\ Append(s, val)[Len(s) + 1] = val
  BY AppendProperties
<1>3. \A i \in 1 .. Len(t) : t[i] = Append(s, val)[i]
  <2> SUFFICES ASSUME NEW i \in 1 .. Len(t)
               PROVE  t[i] = Append(s, val)[i]
    OBVIOUS
  <2>1. CASE i \in 1 .. Len(s)
    BY <2>1, <1>2
  <2>2. CASE i = Len(s) + 1
    BY <2>2, <1>2
  <2> QED
    BY <1>1, <2>1, <2>2
<1> QED
  BY <1>2, <1>3, SeqEqual

(* When a sequence is the tail of another one.                            *)
LEMMA IsTail ==
  ASSUME NEW s \in Seq(Val), NEW t \in Seq(Val),
         Len(s) = Len(t) + 1,
         \A i \in 1 .. Len(t) : t[i] = s[i + 1]
  PROVE  s # <<>> /\ Head(s) = s[1] /\ Tail(s) = t
<1>1. Len(t) \in Nat /\ s # <<>>
  BY LenProperties, EmptySeq
<1>2. /\ Tail(s) \in Seq(Val)
      /\ Len(Tail(s)) = Len(t)
      /\ \A i \in 1 .. Len(Tail(s)) : Tail(s)[i] = s[i + 1]
  BY <1>1, HeadTailProperties
<1>3. Tail(s) = t
  BY <1>2, SeqEqual
<1> QED
  BY <1>1, <1>3

(***************************************************************************)
(* The refinement: one lemma for each way a call changes the contents.     *)
(***************************************************************************)

(* Put appends to the queue when the buffer it writes to holds the values  *)
(* of the queue, in order, in the slots before the one it writes.          *)
LEMMA PutAppends ==
  ASSUME TypeOK, Shape,
         NEW n \in Nat, NEW buf \in [0 .. n - 1 -> Val],
         NEW first \in Nat, first + Length < n, front_idx' = first,
         NEW val \in Val, Put(buf, first + Length, val),
         \A i \in 1 .. Length : buf[first + i - 1] = data[front_idx + i - 1]
  PROVE  Contents' = Append(Contents, val) /\ Out' = Zero
<1>1. /\ Contents \in Seq(Val)
      /\ Length \in Nat /\ Len(Contents) = Length
      /\ \A i \in 1 .. Length : Contents[i] = data[front_idx + i - 1]
  BY ContentsType
<1>2. /\ data' = [buf EXCEPT ![first + Length] = val]
      /\ back_idx' = first + Length + 1
      /\ Return("add", val, TRUE)
  BY DEF Put
<1>3. Length' = Length + 1
  BY <1>1, <1>2 DEF Length
<1>4. data' \in [0 .. n - 1 -> Val]
  BY <1>2
<1>5. Contents' = [i \in 1 .. Length + 1 |-> data'[first + i - 1]]
  BY <1>3 DEF Contents
<1>6. /\ Contents' \in Seq(Val)
      /\ Len(Contents') = Length + 1
      /\ \A i \in 1 .. Length + 1 : Contents'[i] = data'[first + i - 1]
  <2>1. Length + 1 \in Nat /\ first + (Length + 1) <= n
    BY <1>1
  <2> QED
    BY <2>1, <1>4, <1>5, SeqOfSlots
<1>7. \A i \in 1 .. Length : Contents'[i] = Contents[i]
  <2> SUFFICES ASSUME NEW i \in 1 .. Length
               PROVE  Contents'[i] = Contents[i]
    OBVIOUS
  <2>1. Contents'[i] = data'[first + i - 1] /\ Contents[i] = buf[first + i - 1]
    <3>1. i \in 1 .. Length + 1
      BY <1>1
    <3>2. Contents[i] = buf[first + i - 1]
      BY <1>1
    <3> QED
      BY <1>6, <3>1, <3>2
  <2>2. first + i - 1 \in 0 .. n - 1 /\ first + i - 1 # first + Length
    BY <1>1
  <2> QED
    BY <1>2, <2>1, <2>2
<1>8. Contents'[Length + 1] = val
  BY <1>1, <1>2, <1>6
<1>9. Contents' = Append(Contents, val)
  BY <1>1, <1>6, <1>7, <1>8, IsAppend
<1>10. Out' = Zero
  BY <1>2 DEF Return, Out
<1> QED
  BY <1>9, <1>10

(* An add that finds or makes room appends, whatever it moved to do so.    *)
LEMMA AddAppends ==
  ASSUME Careful, WordFits, Inv, MayAdd, NEW val \in Val,
         AddInPlace(val) \/ AddReclaim(val) \/ AddGrow(val)
  PROVE  Contents' = Append(Contents, val) /\ Out' = Zero
<1>1. TypeOK /\ Shape
  BY DEF Inv
<1>2. /\ Slots \in Nat /\ front_idx \in Nat /\ back_idx \in Nat
      /\ Length \in Nat /\ front_idx + Length = back_idx /\ back_idx <= Slots
      /\ data \in [0 .. Slots - 1 -> Val]
  BY <1>1, SlotsFit DEF Shape, Length, TypeOK, Slots
<1>3. CASE AddInPlace(val)
  <2>1. back_idx < Slots /\ Put(data, front_idx + Length, val) /\ front_idx' = front_idx
    BY <1>2, <1>3, InPlaceInv
  <2> QED
    BY <1>1, <1>2, <2>1, PutAppends
<1>4. CASE AddReclaim(val)
  <2> DEFINE moved == [i \in 0 .. Slots - 1 |->
                        IF i < MovedSlots THEN data[front_idx + i] ELSE Zero]
  <2>1. /\ front_idx' = 0 /\ Length < Slots /\ MovedSlots = Length
        /\ Put(moved, 0 + Length, val)
    BY <1>2, <1>4, ReclaimInv DEF Length
  <2>2. moved \in [0 .. Slots - 1 -> Val]
    BY <1>2, <2>1, QueueAssumption
  <2>3. \A i \in 1 .. Length : moved[0 + i - 1] = data[front_idx + i - 1]
    BY <1>2, <2>1
  <2> HIDE DEF moved
  <2> QED
    BY <1>1, <1>2, <2>1, <2>2, <2>3, PutAppends
<1>5. CASE AddGrow(val)
  <2>1. PICK n \in Nat :
          /\ Slots < n
          /\ Put([i \in 0 .. n - 1 |-> IF i < Slots THEN data[i] ELSE Zero],
                 back_idx, val)
    BY <1>5, GrowInv
  <2> DEFINE copy == [i \in 0 .. n - 1 |-> IF i < Slots THEN data[i] ELSE Zero]
  <2>2. front_idx = 0 /\ front_idx' = 0
    BY <1>5, GrowInv
  <2>3. copy \in [0 .. n - 1 -> Val]
    BY <1>2, QueueAssumption
  <2>4. \A i \in 1 .. Length : copy[0 + i - 1] = data[front_idx + i - 1]
    BY <1>2, <2>1, <2>2
  <2>5. Put(copy, 0 + Length, val)
    BY <1>2, <2>1, <2>2
  <2> HIDE DEF copy
  <2> QED
    BY <1>1, <1>2, <2>1, <2>2, <2>3, <2>4, <2>5, PutAppends
<1> QED
  BY <1>3, <1>4, <1>5

(* A get takes the head, whether or not it resets the indices.             *)
LEMMA GetTakesHead ==
  ASSUME Careful, Inv, MayGet, queue_get
  PROVE  Contents # <<>> /\ Out' = Head(Contents) /\ Contents' = Tail(Contents)
<1>1. TypeOK /\ Shape
  BY DEF Inv
<1>2. /\ Contents \in Seq(Val)
      /\ Length \in Nat /\ Len(Contents) = Length
      /\ \A i \in 1 .. Length : Contents[i] = data[front_idx + i - 1]
  BY <1>1, ContentsType
<1>3. /\ front_idx < back_idx /\ GetValue
      /\ call'.op = "get" /\ call'.val = data[front_idx]
  BY GetInv
<1>4. data' = data
  BY <1>3 DEF GetValue
<1>5. /\ Slots \in Nat /\ front_idx \in Nat /\ back_idx \in Nat
      /\ Length >= 1 /\ front_idx + Length = back_idx /\ back_idx <= Slots
      /\ data \in [0 .. Slots - 1 -> Val]
  BY <1>1, <1>3, SlotsFit DEF Shape, Length, TypeOK, Slots
<1>6. /\ Length' = Length - 1 /\ front_idx' \in Nat /\ front_idx' + (Length - 1) <= Slots
      /\ Length > 1 => front_idx' = front_idx + 1
  <2>1. CASE front_idx + 1 = back_idx
    BY <1>3, <1>5, <2>1 DEF GetValue, Length
  <2>2. CASE front_idx + 1 # back_idx
    BY <1>3, <1>5, <2>2 DEF GetValue, Length
  <2> QED
    BY <2>1, <2>2
<1>7. Contents' = [i \in 1 .. Length - 1 |-> data[front_idx' + i - 1]]
  BY <1>4, <1>6 DEF Contents
<1>8. /\ Contents' \in Seq(Val)
      /\ Len(Contents') = Length - 1
      /\ \A i \in 1 .. Length - 1 : Contents'[i] = data[front_idx' + i - 1]
  <2>1. Length - 1 \in Nat
    BY <1>2, <1>5
  <2>2. \A first \in Nat : \A s :
          first + (Length - 1) <= Slots /\ s = [i \in 1 .. Length - 1 |-> data[first + i - 1]]
            => /\ s \in Seq(Val)
               /\ Len(s) = Length - 1
               /\ \A i \in 1 .. Length - 1 : s[i] = data[first + i - 1]
    BY <2>1, <1>5, SeqOfSlots
  <2> QED
    BY <1>6, <1>7, <2>2
<1>9. \A i \in 1 .. Len(Contents') : Contents'[i] = Contents[i + 1]
  <2> SUFFICES ASSUME NEW i \in 1 .. Length - 1
               PROVE  Contents'[i] = Contents[i + 1]
    BY <1>8
  <2>1. Contents'[i] = data[front_idx' + i - 1] /\ front_idx' = front_idx + 1
    BY <1>2, <1>6, <1>8
  <2>2. Contents[i + 1] = data[front_idx + (i + 1) - 1]
    BY <1>2
  <2>3. front_idx' + i - 1 = front_idx + (i + 1) - 1
    BY <1>5, <2>1
  <2> QED
    BY <2>1, <2>2, <2>3
<1>10. Len(Contents) = Len(Contents') + 1
  BY <1>2, <1>8
<1>11. Contents # <<>> /\ Head(Contents) = Contents[1] /\ Contents' = Tail(Contents)
  BY <1>2, <1>8, <1>9, <1>10, IsTail
<1>12. Out' = Contents[1]
  BY <1>2, <1>3, <1>5 DEF Out
<1> QED
  BY <1>11, <1>12

(* Reset indices mean an empty queue.                                      *)
LEMMA EmptyContents ==
  ASSUME front_idx' = 0, back_idx' = 0
  PROVE  Contents' = <<>>
<1>1. Length' = 0
  BY DEF Length
<1> QED
  BY <1>1 DEF Contents

(* Every step is a step of the abstract queue.                             *)
LEMMA NextRefines ==
  ASSUME Careful, WordFits, Inv, [Next]_vars
  PROVE  [Fifo!Next]_<<Contents, Out>>
<1>1. ASSUME NEW init_size \in InitSizes, queue_create(init_size)
      PROVE  Fifo!Reset
  BY <1>1, EmptyContents DEF queue_create, Return, Out, Fifo!Reset
<1>2. ASSUME NEW val \in Val, MayAdd, queue_add(val)
      PROVE  Fifo!Add(val) \/ Fifo!Keep
  <2>1. CASE AddInPlace(val) \/ AddReclaim(val) \/ AddGrow(val)
    BY <1>2, <2>1, AddAppends DEF Fifo!Add
  <2>2. CASE AddDropped(val)
    BY <2>2 DEF AddDropped, Unchanged, Return, Contents, Length, Out, Fifo!Keep
  <2> QED
    BY <1>2, <2>1, <2>2 DEF queue_add
<1>3. ASSUME MayGet, queue_get
      PROVE  Fifo!Get
  BY <1>3, GetTakesHead DEF Fifo!Get
<1>4. ASSUME MayUse, queue_clear
      PROVE  Fifo!Reset
  BY <1>4, ClearInv, EmptyContents DEF Out, Fifo!Reset
<1>5. ASSUME NEW val \in Val, MayUse, queue_contains(val)
      PROVE  Fifo!Keep
  BY <1>5, ContainsInv DEF Unchanged, Contents, Length, Out, Fifo!Keep
<1>6. CASE UNCHANGED vars
  BY <1>6 DEF vars, Contents, Length, Out
<1> QED
  BY <1>1, <1>2, <1>3, <1>4, <1>5, <1>6, Zenon DEF Next, Fifo!Next

(***************************************************************************)
(* The theorems.  All assume a careful client and a word wide enough for   *)
(* the largest buffer that MaxLen values can make queue_add ask for.       *)
(***************************************************************************)

(* Every variable keeps its C type, and the buffer its size.               *)
THEOREM TypeCorrect ==
  ASSUME Careful, WordFits
  PROVE  Spec => []TypeOK
<1>1. Inv => TypeOK
  BY DEF Inv
<1> QED
  BY <1>1, Invariance, PTL

(* queue_create, queue_add, queue_get and queue_clear never leave the      *)
(* buffer; queue_contains does so only when back_idx is past it.           *)
THEOREM MemorySafety ==
  ASSUME Careful, WordFits
  PROVE  Spec => []FaultOnlyInContains
<1>1. Inv => FaultOnlyInContains
  BY DEF Inv
<1> QED
  BY <1>1, Invariance, PTL

(* front_idx <= back_idx <= Slots, and an empty queue starts at slot 0.    *)
THEOREM IndicesInOrder ==
  ASSUME Careful, WordFits
  PROVE  Spec => []Shape
<1>1. Inv => Shape
  BY DEF Inv
<1> QED
  BY <1>1, Invariance, PTL

(* A value is lost only when the queue is full up to its last slot.        *)
THEOREM DropsOnlyWhenFull ==
  ASSUME Careful, WordFits
  PROVE  Spec => []DropOnlyWhenFull
<1>1. Inv => DropOnlyWhenFull
  BY DEF Inv
<1> QED
  BY <1>1, Invariance, PTL

(* A queue that never holds more than MaxLen values never outgrows the     *)
(* buffer that MaxLen + 1 slots grow to, however many pass through it.     *)
THEOREM MemoryBounded ==
  ASSUME Careful, WordFits
  PROVE  Spec => []BoundedMemory
<1>1. Inv => BoundedMemory
  BY DEF Inv
<1> QED
  BY <1>1, Invariance, PTL

(* queue_contains finds every value that is in the queue.                  *)
THEOREM ContainsFinds ==
  ASSUME Careful, WordFits
  PROVE  Spec => ContainsComplete
<1> DEFINE Step == \A i \in 1 .. Length :
                     (call'.op = "contains" /\ ~call'.ok) => call'.val # Contents[i]
<1>1. ASSUME Inv, [Next]_vars
      PROVE  [Step]_vars
  <2>1. ASSUME NEW init_size \in InitSizes, queue_create(init_size)
        PROVE  Step
    BY <2>1 DEF queue_create, Return
  <2>2. ASSUME NEW val \in Val, queue_add(val)
        PROVE  Step
    BY <2>2 DEF queue_add, AddInPlace, AddReclaim, AddGrow, AddDropped, Put, Fault, Return
  <2>3. ASSUME queue_get
        PROVE  Step
    BY <2>3 DEF queue_get, GetNothing, GetValue, GetFault, Fault, Return
  <2>4. ASSUME queue_clear
        PROVE  Step
    BY <2>4 DEF queue_clear, Fault, Return
  <2>5. ASSUME NEW val \in Val, queue_contains(val)
        PROVE  Step
    <3>1. CASE Return("contains", val, TRUE)
      BY <3>1 DEF Return
    <3>2. CASE \A i \in SearchedSlots : i < Slots => data[i] # val
      <4> SUFFICES ASSUME NEW i \in 1 .. Length
                   PROVE  val # Contents[i] /\ call'.val = val
        OBVIOUS
      <4>1. front_idx + i - 1 \in SearchedSlots /\ front_idx + i - 1 < Slots
        BY <1>1, SlotsFit DEF Inv, Shape, Length, SearchedSlots
      <4>2. Contents[i] = data[front_idx + i - 1]
        BY DEF Contents
      <4>3. call'.val = val
        BY <2>5 DEF queue_contains, Return, Fault
      <4> QED
        BY <3>2, <4>1, <4>2, <4>3
    <3> QED
      BY <2>5, <3>1, <3>2 DEF queue_contains
  <2> QED
    BY <1>1, <2>1, <2>2, <2>3, <2>4, <2>5, Zenon DEF Next
<1> QED
  BY <1>1, Invariance, PTL DEF Spec, ContainsComplete

(* The queue implements the first-in first-out queue of Fifo: reclaims,    *)
(* growths and resets of the indices never reorder, duplicate or lose what *)
(* is queued.                                                              *)
THEOREM ImplementsFifo ==
  ASSUME Careful, WordFits
  PROVE  Spec => FifoSpec
<1>1. Init => Fifo!Init
  BY DEF Init, Contents, Length, Out, Fifo!Init
<1>2. ASSUME Inv, [Next]_vars
      PROVE  [Fifo!Next]_<<Contents, Out>>
  BY <1>2, NextRefines
<1> QED
  BY <1>1, <1>2, Invariance, PTL DEF Spec, FifoSpec, Fifo!Spec

(***************************************************************************)
(* A client that tests nothing.  It may add to a queue whose buffer was    *)
(* never allocated and take from an empty queue, after which front_idx is  *)
(* past back_idx: Shape is lost, and what is left of it is that neither    *)
(* index leaves the buffer and that a queue filled to its last slot has a  *)
(* value to take.                                                          *)
(***************************************************************************)
InBuffer ==
  /\ front_idx <= Slots
  /\ back_idx <= Slots
  /\ ~live => front_idx = 0 /\ back_idx = 0
  /\ back_idx = Slots /\ Slots > 0 => front_idx < back_idx

AnyInv ==
  /\ TypeOK
  /\ InBuffer
  /\ FaultHasCause
  /\ BoundedMemory

Cause(op) ==
  \/ ~live
  \/ front_idx > back_idx
  \/ op = "contains" /\ back_idx = Slots
  \/ op = "add" /\ GrowthWraps

(* A call that faults for one of the four causes keeps the invariant.     *)
LEMMA FaultKeeps ==
  ASSUME AnyInv, NEW op \in {"add", "get", "clear", "contains"}, NEW val \in Val,
         Fault(op, val), Cause(op)
  PROVE  AnyInv'
<1>1. /\ fault' = TRUE /\ call' = [op |-> op, val |-> val, ok |-> FALSE]
      /\ Unchanged
  BY DEF Fault, Unchanged
<1>2. call' \in Calls /\ call'.op = op
  BY <1>1 DEF Calls
<1>3. Slots' = Slots
  BY <1>1 DEF Slots, Unchanged
<1>4. TypeOK'
  BY <1>1, <1>2, Zenon DEF AnyInv, TypeOK, Unchanged, Buffer
<1>5. InBuffer' /\ BoundedMemory'
  BY <1>1, <1>3 DEF AnyInv, InBuffer, BoundedMemory, Unchanged
<1>6. FaultHasCause'
  BY <1>1, <1>2, <1>3 DEF FaultHasCause, Cause, Unchanged, GrowthWraps
<1> QED
  BY <1>4, <1>5, <1>6 DEF AnyInv

(* So does one that returns and leaves the queue alone.                    *)
LEMMA ReturnKeeps ==
  ASSUME AnyInv, NEW op \in {"add", "get", "contains"}, NEW val \in Val,
         NEW ok \in BOOLEAN, Return(op, val, ok), Unchanged
  PROVE  AnyInv'
<1>1. call' \in Calls /\ fault' = FALSE
  BY ReturnType
<1>2. Slots' = Slots
  BY DEF Slots, Unchanged
<1>3. TypeOK'
  BY <1>1, Zenon DEF AnyInv, TypeOK, Unchanged, Buffer
<1>4. InBuffer' /\ BoundedMemory'
  BY <1>2 DEF AnyInv, InBuffer, BoundedMemory, Unchanged
<1>5. FaultHasCause'
  BY <1>1 DEF FaultHasCause
<1> QED
  BY <1>3, <1>4, <1>5 DEF AnyInv

(* So does one that writes a value into a slot of the buffer it leaves.    *)
LEMMA PutKeeps ==
  ASSUME NEW n \in Nat, NEW buf \in [0 .. n - 1 -> Val], NEW idx \in 0 .. n - 1,
         NEW val \in Val, Put(buf, idx, val),
         live' = TRUE, alloc_size' \in u32, n = alloc_size' \div ElemSize,
         front_idx' \in 0 .. n, idx + 1 = n => front_idx' < n,
         BoundedMemory'
  PROVE  AnyInv'
<1>1. /\ data' \in [0 .. n - 1 -> Val]
      /\ back_idx' = idx + 1
      /\ call' \in Calls
      /\ fault' = FALSE
  BY PutType
<1>2. Slots' = n
  BY DEF Slots
<1>3. n < U32
  <2>1. \A size \in u32 : size \div ElemSize < U32
    BY U32Assumption DEF u32, ElemSize
  <2> QED
    BY <2>1
<1>4. back_idx' \in u32 /\ front_idx' \in u32
  BY <1>1, <1>3, U32Assumption DEF u32
<1>5. data' \in Buffer(alloc_size')
  BY <1>1 DEF Buffer
<1>6. TypeOK'
  <2>1. live' \in BOOLEAN /\ fault' \in BOOLEAN
    BY <1>1, Zenon
  <2> QED
    BY <1>1, <1>4, <1>5, <2>1, Zenon DEF TypeOK
<1>7. InBuffer'
  BY <1>1, <1>2 DEF InBuffer
<1>8. FaultHasCause'
  BY <1>1 DEF FaultHasCause
<1> QED
  BY <1>6, <1>7, <1>8 DEF AnyInv

(* A zeroed queue satisfies it.                                            *)
LEMMA InitAny ==
  ASSUME Init
  PROVE  AnyInv
<1>1. TypeOK /\ BoundedMemory
  BY InitInv DEF Inv
<1>2. InBuffer
  BY DEF Init, InBuffer, Slots
<1>3. FaultHasCause
  BY DEF Init, FaultHasCause
<1> QED
  BY <1>1, <1>2, <1>3 DEF AnyInv

(* So does one that queue_create returned, and one that is cleared.        *)
LEMMA CreateAny ==
  ASSUME NEW init_size \in InitSizes, queue_create(init_size)
  PROVE  AnyInv'
<1>1. TypeOK' /\ BoundedMemory' /\ Shape' /\ fault' = FALSE
  BY CreateInv DEF Inv, queue_create, Return
<1>2. front_idx' = 0 /\ back_idx' = 0
  BY DEF queue_create
<1>3. InBuffer'
  BY <1>1, <1>2 DEF Shape, InBuffer
<1>4. FaultHasCause'
  BY <1>1 DEF FaultHasCause
<1> QED
  BY <1>1, <1>3, <1>4 DEF AnyInv

LEMMA ClearAny ==
  ASSUME AnyInv, queue_clear
  PROVE  AnyInv'
<1>1. TypeOK /\ BoundedMemory
  BY DEF AnyInv
<1>2. CASE live \/ alloc_size = 0
  <2>1. /\ data' = IF live THEN calloc(alloc_size) ELSE NoBuffer
        /\ front_idx' = 0 /\ back_idx' = 0
        /\ Return("clear", Zero, TRUE)
        /\ UNCHANGED <<live, alloc_size>>
    BY <1>2 DEF queue_clear
  <2>2. call' \in Calls /\ fault' = FALSE
    BY <2>1, QueueAssumption, ReturnType
  <2>3. data' \in (IF live THEN Buffer(alloc_size) ELSE [{} -> Val])
    BY <2>1, QueueAssumption DEF calloc, NoBuffer, Buffer
  <2>4. front_idx' \in u32 /\ back_idx' \in u32
    BY <2>1, U32Assumption DEF u32
  <2>5. TypeOK'
    BY <1>1, <2>1, <2>2, <2>3, <2>4, Zenon DEF TypeOK, Buffer
  <2>6. Slots' = Slots
    BY <2>1 DEF Slots
  <2>7. InBuffer'
    BY <1>1, <2>1, <2>6, SlotsFit DEF InBuffer
  <2>8. BoundedMemory' /\ FaultHasCause'
    BY <1>1, <2>1, <2>2 DEF BoundedMemory, FaultHasCause
  <2> QED
    BY <2>5, <2>7, <2>8 DEF AnyInv
<1>3. CASE ~(live \/ alloc_size = 0)
  <2>1. Fault("clear", Zero) /\ Cause("clear")
    BY <1>3 DEF queue_clear, Cause
  <2> QED
    BY <2>1, QueueAssumption, FaultKeeps
<1> QED
  BY <1>2, <1>3

(* There is room at the back, unless there is no buffer.                   *)
LEMMA InPlaceAny ==
  ASSUME AnyInv, NEW val \in Val, AddInPlace(val)
  PROVE  AnyInv'
<1>1. TypeOK /\ InBuffer /\ BoundedMemory
  BY DEF AnyInv
<1>2. CASE live
  <2>1. Slots = alloc_size \div ElemSize /\ back_idx < Slots - 1
    BY <1>1, <1>2, SlotsFit DEF AddInPlace, queue_fullback, queue_maxidx, Slots, ElemSize
  <2>2. Put(data, back_idx, val) /\ UNCHANGED <<live, alloc_size, front_idx>>
    BY <1>1, <2>1, SlotsFit DEF AddInPlace
  <2>3. /\ Slots \in Nat /\ data \in [0 .. Slots - 1 -> Val]
        /\ back_idx \in 0 .. Slots - 1 /\ front_idx' \in 0 .. Slots
        /\ back_idx + 1 # Slots
    BY <1>1, <1>2, <2>1, <2>2, SlotsFit DEF InBuffer
  <2>4. live' = TRUE /\ alloc_size' \in u32 /\ Slots = alloc_size' \div ElemSize
    BY <1>1, <1>2, <2>1, <2>2 DEF TypeOK
  <2>5. BoundedMemory'
    BY <1>1, <2>2 DEF BoundedMemory
  <2> QED
    BY <2>2, <2>3, <2>4, <2>5, PutKeeps
<1>3. CASE ~live
  <2>1. Slots = 0 /\ ~(back_idx < Slots)
    BY <1>1, <1>3, SlotsFit DEF Slots
  <2>2. Fault("add", val) /\ Cause("add")
    BY <1>3, <2>1, Zenon DEF AddInPlace, Cause
  <2> QED
    BY <2>2, FaultKeeps
<1> QED
  BY <1>2, <1>3

(* The memmove of a reclaim: exact when front_idx is not past back_idx; a  *)
(* negative number of slots wraps to more bytes than any buffer has left.  *)
LEMMA Moved ==
  ASSUME AnyInv, WordOfSlots, queue_fullback, ~queue_fullfront, live
  PROVE  \/ /\ front_idx <= back_idx
            /\ MovedSlots = back_idx - front_idx
            /\ front_idx + MovedSlots <= Slots
            /\ back_idx - front_idx \in 0 .. Slots - 1
         \/ /\ front_idx > back_idx
            /\ ~(front_idx + MovedSlots <= Slots)
<1>1. TypeOK /\ InBuffer
  BY DEF AnyInv
<1>2. front_idx \in 1 .. Slots /\ back_idx \in 0 .. Slots /\ Slots \in Nat
  BY <1>1, SlotsFit DEF InBuffer, queue_fullfront
<1>3. ElemSize * Slots < U32 /\ U32 \in Nat
  BY <1>1, SlotsFit, U32Assumption DEF ElemSize
<1>4. CASE front_idx <= back_idx
  <2>1. (back_idx - front_idx) * ElemSize \in 0 .. U32 - 1
    BY <1>2, <1>3, <1>4 DEF ElemSize
  <2>2. ((back_idx - front_idx) * ElemSize) % U32 = (back_idx - front_idx) * ElemSize
    BY <2>1, <1>3
  <2>3. MovedSlots = back_idx - front_idx
    BY <1>2, <1>4, <2>2 DEF MovedSlots, ElemSize
  <2> QED
    BY <1>2, <1>4, <2>3
<1>5. CASE front_idx > back_idx
  <2> DEFINE past == front_idx - back_idx
  <2> DEFINE words == U32 \div ElemSize
  <2>1. past \in 1 .. Slots /\ words \in Nat /\ U32 = ElemSize * words
    BY <1>2, <1>3, <1>5 DEF WordOfSlots, ElemSize
  <2>2. words > Slots
    BY <1>2, <1>3, <2>1 DEF ElemSize
  <2>3. (back_idx - front_idx) * ElemSize = ElemSize * (words - past) - U32
    BY <1>2, <2>1 DEF ElemSize
  <2>4. ElemSize * (words - past) \in 0 .. U32 - 1
    BY <1>2, <2>1, <2>2 DEF ElemSize
  <2>5. ((back_idx - front_idx) * ElemSize) % U32 = ElemSize * (words - past)
    <3> DEFINE m == ElemSize * (words - past)
    <3>1. m \in 0 .. U32 - 1 /\ U32 \in Nat \ {0}
      BY <1>3, <2>4, U32Assumption
    <3> HIDE DEF m
    <3>2. (m - U32) % U32 = m
      BY <3>1
    <3> QED
      BY <2>3, <3>2 DEF m
  <2>6. MovedSlots = words - past
    <3>1. words - past \in Nat
      BY <1>2, <2>1, <2>2
    <3> HIDE DEF words, past
    <3> QED
      BY <2>5, <3>1 DEF MovedSlots, ElemSize
  <2>7. ~(front_idx + MovedSlots <= Slots)
    BY <1>2, <2>1, <2>2, <2>6
  <2> QED
    BY <1>5, <2>7
<1> QED
  BY <1>2, <1>4, <1>5

LEMMA ReclaimAny ==
  ASSUME AnyInv, WordOfSlots, NEW val \in Val, AddReclaim(val)
  PROVE  AnyInv'
<1>1. TypeOK /\ InBuffer /\ BoundedMemory
  BY DEF AnyInv
<1>2. queue_fullback /\ ~queue_fullfront /\ live
  BY DEF AddReclaim
<1>3. CASE /\ front_idx <= back_idx
           /\ MovedSlots = back_idx - front_idx
           /\ front_idx + MovedSlots <= Slots
           /\ back_idx - front_idx \in 0 .. Slots - 1
  <2> DEFINE moved == [i \in 0 .. Slots - 1 |->
                        IF i < MovedSlots THEN data[front_idx + i] ELSE Zero]
  <2>1. /\ Put(moved, back_idx - front_idx, val) /\ front_idx' = 0
        /\ UNCHANGED <<live, alloc_size>>
    BY <1>3 DEF AddReclaim
  <2>2. moved \in [0 .. Slots - 1 -> Val]
    <3>1. \A i \in 0 .. Slots - 1 : i < MovedSlots => data[front_idx + i] \in Val
      BY <1>1, <1>2, <1>3, SlotsFit
    <3> QED
      BY <3>1, QueueAssumption
  <2> HIDE DEF moved
  <2>3. /\ Slots \in Nat /\ Slots > 0 /\ live' = TRUE /\ alloc_size' \in u32
        /\ Slots = alloc_size' \div ElemSize /\ front_idx' \in 0 .. Slots
    BY <1>1, <1>2, <1>3, <2>1, SlotsFit DEF TypeOK, Slots
  <2>4. BoundedMemory'
    BY <1>1, <2>1 DEF BoundedMemory
  <2> QED
    BY <1>3, <2>1, <2>2, <2>3, <2>4, PutKeeps
<1>4. CASE front_idx > back_idx /\ ~(front_idx + MovedSlots <= Slots)
  <2>1. Fault("add", val) /\ Cause("add")
    BY <1>4 DEF AddReclaim, Cause
  <2> QED
    BY <2>1, FaultKeeps
<1> QED
  BY <1>2, <1>3, <1>4, Moved

(* A growth starts at slot 0, so that the buffer it leaves holds at most   *)
(* MaxLen slots and the new one has room for a value more; one that a u32  *)
(* cannot size faults.                                                     *)
LEMMA GrowAny ==
  ASSUME AnyInv, WordOfSlots, MayAdd, NEW val \in Val, AddGrow(val)
  PROVE  AnyInv'
<1>1. TypeOK /\ InBuffer /\ BoundedMemory
  BY DEF AnyInv
<1>2. queue_fullback /\ (queue_fullfront \/ ~live) /\ Length < MaxLen
  BY DEF AddGrow, MayAdd
<1>3. PICK newsize \in GrownSizes(alloc_size, ElemSize) :
        IF newsize >= alloc_size /\ (live \/ alloc_size = 0)
                                 /\ back_idx < newsize \div ElemSize
          THEN /\ Put([i \in 0 .. (newsize \div ElemSize) - 1 |->
                        IF i < Slots THEN data[i] ELSE Zero],
                      back_idx, val)
               /\ live' = TRUE
               /\ alloc_size' = newsize
               /\ UNCHANGED front_idx
          ELSE Fault("add", val)
  BY DEF AddGrow
<1>4. CASE ~(live \/ alloc_size = 0)
  <2>1. Fault("add", val) /\ Cause("add")
    BY <1>3, <1>4 DEF Cause
  <2> QED
    BY <2>1, FaultKeeps
<1>5. CASE GrowthWraps
  <2>1. newsize \in Nat /\ (newsize < alloc_size \/ newsize = 0) /\ alloc_size \in Nat
    BY <1>1, <1>5, U32Assumption, GrowthPast DEF GrowthWraps, TypeOK, u32
  <2>2. back_idx \in Nat
    BY <1>1, SlotsFit
  <2>3. ~(newsize >= alloc_size /\ back_idx < newsize \div ElemSize)
    BY <2>1, <2>2 DEF ElemSize
  <2>4. Fault("add", val)
    BY <1>3, <2>3, Zenon
  <2> QED
    BY <1>5, <2>4, FaultKeeps DEF Cause
<1>6. CASE (live \/ alloc_size = 0) /\ ~GrowthWraps
  <2> DEFINE n == newsize \div ElemSize
  <2> DEFINE copy == [i \in 0 .. n - 1 |-> IF i < Slots THEN data[i] ELSE Zero]
  <2>1. Slots = alloc_size \div ElemSize
    BY <1>1, <1>6, SlotsFit DEF Slots, ElemSize
  <2>2. front_idx = 0
    BY <1>1, <1>2 DEF InBuffer, queue_fullfront
  <2>3. Slots - 1 <= back_idx /\ back_idx <= Slots
    BY <1>1, <1>2, <2>1, SlotsFit DEF queue_fullback, queue_maxidx, InBuffer
  <2>4. Slots <= MaxLen /\ MaxLen \in Nat
    BY <1>1, <1>2, <2>2, <2>3, SlotsFit, QueueAssumption DEF Length
  <2>5. alloc_size \in Nat /\ alloc_size <= ElemSize * (MaxLen + 1) - 1
    BY <1>1, <2>1, <2>4, SlotsFit DEF ElemSize
  <2>6. /\ newsize \in u32
        /\ newsize <= LargestGrowth
        /\ newsize >= alloc_size
        /\ n > alloc_size \div ElemSize
    <3>1. ALIGN_UP(HalfAgain(alloc_size), ElemSize) < U32
      <4>1. HalfAgain(alloc_size) \in Nat
        BY <2>5 DEF HalfAgain
      <4> QED
        BY <1>6, <4>1, AlignUp, U32Assumption DEF GrowthWraps
    <3> QED
      BY <2>4, <2>5, <3>1, U32Assumption, Growth
  <2>7. newsize \in Nat /\ newsize >= alloc_size
    BY <2>5, <2>6, U32Assumption DEF u32
  <2>8. n \in Nat /\ Slots < n /\ back_idx \in 0 .. n - 1
    BY <1>1, <2>1, <2>3, <2>6, <2>7, SlotsFit DEF ElemSize
  <2>9. /\ Put(copy, back_idx, val) /\ live' = TRUE /\ alloc_size' = newsize
        /\ front_idx' = front_idx
    <3>1. back_idx < n
      BY <2>8
    <3> QED
      BY <1>3, <1>6, <2>7, <3>1
  <2>10. copy \in [0 .. n - 1 -> Val]
    <3>1. \A i \in 0 .. n - 1 : i < Slots => data[i] \in Val
      <4>1. live \/ Slots = 0
        BY DEF Slots
      <4> QED
        BY <1>1, <2>8, <4>1, SlotsFit
    <3> QED
      BY <3>1, QueueAssumption
  <2> HIDE DEF copy
  <2>11. /\ alloc_size' \in u32 /\ n = alloc_size' \div ElemSize
         /\ front_idx' \in 0 .. n /\ front_idx' < n
    BY <2>2, <2>6, <2>8, <2>9
  <2>12. BoundedMemory'
    BY <2>6, <2>9 DEF BoundedMemory
  <2> HIDE DEF n
  <2> QED
    BY <2>8, <2>9, <2>10, <2>11, <2>12, PutKeeps
<1> QED
  BY <1>4, <1>5, <1>6

(* queue_get: past a buffer only when front_idx has passed back_idx.       *)
LEMMA GetAny ==
  ASSUME AnyInv, queue_get
  PROVE  AnyInv'
<1>1. TypeOK /\ InBuffer /\ BoundedMemory
  BY DEF AnyInv
<1>2. CASE GetNothing
  BY <1>2, QueueAssumption, ReturnKeeps DEF GetNothing
<1>3. CASE GetFault
  <2>1. Slots > 0 /\ front_idx >= Slots
    BY <1>1, <1>3, SlotsFit DEF GetFault, Slots, ElemSize
  <2>2. front_idx > back_idx
    BY <1>1, <2>1, SlotsFit DEF InBuffer
  <2> QED
    BY <1>3, <2>2, QueueAssumption, FaultKeeps DEF GetFault, Cause
<1>4. CASE GetValue
  <2>1. /\ Return("get", data[front_idx], TRUE)
        /\ UNCHANGED <<data, live, alloc_size>> /\ live /\ front_idx < Slots
    BY <1>4 DEF GetValue
  <2>2. \/ front_idx' = 0 /\ back_idx' = 0
        \/ /\ front_idx' = front_idx + 1 /\ back_idx' = back_idx
           /\ front_idx + 1 # back_idx
    BY <1>4 DEF GetValue
  <2>3. data[front_idx] \in Val
    BY <1>1, <2>1, SlotsFit
  <2>4. call' \in Calls /\ fault' = FALSE
    BY <2>1, <2>3, ReturnType
  <2>5. Slots' = Slots
    BY <2>1 DEF Slots
  <2>6. TypeOK'
    <3>1. Slots < U32
      BY <1>1, U32Assumption, SlotsFit DEF ElemSize
    <3>2. front_idx' \in u32 /\ back_idx' \in u32
      BY <1>1, <2>1, <2>2, <3>1, U32Assumption, SlotsFit DEF InBuffer, u32
    <3> QED
      BY <1>1, <2>1, <2>4, <3>2, Zenon DEF TypeOK, Buffer
  <2>7. InBuffer'
    BY <1>1, <2>1, <2>2, <2>5, SlotsFit DEF InBuffer
  <2>8. BoundedMemory' /\ FaultHasCause'
    BY <1>1, <2>1, <2>4 DEF BoundedMemory, FaultHasCause
  <2> QED
    BY <2>6, <2>7, <2>8 DEF AnyInv
<1> QED
  BY <1>2, <1>3, <1>4 DEF queue_get

(* queue_contains visits a slot outside the buffer only when back_idx is   *)
(* the first one after it.                                                 *)
LEMMA ContainsAny ==
  ASSUME AnyInv, NEW val \in Val, queue_contains(val)
  PROVE  AnyInv'
<1>1. CASE \E found \in BOOLEAN : Return("contains", val, found) /\ Unchanged
  BY <1>1, ReturnKeeps
<1>2. CASE Fault("contains", val) /\ \E i \in SearchedSlots : i >= Slots
  <2>1. back_idx = Slots
    BY <1>2, SlotsFit DEF AnyInv, InBuffer, SearchedSlots
  <2> QED
    BY <1>2, <2>1, FaultKeeps DEF Cause
<1> QED
  <2>1. TRUE \in BOOLEAN /\ FALSE \in BOOLEAN
    OBVIOUS
  <2> QED
    BY <1>1, <1>2, <2>1, Zenon DEF queue_contains

LEMMA NextAny ==
  ASSUME WordOfSlots, AnyInv, [Next]_vars
  PROVE  AnyInv'
<1>1. ASSUME NEW init_size \in InitSizes, queue_create(init_size)
      PROVE  AnyInv'
  BY <1>1, CreateAny
<1>2. ASSUME NEW val \in Val, MayAdd, queue_add(val)
      PROVE  AnyInv'
  <2>1. CASE AddDropped(val)
    BY <2>1, ReturnKeeps DEF AddDropped
  <2> QED
    BY <1>2, <2>1, InPlaceAny, ReclaimAny, GrowAny DEF queue_add
<1>3. ASSUME queue_get
      PROVE  AnyInv'
  BY <1>3, GetAny
<1>4. ASSUME queue_clear
      PROVE  AnyInv'
  BY <1>4, ClearAny
<1>5. ASSUME NEW val \in Val, queue_contains(val)
      PROVE  AnyInv'
  BY <1>5, ContainsAny
<1>6. CASE UNCHANGED vars
  BY <1>6 DEF vars, AnyInv, TypeOK, InBuffer, FaultHasCause, GrowthWraps, BoundedMemory,
     Buffer, Slots
<1> QED
  BY <1>1, <1>2, <1>3, <1>4, <1>5, <1>6, Zenon DEF Next

(* Whatever the client calls, and in whatever order, an access outside the *)
(* buffer has one of four causes: the buffer was never allocated, a        *)
(* queue_get took from an empty queue before, queue_contains searched a    *)
(* queue filled to its last slot, or the size of a growth wrapped.  No     *)
(* other call leaves the buffer.                                           *)
THEOREM FaultsExplained ==
  ASSUME WordOfSlots
  PROVE  Spec => []FaultHasCause
<1>1. Init => AnyInv
  BY InitAny
<1>2. AnyInv /\ [Next]_vars => AnyInv'
  BY NextAny
<1>3. AnyInv => FaultHasCause
  BY DEF AnyInv
<1> QED
  BY <1>1, <1>2, <1>3, PTL DEF Spec

(* For the same clients: every index stays in the buffer or just behind    *)
(* it, and the buffer is no larger than what the most values ever queued   *)
(* at once ask for.                                                        *)
THEOREM AnyClientTypeCorrect ==
  ASSUME WordOfSlots
  PROVE  Spec => [](TypeOK /\ InBuffer /\ BoundedMemory)
<1>1. Init => AnyInv
  BY InitAny
<1>2. AnyInv /\ [Next]_vars => AnyInv'
  BY NextAny
<1>3. AnyInv => TypeOK /\ InBuffer /\ BoundedMemory
  BY DEF AnyInv
<1> QED
  BY <1>1, <1>2, <1>3, PTL DEF Spec

=============================================================================
