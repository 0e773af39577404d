----------------------------- MODULE Sha1Proofs -----------------------------
(***************************************************************************)
(* SHA1_buf pads every message as FIPS 180 says, whatever its length.      *)
(*                                                                         *)
(* The inductive invariant says where every byte taken so far is: in a     *)
(* block that was processed, or in msg_block below msg_block_idx.          *)
(***************************************************************************)
EXTENDS Sha1, SequenceTheorems, TLAPS

Bytes == [0 .. 63 -> Int]

(* The bytes of the message that count, and those that were taken.         *)
Size == len % U32Bytes
Taken == Size - left

(* Block b of the message, without padding.                                *)
MessageBlock(b) == [i \in 0 .. 63 |-> 256 + (64 * (b - 1) + i)]

TypesOK ==
  /\ sha_pc \in {"idle", "input", "return"}
  /\ len \in Nat
  /\ left \in 0 .. Size
  /\ context \in [length : Nat, msg_block_idx : 0 .. 63, msg_block : Bytes,
                  computed : BOOLEAN, corrupted : {FALSE}]

Cut ==
  /\ context.length = 8 * Taken
  /\ context.msg_block_idx = Taken % 64
  /\ blocks = [b \in 1 .. Taken \div 64 |-> MessageBlock(b)]
  /\ \A i \in 0 .. 63 : i < Taken % 64 => context.msg_block[i] = MessageBlock((Taken \div 64) + 1)[i]

(* The padded message of n bytes as the code makes it.                     *)
PaddedMessage(n) ==
  LET count == (n + 8) \div 64 + 1
      byte(k) == CASE k < n -> 256 + k
                   [] k = n -> 128
                   [] k > n /\ k < 64 * count - 8 -> 0
                   [] OTHER -> ENDIAN_FLIP(8 * n, k - (64 * count - 8))
  IN  [b \in 1 .. count |-> [i \in 0 .. 63 |-> byte(64 * (b - 1) + i)]]

Inv ==
  /\ TypesOK
  /\ sha_pc # "return" => Cut
  /\ sha_pc = "return" => blocks = PaddedMessage(Size)

-----------------------------------------------------------------------------
LEMMA SizeBound == ASSUME NEW n \in Nat PROVE n % U32Bytes \in 0 .. U32Bytes - 1
  BY Sha1Assumption, SMT

LEMMA Quotient ==
  ASSUME NEW n \in Nat
  PROVE  /\ n \div 64 \in Nat /\ n % 64 \in 0 .. 63
         /\ n = 64 * (n \div 64) + (n % 64)
  BY SMT

LEMMA Successor ==
  ASSUME NEW n \in Nat
  PROVE  IF n % 64 = 63
           THEN (n + 1) % 64 = 0 /\ (n + 1) \div 64 = (n \div 64) + 1
           ELSE (n + 1) % 64 = (n % 64) + 1 /\ (n + 1) \div 64 = n \div 64
  BY SMT

LEMMA BlockCount ==
  ASSUME NEW n \in Nat
  PROVE  ((n + 8) \div 64) + 1 = IF n % 64 > 55 THEN (n \div 64) + 2 ELSE (n \div 64) + 1
  BY SMT

LEMMA InitInv == Sha1Init => Inv
<1> SUFFICES ASSUME Sha1Init PROVE Inv
  OBVIOUS
<1>1. Size = 0 /\ Taken = 0
  BY Sha1Assumption, SizeBound, SMT DEF Sha1Init, Size, Taken
<1>2. 0 % 64 = 0 /\ 0 \div 64 = 0
  BY SMT
<1>3. TypesOK
  BY <1>1 DEF Sha1Init, TypesOK, SHA1_Init, Bytes
<1>4. Cut
  <2>1. blocks = [b \in 1 .. 0 |-> MessageBlock(b)]
    BY DEF Sha1Init
  <2> QED
    BY <1>1, <1>2, <2>1 DEF Sha1Init, Cut, SHA1_Init
<1> QED
  BY <1>3, <1>4 DEF Sha1Init, Inv

(* A call starts with an empty context, as SHA1_Init makes it.             *)
LEMMA CallInv == ASSUME NEW n \in Lengths, Inv, SHA1_buf(n) PROVE Inv'
<1>1. n \in Nat /\ Size' = left' /\ Taken' = 0 /\ left' \in Nat
  BY Sha1Assumption, SizeBound, SMT DEF SHA1_buf, Size, Taken
<1>2. 0 % 64 = 0 /\ 0 \div 64 = 0
  BY SMT
<1>3. TypesOK'
  BY <1>1 DEF SHA1_buf, TypesOK, SHA1_Init, Bytes
<1>4. Cut'
  <2>1. blocks' = [b \in 1 .. 0 |-> MessageBlock(b)]
    BY DEF SHA1_buf
  <2> QED
    BY <1>1, <1>2, <2>1 DEF SHA1_buf, Cut, SHA1_Init
<1> QED
  BY <1>3, <1>4 DEF SHA1_buf, Inv

-----------------------------------------------------------------------------
(* A byte goes behind the ones taken; the 64th completes a block.          *)
LEMMA InputInv == ASSUME Inv, SHA1Input PROVE Inv'
<1> DEFINE idx == context.msg_block_idx
           q == Taken \div 64
           stored == [length |-> (context.length + 8) % (UINT64_MAX + 1),
                      msg_block_idx |-> idx + 1,
                      msg_block |-> [context.msg_block EXCEPT ![idx] = 256 + ((len % U32Bytes) - left)],
                      computed |-> context.computed,
                      corrupted |-> context.length >= UINT64_MAX - 8]
<1> USE DEF Inv
<1>1. /\ sha_pc = "input" /\ left > 0
      /\ left' = left - 1
      /\ context' = IF BlockFull(stored) THEN SHA1ProcessMessageBlock(stored) ELSE stored
      /\ blocks' = IF BlockFull(stored) THEN Append(blocks, stored.msg_block) ELSE blocks
      /\ UNCHANGED <<sha_pc, len>>
  BY DEF SHA1Input
<1>2. TypesOK /\ Cut
  BY <1>1
<1>3. /\ Size \in Nat /\ Size < U32Bytes /\ U32Bytes \in Nat /\ len \in Nat
      /\ left \in 0 .. Size /\ Taken \in Nat /\ Taken < Size
      /\ Size' = Size /\ Taken' = Taken + 1
      /\ len % U32Bytes = Size
  <2>1. Size \in 0 .. U32Bytes - 1
    BY <1>2, SizeBound DEF TypesOK, Size
  <2> QED
    BY <1>1, <1>2, <2>1, Sha1Assumption DEF TypesOK, Taken, Size
<1>4. q \in Nat /\ idx \in 0 .. 63 /\ idx = Taken % 64 /\ Taken = 64 * q + idx
  BY <1>2, <1>3, Quotient DEF Cut
<1>5. stored = [length |-> 8 * (Taken + 1), msg_block_idx |-> idx + 1,
                msg_block |-> [context.msg_block EXCEPT ![idx] = 256 + Taken],
                computed |-> context.computed, corrupted |-> FALSE]
  <2>1. context.length = 8 * Taken
    BY <1>2 DEF Cut
  <2>2. (context.length >= UINT64_MAX - 8) = FALSE
    BY <1>3, <2>1, Sha1Assumption
  <2>3. (context.length + 8) % (UINT64_MAX + 1) = 8 * (Taken + 1)
    <3>1. 8 * (Taken + 1) \in 0 .. UINT64_MAX
      BY <1>3, Sha1Assumption
    <3>2. ASSUME NEW x \in Nat, NEW y \in Nat, x < y PROVE x % y = x
      BY <3>2
    <3> QED
      BY <1>3, <2>1, <3>1, <3>2, Sha1Assumption
  <2>4. 256 + ((len % U32Bytes) - left) = 256 + Taken
    BY <1>3 DEF Taken
  <2> QED
    BY <2>2, <2>3, <2>4
<1>6. /\ stored.msg_block \in Bytes
      /\ \A i \in 0 .. idx : stored.msg_block[i] = 256 + (64 * q + i)
  <2>1. context.msg_block \in Bytes
    BY <1>2 DEF TypesOK
  <2>2. \A i \in 0 .. 63 : i < idx => context.msg_block[i] = 256 + (64 * q + i)
    <3> SUFFICES ASSUME NEW i \in 0 .. 63, i < idx PROVE context.msg_block[i] = 256 + (64 * q + i)
      OBVIOUS
    <3>1. context.msg_block[i] = MessageBlock(q + 1)[i]
      BY <1>2, <1>4 DEF Cut
    <3> QED
      BY <1>4, <3>1 DEF MessageBlock
  <2> QED
    BY <1>3, <1>4, <1>5, <2>1, <2>2 DEF Bytes
<1>7. /\ stored.length = 8 * (Taken + 1) /\ stored.msg_block_idx = idx + 1
      /\ stored.computed \in BOOLEAN /\ stored.corrupted = FALSE
  BY <1>2, <1>5 DEF TypesOK
<1>8. blocks = [b \in 1 .. q |-> MessageBlock(b)]
  BY <1>2 DEF Cut
<1> HIDE DEF stored, q, idx
<1>9. CASE idx = 63
  <2>1. BlockFull(stored)
    BY <1>7, <1>9 DEF BlockFull
  <2>2. /\ context' = [stored EXCEPT !.msg_block_idx = 0]
        /\ blocks' = Append(blocks, stored.msg_block)
    BY <1>1, <2>1 DEF SHA1ProcessMessageBlock
  <2>3. Taken' % 64 = 0 /\ Taken' \div 64 = q + 1
    BY <1>3, <1>4, <1>9, Successor DEF q
  <2>4. context' = [length |-> 8 * (Taken + 1), msg_block_idx |-> 0, msg_block |-> stored.msg_block,
                    computed |-> stored.computed, corrupted |-> FALSE]
    BY <1>5, <2>2
  <2>5. TypesOK'
    <3>1. context' \in [length : Nat, msg_block_idx : 0 .. 63, msg_block : Bytes,
                        computed : BOOLEAN, corrupted : {FALSE}]
      BY <1>3, <1>6, <1>7, <2>4
    <3>2. sha_pc' = "input" /\ len' \in Nat /\ left' \in 0 .. Size'
      BY <1>1, <1>3
    <3> QED
      BY <3>1, <3>2 DEF TypesOK
  <2>6. stored.msg_block = MessageBlock(q + 1)
    <3>1. \A i \in 0 .. 63 : stored.msg_block[i] = 256 + (64 * ((q + 1) - 1) + i)
      BY <1>4, <1>6, <1>9
    <3> QED
      BY <1>6, <3>1 DEF MessageBlock, Bytes
  <2>7. blocks' = [b \in 1 .. q + 1 |-> MessageBlock(b)]
    <3>1. blocks \in Seq(Bytes)
      <4>1. \A b \in 1 .. q : MessageBlock(b) \in Bytes
        BY <1>4 DEF MessageBlock, Bytes
      <4>2. blocks \in [1 .. q -> Bytes]
        BY <1>8, <4>1
      <4> QED
        BY <1>4, <4>2, SeqDef
    <3>2. Len(blocks) = q
      BY <1>4, <1>8, <3>1, LenProperties
    <3> QED
      BY <1>4, <1>8, <2>2, <2>6, <3>1, <3>2
  <2>8. Cut'
    BY <1>3, <2>3, <2>4, <2>7 DEF Cut
  <2> QED
    BY <1>1, <2>5, <2>8
<1>10. CASE idx # 63
  <2>1. ~BlockFull(stored)
    BY <1>4, <1>7, <1>10 DEF BlockFull
  <2>2. context' = stored /\ blocks' = blocks
    BY <1>1, <2>1
  <2>3. Taken' % 64 = idx + 1 /\ Taken' \div 64 = q
    BY <1>3, <1>4, <1>10, Successor DEF q
  <2>4. context' = [length |-> 8 * (Taken + 1), msg_block_idx |-> idx + 1, msg_block |-> stored.msg_block,
                    computed |-> stored.computed, corrupted |-> FALSE]
    BY <1>5, <2>2
  <2>5. TypesOK'
    <3>1. context' \in [length : Nat, msg_block_idx : 0 .. 63, msg_block : Bytes,
                        computed : BOOLEAN, corrupted : {FALSE}]
      BY <1>3, <1>4, <1>6, <1>7, <1>10, <2>4
    <3>2. sha_pc' = "input" /\ len' \in Nat /\ left' \in 0 .. Size'
      BY <1>1, <1>3
    <3> QED
      BY <3>1, <3>2 DEF TypesOK
  <2>6. \A i \in 0 .. 63 : i < Taken' % 64 => context'.msg_block[i] = MessageBlock(q + 1)[i]
    BY <1>4, <1>6, <2>2, <2>3 DEF MessageBlock
  <2>7. Cut'
    <3>1. context'.length = 8 * Taken' /\ context'.msg_block_idx = Taken' % 64
      BY <1>3, <2>3, <2>4
    <3>2. blocks' = [b \in 1 .. Taken' \div 64 |-> MessageBlock(b)]
      BY <1>8, <2>2, <2>3
    <3> QED
      BY <2>3, <2>6, <3>1, <3>2 DEF Cut
  <2> QED
    BY <1>1, <2>5, <2>7
<1> QED
  BY <1>9, <1>10

-----------------------------------------------------------------------------
(* Byte k of the padded message of n bytes, and how many blocks it has.    *)
PaddedByte(n, count, k) ==
  CASE k < n -> 256 + k
    [] k = n -> 128
    [] k > n /\ k < 64 * count - 8 -> 0
    [] OTHER -> ENDIAN_FLIP(8 * n, k - (64 * count - 8))

Count(n) == ((n + 8) \div 64) + 1

PaddedBlock(n, b) == [i \in 0 .. 63 |-> PaddedByte(n, Count(n), 64 * (b - 1) + i)]

LEMMA PaddedBlocks ==
  ASSUME NEW n \in Nat
  PROVE  PaddedMessage(n) = [b \in 1 .. Count(n) |-> PaddedBlock(n, b)]
  BY DEF PaddedMessage, PaddedBlock, PaddedByte, Count

LEMMA WholeBlock ==
  ASSUME NEW n \in Nat, NEW q \in Nat, n >= 64 * q, NEW b \in 1 .. q
  PROVE  MessageBlock(b) = PaddedBlock(n, b)
<1>1. \A i \in 0 .. 63 : 64 * (b - 1) + i < n
  OBVIOUS
<1>2. \A i \in 0 .. 63 : PaddedByte(n, Count(n), 64 * (b - 1) + i) = 256 + (64 * (b - 1) + i)
  BY <1>1 DEF PaddedByte
<1> QED
  BY <1>2 DEF MessageBlock, PaddedBlock

(* The last block, or the last two, that SHA1PadMessage makes.             *)
LastBlocks(n, q) ==
  IF n % 64 > 55 THEN <<PaddedBlock(n, q + 1), PaddedBlock(n, q + 2)>> ELSE <<PaddedBlock(n, q + 1)>>

(* The bytes that are left are in the block of the context c.              *)
Holds(c, n) ==
  /\ c.msg_block_idx = n % 64 /\ c.length = 8 * n /\ c.msg_block \in Bytes
  /\ \A i \in 0 .. 63 : i < n % 64 => c.msg_block[i] = 256 + (64 * (n \div 64) + i)

LEMMA PadBlocks ==
  ASSUME NEW n \in Nat, NEW c, Holds(c, n)
  PROVE  SHA1PadMessage(c) = LastBlocks(n, n \div 64)
<1> DEFINE q == n \div 64
           idx == n % 64
<1>a. q \in Nat /\ idx \in 0 .. 63 /\ n = 64 * q + idx
  BY Quotient
<1>b. Count(n) = IF idx > 55 THEN q + 2 ELSE q + 1
  BY BlockCount DEF Count
<1>c. /\ c.msg_block_idx = idx /\ c.length = 8 * n /\ c.msg_block \in Bytes
      /\ \A i \in 0 .. 63 : i < idx => c.msg_block[i] = 256 + (64 * q + i)
  BY DEF Holds
<1>d. LastBlocks(n, q) =
        IF idx > 55 THEN <<PaddedBlock(n, q + 1), PaddedBlock(n, q + 2)>> ELSE <<PaddedBlock(n, q + 1)>>
  BY DEF LastBlocks
<1> HIDE DEF q, idx
<1> USE <1>a, <1>b, <1>c
<1> DEFINE marked == [c.msg_block EXCEPT ![idx] = 128]
           full == Zeroed(marked, idx + 1, 64)
           ended(block) == [i \in 0 .. 63 |-> IF i < 56 THEN block[i] ELSE ENDIAN_FLIP(8 * n, i - 56)]
<1>1. SHA1PadMessage(c) =
        IF idx > 55 THEN <<full, ended(Zeroed(full, 0, 56))>> ELSE <<ended(Zeroed(marked, idx + 1, 56))>>
  BY DEF SHA1PadMessage, Splits
<1>2. \A i \in 0 .. 63 : marked[i] = IF i = idx THEN 128 ELSE c.msg_block[i]
  BY DEF Bytes
<1>3. CASE idx > 55
  <2>1. \A i \in 0 .. 63 : full[i] = PaddedByte(n, Count(n), 64 * ((q + 1) - 1) + i)
    BY <1>2, <1>3 DEF Zeroed, PaddedByte
  <2>2. full = PaddedBlock(n, q + 1)
    BY <2>1 DEF Zeroed, PaddedBlock
  <2>3. \A i \in 0 .. 63 : ended(Zeroed(full, 0, 56))[i] = PaddedByte(n, Count(n), 64 * ((q + 2) - 1) + i)
    BY <1>3 DEF Zeroed, PaddedByte
  <2>4. ended(Zeroed(full, 0, 56)) = PaddedBlock(n, q + 2)
    BY <2>3 DEF PaddedBlock
  <2> QED
    BY <1>d, <1>1, <1>3, <2>2, <2>4 DEF q
<1>4. CASE ~(idx > 55)
  <2>1. \A i \in 0 .. 63 :
          ended(Zeroed(marked, idx + 1, 56))[i] = PaddedByte(n, Count(n), 64 * ((q + 1) - 1) + i)
    <3> TAKE i \in 0 .. 63
    <3>1. 64 * ((q + 1) - 1) + i = 64 * q + i /\ 64 * Count(n) - 8 = 64 * q + 56
      BY <1>4
    <3>2. CASE i >= 56
      <4>1. PaddedByte(n, Count(n), 64 * q + i) = ENDIAN_FLIP(8 * n, (64 * q + i) - (64 * q + 56))
        BY <1>4, <3>1, <3>2 DEF PaddedByte
      <4>2. (64 * q + i) - (64 * q + 56) = i - 56
        OBVIOUS
      <4> QED
        BY <3>1, <3>2, <4>1, <4>2
    <3>3. CASE i < 56
      <4>1. ended(Zeroed(marked, idx + 1, 56))[i] = IF i > idx THEN 0 ELSE marked[i]
        BY <1>4, <3>3 DEF Zeroed
      <4>2. PaddedByte(n, Count(n), 64 * q + i) =
              IF i < idx THEN 256 + (64 * q + i) ELSE IF i = idx THEN 128 ELSE 0
        BY <1>4, <3>1, <3>3 DEF PaddedByte
      <4> QED
        BY <1>2, <3>1, <4>1, <4>2
    <3> QED
      BY <3>2, <3>3
  <2>2. ended(Zeroed(marked, idx + 1, 56)) = PaddedBlock(n, q + 1)
    BY <2>1 DEF PaddedBlock
  <2> QED
    BY <1>d, <1>1, <1>4, <2>2 DEF q
<1> QED
  BY <1>3, <1>4 DEF q

LEMMA ResultInv == ASSUME Inv, SHA1Result PROVE Inv'
<1> DEFINE n == Size
           q == n \div 64
           idx == n % 64
<1>1. TypesOK /\ Cut /\ sha_pc = "input"
  BY DEF Inv, SHA1Result
<1>2. context.corrupted = FALSE
  BY <1>1 DEF TypesOK
<1>3. /\ left = 0 /\ sha_pc' = "return"
      /\ blocks' = blocks \o SHA1PadMessage(context)
      /\ context' = [SHA1_Init EXCEPT !.computed = TRUE]
      /\ len' = len /\ left' = left
  BY <1>2 DEF SHA1Result
<1>4. n \in Nat /\ Taken = n /\ Size' = n /\ len \in Nat
  BY <1>1, <1>3, SizeBound, Sha1Assumption DEF TypesOK, Size, Taken
<1>5. q \in Nat /\ idx \in 0 .. 63 /\ n = 64 * q + idx
  BY <1>4, Quotient
<1>6. Count(n) = IF idx > 55 THEN q + 2 ELSE q + 1
  BY <1>4, BlockCount DEF Count
<1>7. /\ context.length = 8 * n /\ context.msg_block_idx = idx /\ context.msg_block \in Bytes
      /\ blocks = [b \in 1 .. q |-> MessageBlock(b)]
      /\ \A i \in 0 .. 63 : i < idx => context.msg_block[i] = 256 + (64 * q + i)
  <2>1. \A i \in 0 .. 63 : MessageBlock(q + 1)[i] = 256 + (64 * q + i)
    BY <1>5 DEF MessageBlock
  <2> QED
    BY <1>1, <1>4, <2>1 DEF Cut, TypesOK
<1> HIDE DEF n, q, idx
<1>8. TypesOK'
  <2>1. 0 \in 0 .. Size'
    BY <1>4
  <2>2. context' \in [length : Nat, msg_block_idx : 0 .. 63, msg_block : Bytes,
                      computed : BOOLEAN, corrupted : {FALSE}]
    <3>1. context' = [length |-> 0, msg_block_idx |-> 0, msg_block |-> [i \in 0 .. 63 |-> 0],
                      computed |-> TRUE, corrupted |-> FALSE]
      BY <1>3 DEF SHA1_Init
    <3>2. [i \in 0 .. 63 |-> 0] \in Bytes
      BY DEF Bytes
    <3> QED
      BY <3>1, <3>2
  <2> QED
    BY <1>3, <1>4, <2>1, <2>2 DEF TypesOK
<1>9. blocks = [b \in 1 .. q |-> PaddedBlock(n, b)]
  <2>1. n >= 64 * q
    BY <1>5
  <2>2. \A b \in 1 .. q : MessageBlock(b) = PaddedBlock(n, b)
    BY <1>4, <1>5, <2>1, WholeBlock
  <2> QED
    BY <1>7, <2>2
<1>10. SHA1PadMessage(context) = IF idx > 55 THEN <<PaddedBlock(n, q + 1), PaddedBlock(n, q + 2)>>
                                             ELSE <<PaddedBlock(n, q + 1)>>
  <2>1. Holds(context, n)
    BY <1>7 DEF Holds, q, idx
  <2> QED
    BY <1>4, <2>1, PadBlocks DEF LastBlocks, q, idx
<1>11. blocks' = PaddedMessage(n)
  <2> DEFINE S == {PaddedBlock(n, b) : b \in Nat}
  <2>1. blocks \in Seq(S) /\ Len(blocks) = q
    <3>1. blocks \in [1 .. q -> S]
      BY <1>5, <1>9
    <3>2. blocks \in Seq(S)
      BY <1>5, <3>1, SeqDef
    <3> QED
      BY <1>5, <1>9, <3>2, LenProperties
  <2>2. \A b \in 1 .. q : blocks[b] = PaddedBlock(n, b)
    BY <1>9
  <2>3. blocks' = [b \in 1 .. Count(n) |-> PaddedBlock(n, b)]
    <3>1. CASE idx > 55
      <4> DEFINE pad == <<PaddedBlock(n, q + 1), PaddedBlock(n, q + 2)>>
      <4>1. pad \in Seq(S) /\ Len(pad) = 2 /\ pad[1] = PaddedBlock(n, q + 1) /\ pad[2] = PaddedBlock(n, q + 2)
        BY <1>5
      <4>2. blocks' = blocks \o pad
        BY <1>3, <1>10, <3>1
      <4> HIDE DEF pad, S
      <4>a. /\ blocks \o pad \in Seq(S) /\ Len(blocks \o pad) = Len(blocks) + Len(pad)
            /\ \A b \in 1 .. Len(blocks) + Len(pad) :
                 (blocks \o pad)[b] = IF b <= Len(blocks) THEN blocks[b] ELSE pad[b - Len(blocks)]
        BY <2>1, <4>1, ConcatProperties, Zenon
      <4>3. blocks' \in Seq(S) /\ Len(blocks') = q + 2
        BY <1>5, <2>1, <4>1, <4>2, <4>a
      <4>4. \A b \in 1 .. q + 2 : blocks'[b] = IF b <= q THEN blocks[b] ELSE pad[b - q]
        BY <1>5, <2>1, <4>1, <4>2, <4>a
      <4>5. \A b \in 1 .. q + 2 : blocks'[b] = PaddedBlock(n, b)
        <5> TAKE b \in 1 .. q + 2
        <5>1. CASE b <= q
          BY <1>5, <2>2, <4>4, <5>1
        <5>2. CASE b = q + 1
          <6>1. blocks'[b] = pad[b - q] /\ b - q = 1
            BY <1>5, <4>4, <5>2
          <6> QED
            BY <4>1, <5>2, <6>1
        <5>3. CASE b = q + 2
          <6>1. blocks'[b] = pad[b - q] /\ b - q = 2
            BY <1>5, <4>4, <5>3
          <6> QED
            BY <4>1, <5>3, <6>1
        <5> QED
          BY <1>5, <5>1, <5>2, <5>3
      <4> QED
        BY <1>5, <1>6, <3>1, <4>3, <4>5, LenProperties
    <3>2. CASE ~(idx > 55)
      <4> DEFINE pad == <<PaddedBlock(n, q + 1)>>
      <4>1. pad \in Seq(S) /\ Len(pad) = 1 /\ pad[1] = PaddedBlock(n, q + 1)
        BY <1>5
      <4>2. blocks' = blocks \o pad
        BY <1>3, <1>10, <3>2
      <4> HIDE DEF pad, S
      <4>a. /\ blocks \o pad \in Seq(S) /\ Len(blocks \o pad) = Len(blocks) + Len(pad)
            /\ \A b \in 1 .. Len(blocks) + Len(pad) :
                 (blocks \o pad)[b] = IF b <= Len(blocks) THEN blocks[b] ELSE pad[b - Len(blocks)]
        BY <2>1, <4>1, ConcatProperties, Zenon
      <4>3. blocks' \in Seq(S) /\ Len(blocks') = q + 1
        BY <1>5, <2>1, <4>1, <4>2, <4>a
      <4>4. \A b \in 1 .. q + 1 : blocks'[b] = IF b <= q THEN blocks[b] ELSE pad[b - q]
        BY <1>5, <2>1, <4>1, <4>2, <4>a
      <4>5. \A b \in 1 .. q + 1 : blocks'[b] = PaddedBlock(n, b)
        <5> TAKE b \in 1 .. q + 1
        <5>1. CASE b <= q
          BY <1>5, <2>2, <4>4, <5>1
        <5>2. CASE b = q + 1
          <6>1. blocks'[b] = pad[b - q] /\ b - q = 1
            BY <1>5, <4>4, <5>2
          <6> QED
            BY <4>1, <5>2, <6>1
        <5> QED
          BY <1>5, <5>1, <5>2
      <4> QED
        BY <1>5, <1>6, <3>2, <4>3, <4>5, LenProperties
    <3> QED
      BY <3>1, <3>2
  <2> QED
    BY <1>4, <2>3, PaddedBlocks
<1> QED
  BY <1>3, <1>4, <1>8, <1>11 DEF Inv

-----------------------------------------------------------------------------
(* The bytes of a length are its digits: read back they give the length.   *)
LEMMA Digit ==
  ASSUME NEW x \in Nat
  PROVE  x \div 256 \in Nat /\ x % 256 \in 0 .. 255 /\ x = 256 * (x \div 256) + (x % 256)
  BY SMT

LEMMA LengthDigits ==
  ASSUME NEW x \in Nat, x < 8 * U32Bytes
  PROVE  LET d(i) == ENDIAN_FLIP(x, i) IN
         /\ \A i \in 0 .. 7 : d(i) \in 0 .. 255
         /\ ((((((d(0) * 256 + d(1)) * 256 + d(2)) * 256 + d(3)) * 256
                + d(4)) * 256 + d(5)) * 256 + d(6)) * 256 + d(7) = x
<1> DEFINE by1 == x \div 256
           by2 == by1 \div 256
           by3 == by2 \div 256
           by4 == by3 \div 256
           by5 == by4 \div 256
           by6 == by5 \div 256
           by7 == by6 \div 256
           all == <<by7, by6, by5, by4, by3, by2, by1, x>>
           d(i) == ENDIAN_FLIP(x, i)
<1>1. \A i : d(i) = all[i + 1] % 256
  BY Zenon DEF ENDIAN_FLIP
<1>2. x < 524297 * 65536
  <2>1. U32Bytes \in Nat /\ U32Bytes \div 65536 <= 65536
    BY Sha1Assumption
  <2>2. U32Bytes < 65537 * 65536
    BY <2>1, SMT
  <2> QED
    BY <2>1, <2>2, SMT
<1>3. by1 \in Nat /\ x % 256 \in 0 .. 255 /\ x = 256 * by1 + (x % 256)
  BY Digit
<1> HIDE DEF by1
<1>4. by2 \in Nat /\ by1 % 256 \in 0 .. 255 /\ by1 = 256 * by2 + (by1 % 256)
  BY <1>3, Digit
<1> HIDE DEF by2
<1>5. by3 \in Nat /\ by2 % 256 \in 0 .. 255 /\ by2 = 256 * by3 + (by2 % 256)
  BY <1>4, Digit
<1> HIDE DEF by3
<1>6. by4 \in Nat /\ by3 % 256 \in 0 .. 255 /\ by3 = 256 * by4 + (by3 % 256)
  BY <1>5, Digit
<1> HIDE DEF by4
<1>7. by5 \in Nat /\ by4 % 256 \in 0 .. 255 /\ by4 = 256 * by5 + (by4 % 256)
  BY <1>6, Digit
<1> HIDE DEF by5
<1>8. by6 \in Nat /\ by5 % 256 \in 0 .. 255 /\ by5 = 256 * by6 + (by5 % 256)
  BY <1>7, Digit
<1> HIDE DEF by6
<1>9. by7 \in Nat /\ by6 % 256 \in 0 .. 255 /\ by6 = 256 * by7 + (by6 % 256)
  BY <1>8, Digit
<1>10. by7 % 256 \in 0 .. 255 /\ by7 = by7 % 256
  <2>1. by5 = 0 /\ by6 = 0
    BY <1>2, <1>3, <1>4, <1>5, <1>6, <1>7, <1>8, SMT
  <2>2. by7 = 0
    BY <2>1, SMT
  <2> QED
    BY <2>2, SMT
<1> HIDE DEF by7
<1>11. /\ d(0) = by7 % 256 /\ d(1) = by6 % 256 /\ d(2) = by5 % 256 /\ d(3) = by4 % 256
       /\ d(4) = by3 % 256 /\ d(5) = by2 % 256 /\ d(6) = by1 % 256 /\ d(7) = x % 256
  <2>1. /\ d(0) = all[1] % 256 /\ d(1) = all[2] % 256 /\ d(2) = all[3] % 256
        /\ d(3) = all[4] % 256 /\ d(4) = all[5] % 256 /\ d(5) = all[6] % 256
        /\ d(6) = all[7] % 256 /\ d(7) = all[8] % 256
    <3> HIDE DEF all, d
    <3>1. 0 + 1 = 1 /\ 1 + 1 = 2 /\ 2 + 1 = 3 /\ 3 + 1 = 4 /\ 4 + 1 = 5 /\ 5 + 1 = 6 /\ 6 + 1 = 7 /\ 7 + 1 = 8
      OBVIOUS
    <3> QED
      BY <1>1, <3>1
  <2>2. /\ all[1] = by7 /\ all[2] = by6 /\ all[3] = by5 /\ all[4] = by4
        /\ all[5] = by3 /\ all[6] = by2 /\ all[7] = by1 /\ all[8] = x
    OBVIOUS
  <2> HIDE DEF all, d
  <2> QED
    BY <2>1, <2>2
<1> HIDE DEF all, d
<1>12. /\ d(0) \in 0 .. 255 /\ by7 = d(0)
       /\ d(1) \in 0 .. 255 /\ by6 = 256 * by7 + d(1)
       /\ d(2) \in 0 .. 255 /\ by5 = 256 * by6 + d(2)
       /\ d(3) \in 0 .. 255 /\ by4 = 256 * by5 + d(3)
       /\ d(4) \in 0 .. 255 /\ by3 = 256 * by4 + d(4)
       /\ d(5) \in 0 .. 255 /\ by2 = 256 * by3 + d(5)
       /\ d(6) \in 0 .. 255 /\ by1 = 256 * by2 + d(6)
       /\ d(7) \in 0 .. 255 /\ x = 256 * by1 + d(7)
  <2>1. d(0) \in 0 .. 255 /\ by7 = d(0)
    BY <1>10, <1>11, Zenon
  <2>2. d(1) \in 0 .. 255 /\ by6 = 256 * by7 + d(1)
    BY <1>9, <1>11, Zenon
  <2>3. d(2) \in 0 .. 255 /\ by5 = 256 * by6 + d(2)
    BY <1>8, <1>11, Zenon
  <2>4. d(3) \in 0 .. 255 /\ by4 = 256 * by5 + d(3)
    BY <1>7, <1>11, Zenon
  <2>5. d(4) \in 0 .. 255 /\ by3 = 256 * by4 + d(4)
    BY <1>6, <1>11, Zenon
  <2>6. d(5) \in 0 .. 255 /\ by2 = 256 * by3 + d(5)
    BY <1>5, <1>11, Zenon
  <2>7. d(6) \in 0 .. 255 /\ by1 = 256 * by2 + d(6)
    BY <1>4, <1>11, Zenon
  <2>8. d(7) \in 0 .. 255 /\ x = 256 * by1 + d(7)
    BY <1>3, <1>11, Zenon
  <2> QED
    BY <2>1, <2>2, <2>3, <2>4, <2>5, <2>6, <2>7, <2>8
<1>13. \A i \in 0 .. 7 : d(i) \in 0 .. 255
  <2>1. \A i \in 0 .. 7 : i = 0 \/ i = 1 \/ i = 2 \/ i = 3 \/ i = 4 \/ i = 5 \/ i = 6 \/ i = 7
    OBVIOUS
  <2> QED
    BY <1>12, <2>1, ZenonT(60)
<1>14. ((((((d(0) * 256 + d(1)) * 256 + d(2)) * 256 + d(3)) * 256
           + d(4)) * 256 + d(5)) * 256 + d(6)) * 256 + d(7) = x
  <2>1. /\ by1 \in Nat /\ by2 \in Nat /\ by3 \in Nat /\ by4 \in Nat
        /\ by5 \in Nat /\ by6 \in Nat /\ by7 \in Nat
    BY <1>3, <1>4, <1>5, <1>6, <1>7, <1>8, <1>9, Zenon
  <2> QED
    BY <1>12, <2>1, SMT
<1> QED
  BY <1>13, <1>14 DEF d

(* What the code makes of a message is its standard padding.               *)
LEMMA PaddingIsStandard ==
  ASSUME NEW n \in Nat, n < U32Bytes
  PROVE  StandardPadding(PaddedMessage(n), n)
<1> DEFINE m == PaddedMessage(n)
           size == 64 * Len(m)
           byte(k) == m[(k \div 64) + 1][k % 64]
           end(i) == byte(size - 8 + i)
           d(i) == ENDIAN_FLIP(8 * n, i)
<1>1. /\ m = [b \in 1 .. Count(n) |-> PaddedBlock(n, b)]
      /\ Count(n) \in Nat /\ n + 9 <= 64 * Count(n) /\ 64 * Count(n) < n + 9 + 64
  <2>1. /\ Count(n) \in Nat /\ n + 9 <= 64 * Count(n) /\ 64 * Count(n) < n + 9 + 64
    BY SMT DEF Count
  <2> QED
    BY <2>1, PaddedBlocks
<1> HIDE DEF m
<1>2. Len(m) = Count(n) /\ size = 64 * Count(n)
  BY <1>1
<1>3. \A k \in 0 .. size - 1 : byte(k) = PaddedByte(n, Count(n), k)
  <2> TAKE k \in 0 .. size - 1
  <2>1. /\ k \in Nat /\ k \div 64 \in Nat /\ k % 64 \in 0 .. 63
        /\ k = 64 * (k \div 64) + (k % 64)
    BY <1>1, <1>2, Quotient
  <2>2. (k \div 64) + 1 \in 1 .. Count(n) /\ 64 * (((k \div 64) + 1) - 1) + (k % 64) = k
    <3> DEFINE a == k \div 64
               r == k % 64
    <3> HIDE DEF a, r
    <3>1. a \in Nat /\ r \in 0 .. 63 /\ k = 64 * a + r
      BY <2>1 DEF a, r
    <3>2. a + 1 \in 1 .. Count(n) /\ 64 * ((a + 1) - 1) + r = k
      BY <1>1, <1>2, <3>1
    <3> QED
      BY <3>2 DEF a, r
  <2>3. byte(k) = PaddedBlock(n, (k \div 64) + 1)[k % 64]
    BY <1>1, <2>2
  <2>4. byte(k) = PaddedByte(n, Count(n), 64 * (((k \div 64) + 1) - 1) + (k % 64))
    BY <2>1, <2>3, Zenon DEF PaddedBlock
  <2> QED
    BY <2>2, <2>4
<1> HIDE DEF byte, size
<1>4. \A i \in 0 .. 7 : end(i) = d(i)
  <2> SUFFICES ASSUME NEW i \in 0 .. 7
               PROVE  end(i) = d(i)
    OBVIOUS
  <2> DEFINE k == size - 8 + i
  <2>1. k \in 0 .. size - 1 /\ k > n /\ ~(k < 64 * Count(n) - 8) /\ k - (64 * Count(n) - 8) = i
    <3> DEFINE c == Count(n)
    <3>1. c \in Nat /\ n + 9 <= 64 * c /\ size = 64 * c
      BY <1>1, <1>2
    <3> HIDE DEF c
    <3>2. k = (64 * c - 8) + i /\ k \in 0 .. 64 * c - 1 /\ k > n
      BY <3>1
    <3> QED
      BY <3>1, <3>2 DEF c
  <2> HIDE DEF k
  <2>2. PaddedByte(n, Count(n), k) = ENDIAN_FLIP(8 * n, k - (64 * Count(n) - 8))
    BY <2>1 DEF PaddedByte
  <2>3. byte(k) = d(i)
    BY <1>3, <2>1, <2>2
  <2> QED
    BY <2>3 DEF k
<1>5. /\ \A k \in 0 .. n - 1 : byte(k) = 256 + k
      /\ byte(n) = 128
      /\ \A k \in n + 1 .. size - 9 : byte(k) = 0
  <2>1. ASSUME NEW k \in 0 .. n - 1
        PROVE  byte(k) = 256 + k
    <3>1. k \in 0 .. size - 1 /\ k < n
      BY <1>1, <1>2
    <3> QED
      BY <1>3, <3>1 DEF PaddedByte
  <2>2. byte(n) = 128
    <3>1. n \in 0 .. size - 1 /\ ~(n < n)
      BY <1>1, <1>2
    <3> QED
      BY <1>3, <3>1 DEF PaddedByte
  <2>3. ASSUME NEW k \in n + 1 .. size - 9
        PROVE  byte(k) = 0
    <3>1. k \in 0 .. size - 1 /\ k > n /\ k < 64 * Count(n) - 8
      BY <1>1, <1>2
    <3> QED
      BY <1>3, <3>1 DEF PaddedByte
  <2> QED
    BY <2>1, <2>2, <2>3
<1>6. /\ \A i \in 0 .. 7 : d(i) \in 0 .. 255
      /\ ((((((d(0) * 256 + d(1)) * 256 + d(2)) * 256 + d(3)) * 256
             + d(4)) * 256 + d(5)) * 256 + d(6)) * 256 + d(7) = 8 * n
  <2>1. 8 * n \in Nat /\ 8 * n < 8 * U32Bytes
    BY Sha1Assumption
  <2> QED
    BY <2>1, LengthDigits
<1> HIDE DEF d, end
<1>7. /\ \A i \in 0 .. 7 : end(i) \in 0 .. 255
      /\ ((((((end(0) * 256 + end(1)) * 256 + end(2)) * 256 + end(3)) * 256
             + end(4)) * 256 + end(5)) * 256 + end(6)) * 256 + end(7) = 8 * n
  <2>1. /\ end(0) = d(0) /\ end(1) = d(1) /\ end(2) = d(2) /\ end(3) = d(3)
        /\ end(4) = d(4) /\ end(5) = d(5) /\ end(6) = d(6) /\ end(7) = d(7)
    BY <1>4
  <2>2. \A i \in 0 .. 7 : end(i) \in 0 .. 255
    BY <1>4, <1>6
  <2> QED
    BY <1>6, <2>1, <2>2, ZenonT(60)
<1>8. n + 9 <= size /\ size < n + 9 + 64
  BY <1>1, <1>2
<1> QED
  BY <1>5, <1>7, <1>8, Zenon DEF StandardPadding, m, size, byte, end

-----------------------------------------------------------------------------
(* Inv holds in every state of SHA1_buf, for messages of any lengths.      *)
THEOREM Sha1Invariant == Sha1Spec => []Inv
<1>1. Sha1Init => Inv
  BY InitInv
<1>2. Inv /\ [Sha1Next]_sha1Vars => Inv'
  <2> SUFFICES ASSUME Inv, [Sha1Next]_sha1Vars PROVE Inv'
    OBVIOUS
  <2>1. ASSUME NEW n \in Lengths, SHA1_buf(n) PROVE Inv'
    BY <2>1, CallInv
  <2>2. CASE SHA1Input
    BY <2>2, InputInv
  <2>3. CASE SHA1Result
    BY <2>3, ResultInv
  <2>4. CASE UNCHANGED sha1Vars
    BY <2>4 DEF sha1Vars, Inv, TypesOK, Cut, Size, Taken
  <2> QED
    BY <2>1, <2>2, <2>3, <2>4 DEF Sha1Next, Sha1Step
<1> QED
  BY <1>1, <1>2, PTL DEF Sha1Spec

(* SHA1_buf (sha1.c:240) hashes exactly the standard padding of a message  *)
(* of any length, or of its first len modulo 2^32 bytes, with its length   *)
(* as a number of 64 bits, never stores past its block of 64 bytes, and    *)
(* never corrupts its context.                                             *)
THEOREM MessagesPadded == Sha1Spec => []Padded
<1>1. Inv => Padded
  <2> SUFFICES ASSUME Inv
               PROVE  Padded
    OBVIOUS
  <2>1. Size \in Nat /\ Size < U32Bytes
    BY SizeBound, Sha1Assumption DEF Inv, TypesOK, Size
  <2>2. sha_pc = "return" => StandardPadding(blocks, Size)
    BY <2>1, PaddingIsStandard DEF Inv
  <2> QED
    BY <2>2 DEF Inv, TypesOK, Padded, Size
<1> QED
  BY <1>1, Sha1Invariant, PTL
=============================================================================
