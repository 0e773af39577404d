-------------------------------- MODULE Sha1 --------------------------------
(***************************************************************************)
(* common/sha1.c: how a message is cut into blocks, and how the last ones  *)
(* are padded.  SHA1ProcessMessageBlock consumes a block; the digest is a  *)
(* function of the blocks, so that the compression itself is left out.     *)
(*                                                                         *)
(* A byte is its value; byte i of the message stands as 256 + i, different *)
(* from every byte of the padding.                                         *)
(***************************************************************************)
EXTENDS Integers, Sequences

CONSTANTS
  Lengths,    (* The lengths of messages, in bytes.                         *)
  U32Bytes,   (* 2^32: the length that SHA1Input takes is a u32.            *)
  UINT64_MAX

ASSUME Sha1Assumption ==
  /\ Lengths \subseteq Nat
  /\ U32Bytes \in Nat \ {0} /\ U32Bytes \div 65536 <= 65536
  /\ UINT64_MAX \in Nat /\ 8 * U32Bytes + 8 < UINT64_MAX

VARIABLES
  sha_pc,     (* Where the call of SHA1_buf is.                             *)
  len,        (* Its len, a u64.                                            *)
  left,       (* The length of SHA1Input, counting down.                    *)
  context,    (* The SHA1Context.                                           *)
  blocks      (* The blocks that were processed.                            *)

sha1Vars == <<sha_pc, len, left, context, blocks>>

SHA1_Init ==
  [length |-> 0, msg_block_idx |-> 0, msg_block |-> [i \in 0 .. 63 |-> 0],
   computed |-> FALSE, corrupted |-> FALSE]

Sha1Init ==
  /\ sha_pc = "idle" /\ len = 0 /\ left = 0
  /\ context = SHA1_Init /\ blocks = <<>>

(* SHA1_buf is called; its len becomes a u32 on the way to SHA1Input.      *)
SHA1_buf(n) ==
  /\ sha_pc = "idle"
  /\ sha_pc' = "input"
  /\ len' = n
  /\ left' = n % U32Bytes
  /\ context' = SHA1_Init
  /\ blocks' = <<>>

(* The block that is full, and the context after it was processed.         *)
SHA1ProcessMessageBlock(c) == [c EXCEPT !.msg_block_idx = 0]

BlockFull(c) == c.msg_block_idx = 64

(* One byte; the last 8 bits of a u64 length mark the context corrupted.   *)
SHA1Input ==
  LET c == [length |-> (context.length + 8) % (UINT64_MAX + 1),
            msg_block_idx |-> context.msg_block_idx + 1,
            msg_block |-> [context.msg_block EXCEPT
                             ![context.msg_block_idx] = 256 + ((len % U32Bytes) - left)],
            computed |-> context.computed,
            corrupted |-> context.length >= UINT64_MAX - 8]
  IN  /\ sha_pc = "input" /\ left > 0 /\ ~context.corrupted
      /\ left' = left - 1
      /\ context' = IF BlockFull(c) THEN SHA1ProcessMessageBlock(c) ELSE c
      /\ blocks' = IF BlockFull(c) THEN Append(blocks, c.msg_block) ELSE blocks
      /\ UNCHANGED <<sha_pc, len>>

(* Byte k of the u64 n in big-endian order, as ENDIAN_FLIP leaves it in    *)
(* memory: n shifted by 7 - k bytes, and cut to one.                       *)
ENDIAN_FLIP(n, k) ==
  LET by1 == n \div 256
      by2 == by1 \div 256
      by3 == by2 \div 256
      by4 == by3 \div 256
      by5 == by4 \div 256
      by6 == by5 \div 256
      by7 == by6 \div 256
  IN  <<by7, by6, by5, by4, by3, by2, by1, n>>[k + 1] % 256

(* Mutant: a message of 56 bytes, modulo 64, gets one block. *)
SplitsLate(idx) == idx > 56

(* Whether the block has no room for the mark and the length.              *)
Splits(idx) == idx > 55

Zeroed(block, from, to) == [i \in 0 .. 63 |-> IF i \in from .. to - 1 THEN 0 ELSE block[i]]

(* The block or the two that SHA1PadMessage makes of the last bytes.       *)
SHA1PadMessage(c) ==
  LET marked == [c.msg_block EXCEPT ![c.msg_block_idx] = 128]
      from == c.msg_block_idx + 1
      ended(block) == [i \in 0 .. 63 |-> IF i < 56 THEN block[i] ELSE ENDIAN_FLIP(c.length, i - 56)]
      full == Zeroed(marked, from, 64)
  IN  IF Splits(c.msg_block_idx)
        THEN <<full, ended(Zeroed(full, 0, 56))>>
        ELSE <<ended(Zeroed(marked, from, 56))>>

(* The context is cleared but for `computed`; when it is corrupted, the    *)
(* digest is left zero.                                                    *)
SHA1Result ==
  /\ sha_pc = "input" /\ (left = 0 \/ context.corrupted)
  /\ sha_pc' = "return"
  /\ IF context.corrupted
       THEN UNCHANGED <<context, blocks>>
       ELSE /\ blocks' = blocks \o SHA1PadMessage(context)
            /\ context' = [SHA1_Init EXCEPT !.computed = TRUE]
  /\ UNCHANGED <<len, left>>

Sha1Step == SHA1Input \/ SHA1Result

Sha1Next == (\E n \in Lengths : SHA1_buf(n)) \/ Sha1Step

Sha1Spec == Sha1Init /\ [][Sha1Next]_sha1Vars /\ WF_sha1Vars(Sha1Step)

-----------------------------------------------------------------------------
(* The blocks m are a message of n bytes padded as in FIPS 180: a one bit, *)
(* the fewest zeros that make whole blocks, and the length in bits, a      *)
(* big-endian number of 64 bits.                                           *)
StandardPadding(m, n) ==
  LET size == 64 * Len(m)
      byte(k) == m[(k \div 64) + 1][k % 64]
      end(i) == byte(size - 8 + i)
      bits == ((((((end(0) * 256 + end(1)) * 256 + end(2)) * 256 + end(3)) * 256
                 + end(4)) * 256 + end(5)) * 256 + end(6)) * 256 + end(7)
  IN  /\ n + 9 <= size /\ size < n + 9 + 64
      /\ \A k \in 0 .. n - 1 : byte(k) = 256 + k
      /\ byte(n) = 128
      /\ \A k \in n + 1 .. size - 9 : byte(k) = 0
      /\ \A i \in 0 .. 7 : end(i) \in 0 .. 255
      /\ bits = 8 * n

(* SHA1_buf hashes exactly the standard padding of the message, whatever   *)
(* its length is next to the ends of a block; of a message of 2^32 bytes   *)
(* or more only the first len modulo 2^32 bytes count.  A byte never goes  *)
(* past the end of the block, and no context that it makes is corrupted.   *)
Padded ==
  /\ context.msg_block_idx \in 0 .. 63
  /\ ~context.corrupted
  /\ sha_pc = "return" => StandardPadding(blocks, len % U32Bytes)

=============================================================================
