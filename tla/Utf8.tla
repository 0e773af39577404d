-------------------------------- MODULE Utf8 --------------------------------
(***************************************************************************)
(* common/utf8.h: the encoder, the decoder, and a caller that walks over a *)
(* NUL-terminated string with the lengths that the decoder returns.  The   *)
(* string can start in the middle of a character, or end there.            *)
(***************************************************************************)
EXTENDS Integers, Sequences

CONSTANTS
  Codepoints,  (* Codepoints other than 0.                                  *)
  MaxText      (* Bound: the characters of a text.                          *)

UNICODE_MISSING_CHARACTER == 65533
UNICODE_MAX == 1114111

ASSUME Utf8Assumption ==
  /\ Codepoints \subseteq 1 .. UNICODE_MAX
  /\ MaxText \in Nat

VARIABLES
  utf8_pc,
  text,        (* The codepoints that the string was made of.               *)
  skip, cut,   (* How many bytes are missing at its start and its end.      *)
  bytes,       (* The string, with its NUL.                                 *)
  at,          (* The offset of the walker.                                 *)
  decoded,     (* The codepoints that it got.                               *)
  encoded      (* What codepoint_to_utf8 makes of the codepoint in text.    *)

utf8Vars == <<utf8_pc, text, skip, cut, bytes, at, decoded, encoded>>

(* The length that a first byte announces.                                 *)
utf8_byte_len(byte) ==
  CASE byte \div 128 = 0  -> 1
    [] byte \div 32  = 6  -> 2
    [] byte \div 16  = 14 -> 3
    [] byte \div 8   = 30 -> 4
    [] byte \div 64  = 2  -> 0
    [] OTHER              -> -1

(* The bits of a codepoint in a character of length n, and in its first byte. *)
utf8_starting_shift(n) == IF n = 1 THEN 0 ELSE (8 - (n + 1)) + (n - 1) * 6

(* Mutant: the mask of the first byte keeps a bit of the length. *)
WideBits(n, i) == IF i = 0 THEN 8 - n ELSE 6

data_bits(n, i) == IF i = 0 THEN 8 - (n + 1) ELSE 6

(* utf8_codepoint of the bytes at b[from + 1]: the codepoint and           *)
(* length_out.  A byte that is not there reads as 0.                       *)
utf8_codepoint(b, from) ==
  LET byte(i) == IF from + i < Len(b) THEN b[from + i + 1] ELSE 0
      n == utf8_byte_len(byte(0))
      left(i) == utf8_starting_shift(n) - data_bits(n, 0) - i * data_bits(n, 1)
      cur_shift(i) == IF left(i) > 0 THEN left(i) ELSE 0
      part(i) == IF i < n THEN (byte(i) % 2 ^ data_bits(n, i)) * 2 ^ cur_shift(i) ELSE 0
  IN  CASE n <= 0 -> <<UNICODE_MISSING_CHARACTER, 1>>
        [] n = 1 -> <<byte(0), 1>>
        [] OTHER -> <<part(0) + part(1) + part(2) + part(3), n>>

bits_in_first_byte(c) ==
  IF c > 65536 THEN 3 ELSE IF c > 2048 THEN 4 ELSE IF c > 128 THEN 5 ELSE 7

(* The four bytes of codepoint_to_utf8; the low bits come first.           *)
codepoint_to_utf8(c) ==
  LET first == bits_in_first_byte(c)
      more == 6 - (IF first < 6 THEN first ELSE 6)
  IN  [k \in 1 .. 4 |->
        IF c > UNICODE_MAX \/ k > more + 1 THEN 0
        ELSE IF k = 1 THEN ((30 * 2 ^ first) % 256) + (c % 2 ^ first)
        ELSE 128 + ((c \div 2 ^ (first + 6 * (k - 2))) % 64)]

-----------------------------------------------------------------------------
(* The encoding of the Unicode standard.                                   *)
StandardLen(c) ==
  IF c < 128 THEN 1 ELSE IF c < 2048 THEN 2 ELSE IF c < 65536 THEN 3 ELSE 4

StandardBytes(c) ==
  LET n == StandardLen(c)
      mark == CASE n = 1 -> 0 [] n = 2 -> 192 [] n = 3 -> 224 [] OTHER -> 240
  IN  [k \in 1 .. n |-> IF k = 1 THEN mark + (c \div 64 ^ (n - 1))
                                 ELSE 128 + ((c \div 64 ^ (n - k)) % 64)]

(* The bytes of the first k characters of a text, and of the text.         *)
Joined(s) ==
  LET joined[k \in 0 .. Len(s)] == IF k = 0 THEN <<>> ELSE joined[k - 1] \o StandardBytes(s[k])
  IN  joined

StandardText(s) == Joined(s)[Len(s)]

-----------------------------------------------------------------------------
Utf8Init ==
  /\ utf8_pc = "idle" /\ text = <<>> /\ skip = 0 /\ cut = 0
  /\ bytes = <<>> /\ at = 0 /\ decoded = <<>> /\ encoded = <<>>

(* A walk starts over a text of which bytes are missing at both ends.      *)
Walk(s, first, last) ==
  LET all == StandardText(s) IN
    /\ utf8_pc = "idle"
    /\ first < StandardLen(s[1]) /\ last < StandardLen(s[Len(s)])
    /\ first + last < Len(all)
    /\ utf8_pc' = "walk"
    /\ text' = s /\ skip' = first /\ cut' = last
    /\ bytes' = SubSeq(all, first + 1, Len(all) - last) \o <<0>>
    /\ at' = 0 /\ decoded' = <<>>
    /\ UNCHANGED encoded

(* One call of the decoder, unless the walker is at a NUL; past the end of *)
(* the string nothing it could do is defined.                              *)
WalkStep ==
  /\ utf8_pc = "walk"
  /\ IF at >= Len(bytes)
       THEN utf8_pc' = "overrun" /\ UNCHANGED <<at, decoded>>
       ELSE IF bytes[at + 1] = 0
         THEN utf8_pc' = "end" /\ UNCHANGED <<at, decoded>>
         ELSE LET read == utf8_codepoint(bytes, at) IN
                /\ decoded' = Append(decoded, read[1])
                /\ at' = at + read[2]
                /\ UNCHANGED utf8_pc
  /\ UNCHANGED <<text, skip, cut, bytes, encoded>>

Encode(c) ==
  /\ utf8_pc = "idle"
  /\ utf8_pc' = "encoded"
  /\ text' = <<c>>
  /\ encoded' = codepoint_to_utf8(c)
  /\ UNCHANGED <<skip, cut, bytes, at, decoded>>

Utf8Next ==
  \/ \E n \in 1 .. MaxText : \E s \in [1 .. n -> Codepoints] :
       \E first, last \in 0 .. 3 : Walk(s, first, last)
  \/ WalkStep
  \/ \E c \in Codepoints : Encode(c)

Utf8Spec == Utf8Init /\ [][Utf8Next]_utf8Vars /\ WF_utf8Vars(WalkStep)

-----------------------------------------------------------------------------
(* The walker gets a missing character for every byte of a character whose *)
(* start is missing, and then every character of the text, but for one     *)
(* that is cut off; only behind a cut character can it miss the NUL.  It   *)
(* never stops early.                                                      *)
Decoded ==
  LET lost == IF skip = 0 THEN <<>>
                ELSE [k \in 1 .. StandardLen(text[1]) - skip - (IF Len(text) = 1 THEN cut ELSE 0)
                        |-> UNICODE_MISSING_CHARACTER]
      rest == IF skip = 0 THEN text ELSE Tail(text)
      whole == IF cut = 0 \/ rest = <<>> THEN rest ELSE SubSeq(rest, 1, Len(rest) - 1)
  IN  /\ utf8_pc = "end" /\ cut = 0 => decoded = lost \o rest
      /\ utf8_pc = "end" => SubSeq(decoded, 1, Len(lost \o whole)) = lost \o whole
      /\ utf8_pc = "overrun" => cut > 0 /\ rest # <<>> /\ Len(decoded) = Len(lost \o whole) + 1

(* The character of utf8.h that holds the bytes b.                         *)
Character(b) == [k \in 1 .. 4 |-> IF k <= Len(b) THEN b[k] ELSE 0]

(* The codepoints of more than one byte whose digits are the same from     *)
(* both ends.                                                              *)
Palindromes == {2047, 21845, 43690, 65535, 299593, 599186, 898779}

(* "Encodes a Unicode codepoint as UTF-8": what the standard says comes    *)
(* out exactly for ASCII and for seven other codepoints.                   *)
EncodedStandard(c, b) == b = Character(StandardBytes(c)) <=> c < 128 \/ c \in Palindromes

(* For the others a reader that takes the lowest bits first gets the       *)
(* codepoint from as many bytes as the standard has, but for 80, 800 and   *)
(* 10000 (hexadecimal): they lose their highest bit and are announced too  *)
(* short.                                                                  *)
EncodedReversed(c, b) ==
  LET n == StandardLen(c)
      first == IF n = 1 THEN 7 ELSE 7 - n
      part(k) == IF k <= n THEN (b[k] % 64) * 2 ^ (first + 6 * (k - 2)) ELSE 0
      read == (b[1] % 2 ^ first) + part(2) + part(3) + part(4)
  IN  (utf8_byte_len(b[1]) = n /\ read = c) <=> c \notin {128, 2048, 65536}

Encoded ==
  utf8_pc = "encoded" => EncodedStandard(text[1], encoded) /\ EncodedReversed(text[1], encoded)

(* Of every text utf8.h decodes what it should, and of every codepoint it  *)
(* encodes what the standard says exactly in the cases above.              *)
Transcoded == Decoded /\ Encoded

=============================================================================
