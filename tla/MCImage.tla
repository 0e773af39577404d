------------------------------ MODULE MCImage -------------------------------
(***************************************************************************)
(* One thread that loads, one that saves, and another program.  2^32 bytes *)
(* are six units; the files of the other program have the sizes at which   *)
(* a u32 and the extra byte wrap.                                          *)
(***************************************************************************)
EXTENDS Image

CONSTANTS r1, w1

MCReaders == {r1}
MCWriters == {w1}
MCInodes == 1 .. 4

(* Two compressed textures that fill the buffer exactly, one of the format *)
(* that is read back and one of another, with mipmaps, and an uncompressed *)
(* texture whose file has a unit more than the buffer.                     *)
MCImages ==
  {[width |-> 16, height |-> 8, mip_level |-> 3, compressed |-> TRUE, fmt |-> "DXT3",
    unit_size |-> 0, channels |-> 4],
   [width |-> 16, height |-> 16, mip_level |-> 0, compressed |-> TRUE, fmt |-> "DXT1",
    unit_size |-> 0, channels |-> 4],
   [width |-> 8, height |-> 3, mip_level |-> 0, compressed |-> FALSE, fmt |-> "DXT1",
    unit_size |-> 0, channels |-> 1]}

Text(n) == [k \in 1 .. n |-> [kind |-> "text", n |-> k]]

MCContents == {Text(n) : n \in {2, 5, 7}}
=============================================================================
