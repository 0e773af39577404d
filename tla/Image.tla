------------------------------- MODULE Image --------------------------------
(***************************************************************************)
(* common/image.c: saving textures as DDS files and loading them, while    *)
(* other threads load or save the same path.                               *)
(*                                                                         *)
(* A DDS file is a unit with the dimensions, a unit with the pixel format  *)
(* and the pixels.  Bit masks, pitch and caps, which no load looks at, are *)
(* left out, and so are images of 4 GiB, whose size would wrap.            *)
(***************************************************************************)
EXTENDS File

CONSTANTS
  Images,    (* Textures that are saved.                                    *)
  Contents,  (* Files of other programs.                                    *)
  BufSize    (* buf_size of the callers of image_buf_load, in units.        *)

VARIABLES
  header,    (* [Readers -> the units of the header that it read]           *)
  img,       (* [Readers -> the texture that image_buf_load returns]        *)
  saving,    (* [Writers -> its next system call]                           *)
  texture    (* [Writers -> the texture that it saves]                      *)

imageVars == <<header, img, saving, texture>>
vars == <<fileVars, imageVars>>

(* The caller's buffer before the call, and after the memset with 0xCC.    *)
own == [kind |-> "own"]
missing == [kind |-> "missing"]

UnitBytes == 64
HeaderUnits == 2

(* The bytes of a block of 4 by 4 pixels.                                  *)
block_size(fmt) == IF fmt \in {"DXT1", "BC4"} THEN 8 ELSE 16

(* The four character code of a format.                                    *)
format_char_code(fmt) == IF fmt = "BC4" THEN "ATI1" ELSE fmt

(* Its inverse in image_buf_load, with DXT3 and DXT5 swapped.              *)
fmt_of(code) ==
  IF code = "DXT5" THEN "DXT3" ELSE IF code = "DXT3" THEN "DXT5" ELSE "DXT1"

dxt_pitch(height, width, block) == (width * height) \div (16 \div block)

(* The bytes that img_write writes of img.data; 8 << unit_size counts bits *)
(* where bytes are meant.                                                  *)
tex_size(i) ==
  IF i.compressed
    THEN dxt_pitch(i.height, i.width, block_size(i.fmt))
    ELSE 8 * 2 ^ i.unit_size * i.channels * i.width * i.height

(* The bytes that img.data has, by the comments of image.h.                *)
data_size(i) ==
  IF i.compressed
    THEN (i.width \div 4) * (i.height \div 4) * block_size(i.fmt)
    ELSE 2 ^ i.unit_size * i.channels * i.width * i.height

(* A unit of the pixels; past img.data it is whatever memory holds.        *)
Pixels(i, n) ==
  IF UnitBytes * n <= data_size(i) THEN [kind |-> "pixels", of |-> i, n |-> n]
                                   ELSE [kind |-> "junk"]

(* Mutant: the height and the width of mk_header in the other order. *)
mk_headerSwapped(i) ==
  <<[kind |-> "DDS ", height |-> i.width, width |-> i.height,
     mips |-> i.mip_level, has_mipmapcount |-> i.mip_level > 0],
    [kind |-> "format", fourcc |-> i.compressed,
     code |-> IF i.compressed THEN format_char_code(i.fmt) ELSE "none"]>>

mk_header(i) ==
  <<[kind |-> "DDS ", height |-> i.height, width |-> i.width,
     mips |-> i.mip_level, has_mipmapcount |-> i.mip_level > 0],
    [kind |-> "format", fourcc |-> i.compressed,
     code |-> IF i.compressed THEN format_char_code(i.fmt) ELSE "none"]>>

(* What img_write writes.                                                  *)
FileOf(i) == mk_header(i) \o [n \in 1 .. tex_size(i) \div UnitBytes |-> Pixels(i, n)]

(* The files of others are finite, a texture has a u32 of mipmaps and of   *)
(* bytes, and so has a buffer.                                             *)
ASSUME ImageAssumption ==
  /\ \A c \in Contents : c \in Seq({c[k] : k \in DOMAIN c})
  /\ \A i \in Images : tex_size(i) \in Nat /\ i.mip_level \in Nat /\ i.compressed \in BOOLEAN
  /\ BufSize \in 0 .. Word - 1

(* What image_buf_load returns when it finds no DDS file.                  *)
default == [height |-> 512, width |-> 512, mip_level |-> 1, compressed |-> TRUE, fmt |-> "DXT1"]

(* What it makes of the header; what was not read is zero.                 *)
Parsed(h) ==
  [height    |-> IF Len(h) >= 1 /\ "height" \in DOMAIN h[1] THEN h[1].height ELSE 0,
   width     |-> IF Len(h) >= 1 /\ "width" \in DOMAIN h[1] THEN h[1].width ELSE 0,
   mip_level |-> IF Len(h) >= 1 /\ "mips" \in DOMAIN h[1] /\ h[1].has_mipmapcount THEN h[1].mips ELSE 0,
   compressed |-> Len(h) = 2 /\ "fourcc" \in DOMAIN h[2] /\ h[2].fourcc,
   fmt       |-> IF Len(h) = 2 /\ "code" \in DOMAIN h[2] THEN fmt_of(h[2].code) ELSE "DXT1"]

Init ==
  /\ FileInit
  /\ header = [t \in Readers |-> <<>>]
  /\ img = [t \in Readers |-> default]
  /\ saving = [w \in Writers |-> "idle"]
  /\ texture \in [Writers -> Images]

-----------------------------------------------------------------------------
(* image_buf_load is called.                                               *)
View(t) ==
  /\ pc[t] \in {"idle", "return", "null"}
  /\ pc' = [pc EXCEPT ![t] = "exists"]
  /\ call' = [call EXCEPT ![t] = "image_buf_load"]
  /\ buf' = [buf EXCEPT ![t] = [n \in 1 .. BufSize |-> own]]
  /\ over' = [over EXCEPT ![t] = FALSE]
  /\ quiet' = [quiet EXCEPT ![t] = TRUE]
  /\ header' = [header EXCEPT ![t] = <<>>]
  /\ img' = [img EXCEPT ![t] = default]
  /\ UNCHANGED <<name, changes, data, size, handle, offset, got, saving, texture>>

ViewExists(t) ==
  /\ call[t] = "image_buf_load"
  /\ Go(t, "exists", IF exists THEN "dds_exists" ELSE "return")
  /\ buf' = IF exists THEN [buf EXCEPT ![t] = [n \in 1 .. BufSize |-> missing]] ELSE buf
  /\ UNCHANGED <<name, changes, data, call, size, handle, offset, got, over, quiet, imageVars>>

(* What is not known to be a DDS file is loaded raw, by file_load_existing. *)
Raw(t, from) ==
  /\ Go(t, from, "existing")
  /\ size' = [size EXCEPT ![t] = BufSize]

(* is_dds looks again, and opens the file for its magic number.            *)
IsDdsExists(t) ==
  /\ IF exists THEN Go(t, "dds_exists", "magic") /\ UNCHANGED size
               ELSE Raw(t, "dds_exists")
  /\ UNCHANGED <<name, changes, data, call, handle, offset, got, buf, over, quiet, imageVars>>

IsDdsOpen(t) ==
  /\ \/ Go(t, "magic", "is_dds") /\ Opened(t) /\ UNCHANGED <<quiet, size>>
     \/ Raw(t, "magic") /\ Fail(t) /\ UNCHANGED <<handle, offset, got>>
  /\ UNCHANGED <<name, changes, data, call, buf, over, imageVars>>

MagicFirst(file) == file # <<>> /\ file[1].kind = "DDS "

IsDds(t) ==
  LET file == data[handle[t]] IN
    /\ pc[t] = "is_dds"
    /\ \/ /\ MagicFirst(file)
          /\ Go(t, "is_dds", "dds_size") /\ UNCHANGED <<size, quiet>>
       \/ /\ ~MagicFirst(file)
          /\ Raw(t, "is_dds") /\ UNCHANGED quiet
       \/ Raw(t, "is_dds") /\ Fail(t)
    /\ Close(t)
    /\ UNCHANGED <<name, changes, call, buf, over, imageVars>>

DdsSize(t) ==
  /\ Go(t, "dds_size", "dds_open")
  /\ size' = [size EXCEPT ![t] = file_size]
  /\ UNCHANGED <<name, changes, data, call, handle, offset, got, buf, over, quiet, imageVars>>

DdsOpen(t) ==
  /\ \/ Go(t, "dds_open", "dds_header") /\ Opened(t) /\ UNCHANGED quiet
     \/ Go(t, "dds_open", "return") /\ Fail(t) /\ UNCHANGED <<handle, offset, got>>
  /\ UNCHANGED <<name, changes, data, call, size, buf, over, imageVars>>

(* Mutant: the header is not subtracted. *)
RemainingWithHeader(t) == size[t]

(* size - sizeof(header), the rest of the file as it was when its size was *)
(* read; below zero it is more than any file has.                          *)
Remaining(t) == IF size[t] >= HeaderUnits THEN size[t] - HeaderUnits ELSE Len(got[t]) + 1

DdsFetch(t) ==
  /\ \/ pc[t] = "dds_header" /\ Len(got[t]) < HeaderUnits
     \/ pc[t] = "dds_data" /\ Len(got[t]) < Remaining(t)
  /\ Fetch(t)
  /\ UNCHANGED <<name, changes, data, call, pc, size, handle, buf, over, quiet, imageVars>>

DdsHeader(t) ==
  /\ Go(t, "dds_header", "dds_data")
  /\ header' = [header EXCEPT ![t] = First(got[t], HeaderUnits)]
  /\ got' = [got EXCEPT ![t] = SubSeq(@, HeaderUnits + 1, Len(@))]
  /\ EndOfRead(t, HeaderUnits)
  /\ UNCHANGED <<name, changes, data, call, size, handle, offset, buf, over, img, saving, texture>>

(* The pixels go to the caller's buffer, whose size is not looked at.      *)
DdsRead(t) ==
  /\ Go(t, "dds_data", "return")
  /\ Store(t, Remaining(t))
  /\ EndOfRead(t, Remaining(t))
  /\ Close(t)
  /\ img' = [img EXCEPT ![t] = Parsed(header[t])]
  /\ UNCHANGED <<name, changes, call, size, header, saving, texture>>

ViewStep(t) ==
  \/ ViewExists(t)
  \/ IsDdsExists(t)
  \/ IsDdsOpen(t)
  \/ IsDds(t)
  \/ DdsSize(t)
  \/ DdsOpen(t)
  \/ DdsFetch(t)
  \/ DdsHeader(t)
  \/ DdsRead(t)

-----------------------------------------------------------------------------
readerVars == <<call, pc, size, got, buf, over, header, img>>

(* img_write is called.                                                    *)
Save(w, i) ==
  /\ saving[w] \in {"idle", "saved"} /\ Change
  /\ saving' = [saving EXCEPT ![w] = "open"]
  /\ texture' = [texture EXCEPT ![w] = i]
  /\ quiet' = [quiet EXCEPT ![w] = TRUE]
  /\ UNCHANGED <<name, data, handle, offset, readerVars>>

(* Mutant: an old file keeps what is not overwritten. *)
OldKept(i) == data[i]

(* fopen with "wb" empties the file that is there.                         *)
Emptied(i) == <<>>

SaveOpen(w) ==
  /\ saving[w] = "open"
  /\ \/ /\ saving' = [saving EXCEPT ![w] = "write"]
        /\ LET i == IF exists THEN name ELSE unused IN
             /\ name' = i
             /\ data' = [data EXCEPT ![i] = Emptied(i)]
             /\ handle' = [handle EXCEPT ![w] = i]
        /\ offset' = [offset EXCEPT ![w] = 0]
        /\ Disturb({w})
     \/ /\ saving' = [saving EXCEPT ![w] = "saved"]
        /\ Fail(w)
        /\ UNCHANGED <<name, data, handle, offset>>
  /\ UNCHANGED <<changes, texture, readerVars>>

(* A write(2) of its stream, at its own offset in the file as it is now.   *)
SaveWrite(w) ==
  LET out == FileOf(texture[w])
      old == data[handle[w]] IN
    /\ saving[w] = "write" /\ offset[w] < Len(out)
    /\ \E n \in {1, Len(out) - offset[w]} :
         LET end == offset[w] + n
             length == IF Len(old) > end THEN Len(old) ELSE end IN
           /\ data' = [data EXCEPT ![handle[w]] =
                [k \in 1 .. length |-> CASE k \in offset[w] + 1 .. end -> out[k]
                                         [] k \in DOMAIN old \ (offset[w] + 1 .. end) -> old[k]
                                         [] OTHER -> nul]]
           /\ offset' = [offset EXCEPT ![w] = end]
    /\ Disturb({w})
    /\ UNCHANGED <<name, changes, handle, saving, texture, readerVars>>

(* Everything is written, or the disk is full, which is not noticed.       *)
SaveClose(w) ==
  /\ saving[w] = "write"
  /\ saving' = [saving EXCEPT ![w] = "saved"]
  /\ LET without == [handle EXCEPT ![w] = None] IN
       handle' = without /\ data' = Kept(data, name, without)
  /\ offset' = [offset EXCEPT ![w] = 0]
  /\ IF offset[w] = Len(FileOf(texture[w])) THEN UNCHANGED quiet ELSE Fail(w)
  /\ UNCHANGED <<name, changes, texture, readerVars>>

SaveStep(w) == SaveOpen(w) \/ SaveWrite(w) \/ SaveClose(w)

ReaderStep(t) == (LoadStep(t) /\ UNCHANGED imageVars) \/ ViewStep(t)

Next ==
  \/ \E t \in Readers : ReaderStep(t) \/ (Load(t) /\ UNCHANGED imageVars) \/ View(t)
  \/ \E w \in Writers : SaveStep(w) \/ \E i \in Images : Save(w, i)
  \/ (\E c \in Contents : Replace(c)) /\ UNCHANGED imageVars
  \/ Remove /\ UNCHANGED imageVars

(* A thread in a load is scheduled; nobody has to call or to save.         *)
Fairness == \A t \in Readers : WF_vars(ReaderStep(t))

Spec == Init /\ [][Next]_vars /\ Fairness

-----------------------------------------------------------------------------
(* Types; a stream is open exactly in the steps between fopen and fclose.  *)
TypeOK ==
  /\ name \in Inodes \cup {None}
  /\ size \in [Readers -> 0 .. Word - 1]
  /\ \A t \in Readers : handle[t] # None <=> pc[t] \in {"read", "is_dds", "dds_header", "dds_data"}
  /\ \A w \in Writers : handle[w] # None <=> saving[w] = "write"
  /\ \A t \in Readers : call[t] = "image_buf_load" => Len(buf[t]) = BufSize

(* A load leaves its buffer only in two cases: file_load of a file one     *)
(* byte short of a multiple of 4 GiB, for which it allocates nothing, and  *)
(* a DDS file that was larger than the buffer, or shorter than a header,   *)
(* when its size was read.  Growing while it is read is not enough, and a  *)
(* raw image never does it.                                                *)
OverrunHasCause ==
  \A t \in Readers : over[t] =>
    \/ call[t] = "file_load" /\ size[t] = Word - 1
    \/ call[t] = "image_buf_load" /\ size[t] - HeaderUnits \notin 0 .. BufSize

(* What img_write saved undisturbed is the whole file, whatever was there. *)
Saved ==
  \A w \in Writers : saving[w] = "saved" /\ quiet[w] =>
    exists /\ data[name] = FileOf(texture[w])

(* The texture i comes back as im: its dimensions and its mipmaps, and of  *)
(* the formats of compressed textures none but DXT1.  The channels of an   *)
(* uncompressed one are not in the file.                                   *)
ComesBack(i, im) ==
  /\ [im EXCEPT !.fmt = i.fmt] =
       [height |-> i.height, width |-> i.width, mip_level |-> i.mip_level,
        compressed |-> i.compressed, fmt |-> i.fmt]
  /\ i.compressed => (im.fmt = i.fmt <=> i.fmt = "DXT1")

(* image_buf_load, undisturbed, returns the dimensions, the mipmaps and    *)
(* the pixels of the texture that was saved, its format if and only if it  *)
(* is DXT1, and a file that is no DDS as it is, if the buffer holds it.    *)
Viewed ==
  \A t \in Readers :
    pc[t] = "return" /\ call[t] = "image_buf_load" /\ quiet[t] /\ exists =>
      LET file == data[name]
          body(k) == [n \in 1 .. BufSize |-> IF n + k <= Len(file) THEN file[n + k] ELSE missing]
      IN  /\ \A i \in Images : file = FileOf(i) /\ Len(file) - HeaderUnits <= BufSize =>
               ComesBack(i, img[t]) /\ buf[t] = body(HeaderUnits)
          /\ ~MagicFirst(file) /\ Len(file) <= BufSize =>
               img[t] = default /\ buf[t] = body(0)

InCall(t) == pc[t] \notin {"idle", "return", "null"}

(* Every load returns, however the file changes under it.                  *)
LoadReturns ==
  \A t \in Readers : InCall(t) ~> ~InCall(t)

=============================================================================
