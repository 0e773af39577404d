---------------------------- MODULE ImageProofs -----------------------------
(***************************************************************************)
(* Loads and saves of one path by any number of threads, while other       *)
(* programs replace and remove the file: types, what may be written past a *)
(* buffer, the NUL behind a text, and what an undisturbed file_load,       *)
(* image_buf_load or img_write comes to.                                   *)
(***************************************************************************)
EXTENDS Image, SequenceTheorems, TLAPS

(***************************************************************************)
(* The inductive invariant.                                                *)
(***************************************************************************)

(* What a file, a stream or a buffer is made of.                           *)
Elements(s) == {s[k] : k \in 1 .. Len(s)}

Files == Contents \cup {FileOf(i) : i \in Images}
Unit == {nul, own, missing} \cup UNION {Elements(f) : f \in Files}

LoadPcs == {"existing", "fits", "open", "read"}
ViewPcs == {"dds_exists", "magic", "is_dds", "dds_size", "dds_open", "dds_header", "dds_data"}
Streams == {"read", "is_dds", "dds_header", "dds_data"}

Shape ==
  /\ name \in Inodes \cup {None}
  /\ data \in [Inodes -> Seq(Unit)]
  /\ call \in [Readers -> {"none", "file_load", "image_buf_load"}]
  /\ pc \in [Readers -> {"idle", "exists", "size", "return", "null"} \cup LoadPcs \cup ViewPcs]
  /\ size \in [Readers -> 0 .. Word - 1]
  /\ handle \in [Threads -> Inodes \cup {None}]
  /\ offset \in [Threads -> Nat]
  /\ got \in [Readers -> Seq(Unit)]
  /\ buf \in [Readers -> Seq(Unit)]
  /\ over \in [Readers -> BOOLEAN]
  /\ quiet \in [Threads -> BOOLEAN]
  /\ saving \in [Writers -> {"idle", "open", "write", "saved"}]
  /\ texture \in [Writers -> Images]

(* n units of which nothing was read yet.                                  *)
Blank(n) == [i \in 1 .. n |-> nul]

(* The byte after the size that file_load read first is NUL, if the buffer *)
(* has any bytes.                                                          *)
NulBehind(b, n) == b # <<>> => Len(b) = n + 1 /\ b[n + 1] = nul

(* What the variables of a reader hold at each point of its calls.         *)
OwnLoad(t) ==
  /\ handle[t] # None <=> pc[t] \in Streams
  /\ over[t] => pc[t] = "return"
  /\ pc[t] = "idle" <=> call[t] = "none"
  /\ call[t] = "file_load" =>
       /\ pc[t] \notin ViewPcs
       /\ pc[t] \in {"exists", "size"} => buf[t] = <<>>
       /\ pc[t] \in LoadPcs \cup {"return"} => Len(buf[t]) = Allocate(size[t])
       /\ NulBehind(buf[t], size[t])
       /\ over[t] => size[t] = Word - 1
  /\ call[t] = "image_buf_load" =>
       /\ pc[t] # "size" /\ Len(buf[t]) = BufSize
       /\ pc[t] \in LoadPcs => size[t] = BufSize
       /\ over[t] => size[t] - HeaderUnits \notin 0 .. BufSize

(* The file as file_load returns it when nobody touches it.                *)
Whole(t) ==
  /\ exists
  /\ file_size + 1 < Word => buf[t] = SubSeq(data[name], 1, file_size) \o <<nul>>

(* How far an undisturbed file_load has come.                              *)
QuietLoad(t) ==
  call[t] = "file_load" /\ quiet[t] =>
    /\ pc[t] \in {"size"} \cup LoadPcs => exists
    /\ pc[t] \in LoadPcs => size[t] = file_size /\ buf[t] = Blank(Allocate(size[t]))
    /\ pc[t] = "read" =>
         /\ handle[t] = name /\ offset[t] <= Len(data[name])
         /\ got[t] = SubSeq(data[name], 1, offset[t])
    /\ pc[t] = "null" => ~exists
    /\ pc[t] = "return" => Whole(t)

(* How far a save has come.                                                *)
OwnSave(w) ==
  /\ handle[w] # None <=> saving[w] = "write"
  /\ saving[w] = "write" /\ quiet[w] =>
       /\ handle[w] = name /\ offset[w] <= Len(FileOf(texture[w]))
       /\ data[name] = SubSeq(FileOf(texture[w]), 1, offset[w])
  /\ saving[w] = "saved" /\ quiet[w] => exists /\ data[name] = FileOf(texture[w])

Inv ==
  /\ Shape
  /\ \A t \in Readers : OwnLoad(t) /\ QuietLoad(t)
  /\ \A w \in Writers : OwnSave(w)

(* The steps after the magic number was found.                             *)
DdsPcs == {"dds_size", "dds_open", "dds_header", "dds_data"}

(* The units of a file from the k-th on, in the buffer of the caller.      *)
Body(file, k) == [n \in 1 .. BufSize |-> IF n + k <= Len(file) THEN file[n + k] ELSE missing]

Pictured(t) ==
  /\ \A i \in Images : data[name] = FileOf(i) /\ Len(data[name]) - HeaderUnits <= BufSize =>
       ComesBack(i, img[t]) /\ buf[t] = Body(data[name], HeaderUnits)
  /\ ~MagicFirst(data[name]) /\ Len(data[name]) <= BufSize =>
       img[t] = default /\ buf[t] = Body(data[name], 0)

HeaderTaken(t) ==
  /\ HeaderUnits <= offset[t]
  /\ header[t] = SubSeq(data[name], 1, HeaderUnits)
  /\ got[t] = SubSeq(data[name], HeaderUnits + 1, offset[t])

(* How far an undisturbed image_buf_load has come.                         *)
QuietView(t) ==
  call[t] = "image_buf_load" /\ quiet[t] =>
    /\ pc[t] \in {"exists"} \cup LoadPcs \cup ViewPcs => img[t] = default
    /\ pc[t] \in LoadPcs \cup ViewPcs => exists /\ buf[t] = [n \in 1 .. BufSize |-> missing]
    /\ pc[t] \in LoadPcs => ~MagicFirst(data[name])
    /\ pc[t] \in DdsPcs => MagicFirst(data[name])
    /\ pc[t] \in DdsPcs \ {"dds_size"} => size[t] = file_size
    /\ pc[t] \in Streams => handle[t] = name /\ offset[t] <= Len(data[name])
    /\ pc[t] \in {"read", "dds_header"} => got[t] = SubSeq(data[name], 1, offset[t])
    /\ pc[t] = "dds_data" /\ HeaderUnits <= Len(data[name]) => HeaderTaken(t)
    /\ pc[t] = "return" /\ exists => Pictured(t)

(* What every undisturbed image_buf_load has come to: an invariant on top  *)
(* of Inv.                                                                 *)
ViewInvariant ==
  /\ header = [t \in Readers |-> header[t]] /\ img = [t \in Readers |-> img[t]]
  /\ \A t \in Readers : QuietView(t)

(***************************************************************************)
(* Sequences.                                                              *)
(***************************************************************************)

LEMMA FunctionIsSeq ==
  ASSUME NEW S, NEW n \in Nat, NEW f, f = [i \in 1 .. n |-> f[i]],
         \A i \in 1 .. n : f[i] \in S
  PROVE  f \in Seq(S) /\ Len(f) = n
<1>1. f \in [1 .. n -> S]
  OBVIOUS
<1>2. f \in Seq(S)
  BY <1>1, SeqDef
<1>3. Len(f) \in Nat /\ DOMAIN f = 1 .. Len(f)
  BY <1>2, LenProperties
<1>4. 1 .. Len(f) = 1 .. n
  BY <1>1, <1>3
<1>5. Len(f) = n
  BY <1>3, <1>4
<1> QED
  BY <1>2, <1>5

LEMMA Filled ==
  ASSUME NEW S, NEW n \in Nat, NEW x \in S
  PROVE  /\ [i \in 1 .. n |-> x] \in Seq(S) /\ Len([i \in 1 .. n |-> x]) = n
         /\ \A i \in 1 .. n : [j \in 1 .. n |-> x][i] = x
<1> DEFINE f == [i \in 1 .. n |-> x]
<1>1. f = [i \in 1 .. n |-> f[i]] /\ \A i \in 1 .. n : f[i] = x
  OBVIOUS
<1> HIDE DEF f
<1>2. f \in Seq(S) /\ Len(f) = n
  BY <1>1, FunctionIsSeq
<1> QED
  BY <1>1, <1>2 DEF f

(* A beginning of a sequence.                                              *)
LEMMA Beginning ==
  ASSUME NEW S, NEW s \in Seq(S), NEW n \in Nat, n <= Len(s)
  PROVE  /\ SubSeq(s, 1, n) \in Seq(S) /\ Len(SubSeq(s, 1, n)) = n
         /\ \A i \in 1 .. n : SubSeq(s, 1, n)[i] = s[i]
<1>1. \A i \in 1 .. n : s[i] \in S
  BY ElementOfSeq, LenProperties
<1>2. /\ SubSeq(s, 1, n) \in Seq(S)
      /\ Len(SubSeq(s, 1, n)) = IF 1 <= n THEN n - 1 + 1 ELSE 0
      /\ \A i \in 1 .. n - 1 + 1 : SubSeq(s, 1, n)[i] = s[1 + i - 1]
  BY <1>1, SubSeqProperties
<1> QED
  BY <1>2

LEMMA FirstProperties ==
  ASSUME NEW S, NEW s \in Seq(S), NEW n \in Nat
  PROVE  /\ First(s, n) \in Seq(S) /\ Len(First(s, n)) <= n /\ Len(First(s, n)) <= Len(s)
         /\ Len(First(s, n)) \in Nat
<1>1. Len(s) \in Nat
  BY LenProperties
<1>2. PICK m \in Nat : m = (IF n < Len(s) THEN n ELSE Len(s)) /\ m <= n /\ m <= Len(s)
  BY <1>1
<1>3. First(s, n) = SubSeq(s, 1, m)
  BY <1>2 DEF First
<1> QED
  BY <1>1, <1>2, <1>3, Beginning

(* All of the beginning of s up to off that n units ask for.               *)
LEMMA FirstOfBeginning ==
  ASSUME NEW S, NEW s \in Seq(S), NEW off \in Nat, off <= Len(s), NEW n \in Nat, n <= off
  PROVE  First(SubSeq(s, 1, off), n) = SubSeq(s, 1, n)
<1> DEFINE b == SubSeq(s, 1, off)
<1>1. b \in Seq(S) /\ Len(b) = off /\ \A i \in 1 .. off : b[i] = s[i]
  BY Beginning
<1>2. Len(s) \in Nat
  BY LenProperties
<1> HIDE DEF b
<1>3. First(b, n) = SubSeq(b, 1, n)
  BY <1>1 DEF First
<1>4. SubSeq(b, 1, n) \in Seq(S) /\ Len(SubSeq(b, 1, n)) = n /\ \A i \in 1 .. n : SubSeq(b, 1, n)[i] = s[i]
  BY <1>1, Beginning
<1>5. SubSeq(s, 1, n) \in Seq(S) /\ Len(SubSeq(s, 1, n)) = n /\ \A i \in 1 .. n : SubSeq(s, 1, n)[i] = s[i]
  BY <1>2, Beginning
<1>6. SubSeq(b, 1, n) = SubSeq(s, 1, n)
  BY <1>4, <1>5, SeqEqual
<1> QED
  BY <1>3, <1>6 DEF b

(* A read continues where the last one ended.                              *)
LEMMA MoreOfBeginning ==
  ASSUME NEW S, NEW s \in Seq(S), NEW off \in Nat, NEW n \in Nat \ {0}, off + n <= Len(s)
  PROVE  SubSeq(s, 1, off) \o SubSeq(s, off + 1, off + n) = SubSeq(s, 1, off + n)
<1>1. Len(s) \in Nat
  BY LenProperties
<1> DEFINE a == SubSeq(s, 1, off)
           b == SubSeq(s, off + 1, off + n)
           c == SubSeq(s, 1, off + n)
<1>2. a \in Seq(S) /\ Len(a) = off /\ \A i \in 1 .. off : a[i] = s[i]
  BY <1>1, Beginning
<1>3. b \in Seq(S) /\ Len(b) = n /\ \A i \in 1 .. n : b[i] = s[off + i]
  <2>1. \A i \in off + 1 .. off + n : s[i] \in S
    BY <1>1, ElementOfSeq
  <2> QED
    BY <2>1, SubSeqProperties
<1>4. c \in Seq(S) /\ Len(c) = off + n /\ \A i \in 1 .. off + n : c[i] = s[i]
  BY <1>1, Beginning
<1> HIDE DEF a, b, c
<1>5. /\ a \o b \in Seq(S) /\ Len(a \o b) = off + n
      /\ \A i \in 1 .. off + n : (a \o b)[i] = IF i <= off THEN a[i] ELSE b[i - off]
  BY <1>2, <1>3, ConcatProperties
<1>6. \A i \in 1 .. off + n : (a \o b)[i] = c[i]
  <2>1. ASSUME NEW i \in 1 .. off PROVE (a \o b)[i] = c[i]
    <3>1. i \in 1 .. off + n /\ i <= off
      OBVIOUS
    <3> QED
      BY <1>2, <1>4, <1>5, <3>1
  <2>2. ASSUME NEW i \in off + 1 .. off + n PROVE (a \o b)[i] = c[i]
    <3>1. i - off \in 1 .. n /\ off + (i - off) = i /\ i \in 1 .. off + n /\ ~(i <= off)
      OBVIOUS
    <3>2. b[i - off] = s[off + (i - off)]
      BY <1>3, <3>1
    <3>3. (a \o b)[i] = b[i - off]
      BY <1>5, <3>1
    <3> QED
      BY <1>4, <3>1, <3>2, <3>3
  <2>3. \A i \in 1 .. off + n : i \in 1 .. off \/ i \in off + 1 .. off + n
    OBVIOUS
  <2> QED
    BY <2>1, <2>2, <2>3
<1>7. a \o b = c
  BY <1>4, <1>5, <1>6, SeqEqual
<1> QED
  BY <1>7 DEF a, b, c

(***************************************************************************)
(* The constants.                                                          *)
(***************************************************************************)

LEMMA ConstantTypes ==
  /\ Word \in Nat /\ Word > 1 /\ None \notin Inodes /\ Readers \cap Writers = {}
  /\ BufSize \in 0 .. Word - 1 /\ BufSize \in Nat
  /\ nul \in Unit /\ own \in Unit /\ missing \in Unit
  /\ Contents \subseteq Seq(Unit)
  /\ \A i \in Images : FileOf(i) \in Seq(Unit)
  /\ \A n \in 0 .. Word - 1 : Allocate(n) = IF n = Word - 1 THEN 0 ELSE n + 1
<1>1. /\ Word \in Nat /\ Word > 1 /\ None \notin Inodes /\ Readers \cap Writers = {}
      /\ BufSize \in 0 .. Word - 1 /\ BufSize \in Nat
  BY FileAssumption, ImageAssumption
<1>2. nul \in Unit /\ own \in Unit /\ missing \in Unit
  BY DEF Unit
<1>3. ASSUME NEW c \in Contents PROVE c \in Seq(Unit)
  <2>1. c \in Seq({c[k] : k \in DOMAIN c})
    BY ImageAssumption
  <2>2. Len(c) \in Nat /\ DOMAIN c = 1 .. Len(c) /\ c = [k \in 1 .. Len(c) |-> c[k]]
    BY <2>1, LenProperties
  <2>3. Elements(c) \subseteq Unit
    BY DEF Unit, Files
  <2>4. \A k \in 1 .. Len(c) : c[k] \in Unit
    BY <2>3 DEF Elements
  <2> QED
    BY <2>2, <2>4, FunctionIsSeq
<1>6. ASSUME NEW i \in Images PROVE Elements(FileOf(i)) \subseteq Unit
  <2>1. FileOf(i) \in Files
    BY DEF Files
  <2>2. \A f \in Files : Elements(f) \subseteq Unit
    BY DEF Unit
  <2> QED
    BY <2>1, <2>2
<1>4. ASSUME NEW i \in Images PROVE FileOf(i) \in Seq(Unit)
  <2> DEFINE m == tex_size(i) \div UnitBytes
             p == [n \in 1 .. m |-> Pixels(i, n)]
             h == mk_header(i)
             S == {h[1], h[2]} \cup {Pixels(i, n) : n \in 1 .. m}
  <2>1. m \in Nat
    BY ImageAssumption DEF UnitBytes
  <2>2. h \in Seq(S)
    <3>1. h = [k \in 1 .. 2 |-> h[k]]
      BY DEF mk_header
    <3>2. \A k \in 1 .. 2 : h[k] \in S
      OBVIOUS
    <3> QED
      BY <3>1, <3>2, FunctionIsSeq
  <2>3. p \in Seq(S)
    <3>1. \A n \in 1 .. m : p[n] \in S
      OBVIOUS
    <3>2. p = [n \in 1 .. m |-> p[n]]
      OBVIOUS
    <3> QED
      BY <2>1, <3>1, <3>2, FunctionIsSeq
  <2> DEFINE f == FileOf(i)
  <2>4. f = h \o p
    BY DEF FileOf
  <2> HIDE DEF h, p, S, m
  <2>5. f \in Seq(S)
    BY <2>2, <2>3, <2>4, ConcatProperties
  <2>6. Len(f) \in Nat /\ f = [k \in 1 .. Len(f) |-> f[k]]
    BY <2>5, LenProperties
  <2>7. Elements(f) \subseteq Unit
    BY <1>6
  <2> HIDE DEF f
  <2>8. f \in Seq(Unit)
    <3>1. Elements(f) \subseteq Unit
      BY <2>7
    <3>2. \A k \in 1 .. Len(f) : f[k] \in Unit
      BY <3>1 DEF Elements
    <3> QED
      BY <2>6, <3>2, FunctionIsSeq
  <2> QED
    BY <2>8 DEF f
<1>5. ASSUME NEW n \in 0 .. Word - 1
      PROVE  Allocate(n) = IF n = Word - 1 THEN 0 ELSE n + 1
  <2>1. CASE n = Word - 1
    <3>1. (n + 1) % Word = Word % Word
      BY <1>1, <2>1
    <3>2. Word % Word = 0
      BY <1>1
    <3> QED
      BY <2>1, <3>1, <3>2 DEF Allocate
  <2>2. CASE n < Word - 1
    <3>1. n + 1 \in Nat /\ n + 1 < Word
      BY <1>1, <2>2
    <3>2. (n + 1) % Word = n + 1
      BY <1>1, <3>1
    <3> QED
      BY <2>2, <3>2 DEF Allocate
  <2> QED
    BY <1>1, <2>1, <2>2
<1> QED
  BY <1>1, <1>2, <1>3, <1>4, <1>5

(***************************************************************************)
(* What a step of one thread leaves of the others.                         *)
(***************************************************************************)

SameReader(r) ==
  /\ call'[r] = call[r] /\ pc'[r] = pc[r] /\ size'[r] = size[r] /\ handle'[r] = handle[r]
  /\ offset'[r] = offset[r] /\ got'[r] = got[r] /\ buf'[r] = buf[r] /\ over'[r] = over[r]

SameWriter(w) ==
  /\ handle'[w] = handle[w] /\ offset'[w] = offset[w]
  /\ saving'[w] = saving[w] /\ texture'[w] = texture[w]

(* x is not undisturbed any more, or the file is as it was.                *)
Calm(x) ==
  quiet'[x] => /\ quiet[x] /\ name' = name
               /\ exists => data'[name] = data[name]

LEMMA ReaderKept ==
  ASSUME NEW r \in Readers, SameReader(r), Calm(r), OwnLoad(r), QuietLoad(r)
  PROVE  OwnLoad(r)' /\ QuietLoad(r)'
<1>1. OwnLoad(r)'
  BY DEF SameReader, OwnLoad
<1>2. ASSUME call'[r] = "file_load", quiet'[r]
      PROVE  /\ name' = name /\ file_size' = file_size
             /\ exists => data'[name'] = data[name]
  BY <1>2 DEF Calm, exists, file_size, st_size
<1>3. QuietLoad(r)'
  <2> SUFFICES ASSUME call'[r] = "file_load", quiet'[r]
               PROVE  /\ pc'[r] \in {"size"} \cup LoadPcs => exists'
                      /\ pc'[r] \in LoadPcs => size'[r] = file_size' /\ buf'[r] = Blank(Allocate(size[r]))'
                      /\ pc'[r] = "read" =>
                           /\ handle'[r] = name' /\ offset'[r] <= Len(data'[name'])
                           /\ got'[r] = SubSeq(data'[name'], 1, offset'[r])
                      /\ pc'[r] = "null" => ~exists'
                      /\ pc'[r] = "return" => Whole(r)'
    BY DEF QuietLoad
  <2>1. call[r] = "file_load" /\ quiet[r]
    BY DEF SameReader, Calm
  <2>2. name' = name /\ file_size' = file_size /\ buf'[r] = buf[r]
    BY <1>2 DEF SameReader
  <2>3. Whole(r) => Whole(r)'
    BY <1>2, <2>2 DEF Whole, exists
  <2> QED
    BY <1>2, <2>1, <2>2, <2>3 DEF QuietLoad, SameReader, LoadPcs, exists
<1> QED
  BY <1>1, <1>3

LEMMA WriterKept ==
  ASSUME None \notin Inodes, Shape, NEW w \in Writers, SameWriter(w), Calm(w), OwnSave(w)
  PROVE  OwnSave(w)'
BY DEF SameWriter, Calm, OwnSave, exists

(* A step of the reader t.                                                 *)
ReaderOnly(t) ==
  /\ name' = name
  /\ exists => data'[name] = data[name]
  /\ \A r \in Readers \ {t} : SameReader(r) /\ quiet'[r] = quiet[r]
  /\ \A w \in Writers : SameWriter(w) /\ quiet'[w] = quiet[w]

LEMMA ReaderFrame ==
  ASSUME Inv, NEW t \in Readers,
         ReaderOnly(t), Shape', OwnLoad(t)', QuietLoad(t)'
  PROVE  Inv' /\ ReaderOnly(t)
<1>1. ASSUME NEW r \in Readers \ {t} PROVE OwnLoad(r)' /\ QuietLoad(r)'
  <2>1. SameReader(r) /\ Calm(r) /\ OwnLoad(r) /\ QuietLoad(r)
    BY DEF ReaderOnly, Calm, Inv
  <2> QED
    BY <2>1, ReaderKept
<1>2. ASSUME NEW w \in Writers PROVE OwnSave(w)'
  <2>1. SameWriter(w) /\ Calm(w) /\ OwnSave(w) /\ Shape /\ None \notin Inodes
    BY ConstantTypes DEF ReaderOnly, Calm, Inv
  <2> QED
    BY <2>1, WriterKept
<1> QED
  BY <1>1, <1>2 DEF Inv

(***************************************************************************)
(* The system calls and the parts of the library that several steps use.   *)
(***************************************************************************)

LEMMA Sizes ==
  ASSUME Shape
  PROVE  st_size \in Nat /\ file_size \in 0 .. Word - 1 /\ file_size \in Nat
<1>1. st_size \in Nat
  BY LenProperties DEF st_size, exists, Shape
<1>2. Word \in Nat /\ Word > 1
  BY ConstantTypes
<1> DEFINE n == st_size
<1>3. n \in Nat
  BY <1>1
<1> HIDE DEF n
<1>4. n % Word \in 0 .. Word - 1
  BY <1>2, <1>3
<1> QED
  BY <1>1, <1>4 DEF n, file_size

LEMMA KeptFile ==
  ASSUME NEW d \in [Inodes -> Seq(Unit)], NEW n, NEW h
  PROVE  /\ Kept(d, n, h) \in [Inodes -> Seq(Unit)]
         /\ n \in Inodes => Kept(d, n, h)[n] = d[n]
<1>1. <<>> \in Seq(Unit)
  BY EmptySeq
<1> QED
  BY <1>1 DEF Kept

LEMMA CloseLemma ==
  ASSUME Shape, NEW t \in Readers, Close(t), name' = name
  PROVE  /\ handle' = [handle EXCEPT ![t] = None] /\ offset' = [offset EXCEPT ![t] = 0]
         /\ got' = [got EXCEPT ![t] = <<>>]
         /\ handle' \in [Threads -> Inodes \cup {None}] /\ offset' \in [Threads -> Nat]
         /\ got' \in [Readers -> Seq(Unit)] /\ data' \in [Inodes -> Seq(Unit)]
         /\ exists => data'[name] = data[name]
<1> DEFINE without == [handle EXCEPT ![t] = None]
<1>1. /\ handle' = without /\ data' = Kept(data, name, without)
      /\ offset' = [offset EXCEPT ![t] = 0] /\ got' = [got EXCEPT ![t] = <<>>]
  BY DEF Close
<1>2. data \in [Inodes -> Seq(Unit)]
  BY DEF Shape
<1> HIDE DEF without
<1>3. data' \in [Inodes -> Seq(Unit)] /\ (name \in Inodes => data'[name] = data[name])
  BY <1>1, <1>2, KeptFile
<1>4. exists => name \in Inodes
  BY DEF exists, Shape
<1>5. handle' \in [Threads -> Inodes \cup {None}] /\ offset' \in [Threads -> Nat]
  BY <1>1 DEF Shape, Threads, without
<1>6. got' \in [Readers -> Seq(Unit)]
  BY <1>1, EmptySeq DEF Shape
<1> QED
  BY <1>1, <1>3, <1>4, <1>5, <1>6 DEF without

LEMMA OpenLemma ==
  ASSUME Shape, NEW t \in Readers, Opened(t)
  PROVE  /\ exists /\ name \in Inodes
         /\ handle' = [handle EXCEPT ![t] = name] /\ offset' = [offset EXCEPT ![t] = 0]
         /\ got' = [got EXCEPT ![t] = <<>>]
         /\ handle' \in [Threads -> Inodes \cup {None}] /\ offset' \in [Threads -> Nat]
         /\ got' \in [Readers -> Seq(Unit)]
BY EmptySeq DEF Shape, Threads, Opened, exists

(* A read(2) gets a piece of the file behind the offset.                   *)
LEMMA FetchLemma ==
  ASSUME Shape, NEW t \in Readers, handle[t] \in Inodes, Fetch(t)
  PROVE  /\ \E n \in Nat \ {0} :
              /\ offset[t] + n <= Len(data[handle[t]])
              /\ got' = [got EXCEPT ![t] = got[t] \o SubSeq(data[handle[t]], offset[t] + 1, offset[t] + n)]
              /\ offset' = [offset EXCEPT ![t] = offset[t] + n]
         /\ got' \in [Readers -> Seq(Unit)] /\ offset' \in [Threads -> Nat]
<1> DEFINE file == data[handle[t]]
           rest == Len(file) - offset[t]
<1>1. file \in Seq(Unit) /\ Len(file) \in Nat /\ offset[t] \in Nat /\ got[t] \in Seq(Unit)
  BY LenProperties DEF Shape, Threads
<1>2. PICK n \in {1, rest} :
        /\ got' = [got EXCEPT ![t] = got[t] \o SubSeq(file, offset[t] + 1, offset[t] + n)]
        /\ offset' = [offset EXCEPT ![t] = offset[t] + n]
  BY DEF Fetch
<1>3. rest > 0
  BY DEF Fetch
<1>4. n \in Nat \ {0} /\ offset[t] + n <= Len(file)
  BY <1>1, <1>3
<1> DEFINE piece == SubSeq(file, offset[t] + 1, offset[t] + n)
<1>5. piece \in Seq(Unit)
  <2>1. \A i \in offset[t] + 1 .. offset[t] + n : file[i] \in Unit
    BY <1>1, <1>4, ElementOfSeq
  <2> HIDE DEF file
  <2> QED
    BY <1>1, <1>4, <2>1, SubSeqProperties
<1>6. got[t] \o piece \in Seq(Unit)
  <2> HIDE DEF piece
  <2> QED
    BY <1>1, <1>5, ConcatProperties
<1>7. got' \in [Readers -> Seq(Unit)]
  BY <1>2, <1>6 DEF Shape
<1>8. offset' \in [Threads -> Nat]
  <2>1. offset[t] + n \in Nat /\ offset \in [Threads -> Nat]
    BY <1>1, <1>4 DEF Shape
  <2> QED
    BY <1>2, <2>1
<1> QED
  BY <1>2, <1>4, <1>7, <1>8

(* What fread stores: no longer than the buffer was, and nothing of it is  *)
(* touched behind what was asked for.                                      *)
LEMMA StoreLemma ==
  ASSUME Shape, NEW t \in Readers, NEW n \in Nat, Store(t, n)
  PROVE  /\ buf' \in [Readers -> Seq(Unit)] /\ over' \in [Readers -> BOOLEAN]
         /\ Len(buf'[t]) = Len(buf[t])
         /\ \A i \in 1 .. Len(buf[t]) :
              buf'[t][i] = IF i <= Len(First(got[t], n)) THEN First(got[t], n)[i] ELSE buf[t][i]
         /\ over'[t] <=> Len(First(got[t], n)) > Len(buf[t])
         /\ Len(First(got[t], n)) \in Nat /\ Len(First(got[t], n)) <= n
         /\ \A r \in Readers \ {t} : buf'[r] = buf[r] /\ over'[r] = over[r]
<1> DEFINE read == First(got[t], n)
           b == buf[t]
           c == [i \in DOMAIN b |-> IF i <= Len(read) THEN read[i] ELSE b[i]]
<1>1. got[t] \in Seq(Unit) /\ b \in Seq(Unit)
  BY DEF Shape
<1>2. read \in Seq(Unit) /\ Len(read) \in Nat /\ Len(read) <= n
  BY <1>1, FirstProperties
<1>3. Len(b) \in Nat /\ DOMAIN b = 1 .. Len(b)
  BY <1>1, LenProperties
<1>4. buf' = [buf EXCEPT ![t] = c] /\ over' = [over EXCEPT ![t] = Len(read) > Len(b)]
  BY DEF Store
<1> HIDE DEF read, b
<1>5. /\ c = [i \in 1 .. Len(b) |-> c[i]]
      /\ \A i \in 1 .. Len(b) : c[i] = IF i <= Len(read) THEN read[i] ELSE b[i]
  BY <1>3
<1>6. \A i \in 1 .. Len(b) : c[i] \in Unit
  <2> SUFFICES ASSUME NEW i \in 1 .. Len(b) PROVE c[i] \in Unit
    OBVIOUS
  <2>1. b[i] \in Unit
    BY <1>1, ElementOfSeq
  <2>2. i <= Len(read) => read[i] \in Unit
    BY <1>2, <1>3, ElementOfSeq
  <2> HIDE DEF c
  <2> QED
    BY <1>5, <2>1, <2>2
<1> HIDE DEF c
<1>7. c \in Seq(Unit) /\ Len(c) = Len(b)
  BY <1>3, <1>5, <1>6, FunctionIsSeq
<1>8. buf'[t] = c /\ (over'[t] <=> Len(read) > Len(b))
  BY <1>4 DEF Shape
<1>9. buf' \in [Readers -> Seq(Unit)]
  BY <1>4, <1>7 DEF Shape
<1>10. over' \in [Readers -> BOOLEAN]
  BY <1>4 DEF Shape
<1>11. \A r \in Readers \ {t} : buf'[r] = buf[r] /\ over'[r] = over[r]
  BY <1>4 DEF Shape
<1> QED
  BY <1>2, <1>5, <1>7, <1>8, <1>9, <1>10, <1>11 DEF read, b

(***************************************************************************)
(* Init and the steps of a file_load.                                      *)
(***************************************************************************)

LEMMA InitInv ==
  ASSUME Init
  PROVE  Inv
<1>1. Shape
  <2>1. <<>> \in Seq(Unit) /\ 0 \in 0 .. Word - 1
    BY ConstantTypes, EmptySeq
  <2> QED
    BY <2>1 DEF Init, FileInit, Shape
<1>2. \A t \in Readers : OwnLoad(t) /\ QuietLoad(t)
  BY DEF Init, FileInit, OwnLoad, QuietLoad, Streams, Threads
<1>3. \A w \in Writers : OwnSave(w)
  BY DEF Init, FileInit, OwnSave, Threads
<1> QED
  BY <1>1, <1>2, <1>3 DEF Inv

LEMMA LoadInv ==
  ASSUME Inv, NEW t \in Readers, Load(t), UNCHANGED imageVars
  PROVE  Inv' /\ ReaderOnly(t)
<1>1. pc[t] \in {"idle", "return", "null"} /\ pc' = [pc EXCEPT ![t] = "exists"]
  BY DEF Load
<1>2. /\ call' = [call EXCEPT ![t] = "file_load"] /\ buf' = [buf EXCEPT ![t] = <<>>]
      /\ over' = [over EXCEPT ![t] = FALSE] /\ quiet' = [quiet EXCEPT ![t] = TRUE]
      /\ UNCHANGED <<name, data, size, handle, offset, got, saving, texture>>
  BY DEF Load, imageVars
<1>3. Shape'
  BY <1>1, <1>2, EmptySeq DEF Inv, Shape
<1>4. ReaderOnly(t)
  BY <1>1, <1>2, ConstantTypes DEF Inv, Shape, Threads, ReaderOnly, SameReader, SameWriter
<1>5. OwnLoad(t)'
  BY <1>1, <1>2 DEF Inv, Shape, OwnLoad, Streams, ViewPcs, LoadPcs, NulBehind
<1>6. QuietLoad(t)'
  BY <1>1, <1>2 DEF Inv, Shape, QuietLoad, LoadPcs
<1> QED
  BY <1>3, <1>4, <1>5, <1>6, ReaderFrame

(* The steps that only look at the path.                                   *)
LEMMA LookInv ==
  ASSUME Inv, NEW t \in Readers,
         LoadExists(t) \/ ExistingExists(t) \/ ExistingFits(t), UNCHANGED imageVars
  PROVE  Inv' /\ ReaderOnly(t)
<1>1. /\ \/ /\ call[t] = "file_load" /\ pc[t] = "exists"
            /\ pc' = [pc EXCEPT ![t] = IF exists THEN "size" ELSE "null"]
         \/ /\ pc[t] = "existing"
            /\ pc' = [pc EXCEPT ![t] = IF exists THEN "fits" ELSE "return"]
         \/ /\ pc[t] = "fits"
            /\ pc' = [pc EXCEPT ![t] = IF file_size <= size[t] THEN "open" ELSE "return"]
      /\ UNCHANGED <<name, data, call, size, handle, offset, got, buf, over, quiet, saving, texture>>
  BY DEF LoadExists, ExistingExists, ExistingFits, Go, imageVars
<1>2. Shape'
  BY <1>1 DEF Inv, Shape, LoadPcs
<1>3. ReaderOnly(t)
  BY <1>1 DEF Inv, Shape, ReaderOnly, SameReader, SameWriter
<1>4. OwnLoad(t)'
  BY <1>1 DEF Inv, Shape, OwnLoad, Streams, ViewPcs, LoadPcs
<1>5. QuietLoad(t)'
  <2> SUFFICES ASSUME call[t] = "file_load", quiet[t]
               PROVE  QuietLoad(t)'
    BY <1>1 DEF QuietLoad
  <2>1. exists' <=> exists
    BY <1>1 DEF exists
  <2>2. file_size' = file_size /\ file_size \in Nat
    <3>1. file_size \in Nat
      BY Sizes DEF Inv
    <3>2. file_size' = file_size
      BY <1>1 DEF file_size, st_size, exists
    <3> QED
      BY <3>1, <3>2
  <2>3. pc'[t] # "read"
    BY <1>1 DEF Inv, Shape
  <2>4. pc'[t] \in {"size"} \cup LoadPcs => exists
    BY <1>1 DEF Inv, Shape, QuietLoad, LoadPcs
  <2>5. pc'[t] \in LoadPcs => pc[t] \in LoadPcs
    BY <1>1 DEF Inv, Shape, LoadPcs
  <2>6. pc'[t] # "return"
    <3>1. pc[t] \in LoadPcs => exists /\ size[t] = file_size
      BY DEF Inv, QuietLoad
    <3> QED
      BY <1>1, <2>2, <3>1 DEF Inv, Shape, LoadPcs
  <2>7. pc'[t] = "null" => ~exists'
    BY <1>1, <2>1 DEF Inv, Shape
  <2>8. pc[t] \in LoadPcs => size[t] = file_size /\ buf[t] = Blank(Allocate(size[t]))
    BY DEF Inv, QuietLoad
  <2> QED
    BY <1>1, <2>1, <2>2, <2>3, <2>4, <2>5, <2>6, <2>7, <2>8 DEF QuietLoad
<1> QED
  BY <1>2, <1>3, <1>4, <1>5, ReaderFrame

(* The buffer is blank and a byte longer than the size, if there is one.   *)
LEMMA BlankBuffer ==
  ASSUME NEW n \in 0 .. Word - 1
  PROVE  /\ Allocate(n) \in Nat
         /\ Blank(Allocate(n)) \in Seq(Unit) /\ Len(Blank(Allocate(n))) = Allocate(n)
         /\ NulBehind(Blank(Allocate(n)), n)
<1>1. Word \in Nat /\ Word > 1 /\ nul \in Unit /\ Allocate(n) = IF n = Word - 1 THEN 0 ELSE n + 1
  BY ConstantTypes
<1> DEFINE m == Allocate(n)
<1>2. m \in Nat
  BY <1>1
<1> HIDE DEF m
<1>3. /\ Blank(m) \in Seq(Unit) /\ Len(Blank(m)) = m
      /\ \A i \in 1 .. m : Blank(m)[i] = nul
  BY <1>1, <1>2, Filled DEF Blank
<1>4. Blank(m) # <<>> => m = n + 1
  <2>1. ASSUME m = 0 PROVE Blank(m) = <<>>
    BY <1>3, <2>1, EmptySeq
  <2> QED
    BY <1>1, <2>1 DEF m
<1>5. NulBehind(Blank(m), n)
  BY <1>2, <1>3, <1>4 DEF NulBehind
<1> QED
  BY <1>2, <1>3, <1>5 DEF m

LEMMA LoadSizeInv ==
  ASSUME Inv, NEW t \in Readers, LoadSize(t), UNCHANGED imageVars
  PROVE  Inv' /\ ReaderOnly(t)
<1> DEFINE n == file_size
<1>1. pc[t] = "size" /\ n \in 0 .. Word - 1 /\ n \in Nat
  <2>1. n \in 0 .. Word - 1 /\ n \in Nat
    BY Sizes DEF Inv
  <2> QED
    BY <2>1 DEF LoadSize, Go
<1>2. UNCHANGED <<name, data, call, handle, offset, got, over, saving, texture>>
  BY DEF LoadSize, imageVars
<1>3. size' = [size EXCEPT ![t] = n]
  BY DEF LoadSize
<1>4. \/ /\ pc' = [pc EXCEPT ![t] = "existing"]
         /\ buf' = [buf EXCEPT ![t] = Blank(Allocate(n))] /\ quiet' = quiet
      \/ /\ pc' = [pc EXCEPT ![t] = "null"]
         /\ buf' = buf /\ quiet' = [quiet EXCEPT ![t] = FALSE]
  BY DEF LoadSize, Go, Fail, Blank
<1>5. file_size' = n /\ (exists' <=> exists)
  BY <1>2 DEF file_size, st_size, exists
<1> HIDE DEF n
<1>6. /\ Allocate(n) \in Nat
      /\ Blank(Allocate(n)) \in Seq(Unit) /\ Len(Blank(Allocate(n))) = Allocate(n)
      /\ NulBehind(Blank(Allocate(n)), n)
  BY <1>1, BlankBuffer
<1>7. Shape'
  <2>1. size' \in [Readers -> 0 .. Word - 1]
    BY <1>1, <1>3 DEF Inv, Shape
  <2>2. buf' \in [Readers -> Seq(Unit)]
    BY <1>4, <1>6 DEF Inv, Shape
  <2>3. pc' \in [Readers -> {"idle", "exists", "size", "return", "null"} \cup LoadPcs \cup ViewPcs]
    BY <1>4 DEF Inv, Shape, LoadPcs
  <2>4. quiet' \in [Threads -> BOOLEAN]
    BY <1>4 DEF Inv, Shape
  <2> QED
    BY <1>2, <2>1, <2>2, <2>3, <2>4 DEF Inv, Shape
<1>8. ReaderOnly(t)
  BY <1>2, <1>3, <1>4, ConstantTypes DEF Inv, Shape, Threads, ReaderOnly, SameReader, SameWriter
<1>9. call[t] = "file_load" /\ buf[t] = <<>> /\ handle[t] = None /\ ~over[t]
  BY <1>1 DEF Inv, Shape, OwnLoad, Streams
<1>10. OwnLoad(t)'
  <2>1. /\ handle'[t] = None /\ ~over'[t] /\ call'[t] = "file_load" /\ size'[t] = n
        /\ pc'[t] \in {"existing", "null"}
    BY <1>2, <1>3, <1>4, <1>9 DEF Inv, Shape
  <2>2. pc'[t] = "existing" => buf'[t] = Blank(Allocate(n))
    BY <1>4 DEF Inv, Shape
  <2>3. buf'[t] \in {<<>>, Blank(Allocate(n))}
    BY <1>4, <1>9 DEF Inv, Shape
  <2>4. NulBehind(buf'[t], n)
    BY <1>6, <2>3 DEF NulBehind
  <2> QED
    BY <1>6, <2>1, <2>2, <2>4 DEF OwnLoad, Streams, ViewPcs, LoadPcs
<1>11. QuietLoad(t)'
  <2> SUFFICES ASSUME quiet'[t] PROVE QuietLoad(t)'
    BY DEF QuietLoad
  <2>1. /\ pc'[t] = "existing" /\ buf'[t] = Blank(Allocate(n)) /\ size'[t] = n
        /\ quiet[t] /\ call'[t] = "file_load"
    BY <1>2, <1>3, <1>4, <1>9 DEF Inv, Shape, Threads
  <2>2. exists
    BY <1>1, <1>9, <2>1 DEF Inv, QuietLoad
  <2> QED
    BY <1>5, <2>1, <2>2 DEF QuietLoad
<1> QED
  BY <1>7, <1>8, <1>10, <1>11, ReaderFrame

LEMMA ExistingOpenInv ==
  ASSUME Inv, NEW t \in Readers, ExistingOpen(t), UNCHANGED imageVars
  PROVE  Inv' /\ ReaderOnly(t)
<1>1. pc[t] = "open"
  BY DEF ExistingOpen, Go
<1>2. UNCHANGED <<name, data, call, size, buf, over, saving, texture>>
  BY DEF ExistingOpen, imageVars
<1>3. ~over[t] /\ handle[t] = None
  BY <1>1 DEF Inv, Shape, OwnLoad, Streams, Threads
<1>4. CASE pc' = [pc EXCEPT ![t] = "read"] /\ Opened(t) /\ quiet' = quiet
  <2>1. /\ exists /\ name \in Inodes
        /\ handle' = [handle EXCEPT ![t] = name] /\ offset' = [offset EXCEPT ![t] = 0]
        /\ got' = [got EXCEPT ![t] = <<>>]
        /\ handle' \in [Threads -> Inodes \cup {None}] /\ offset' \in [Threads -> Nat]
        /\ got' \in [Readers -> Seq(Unit)]
    BY <1>4, OpenLemma DEF Inv
  <2>2. Shape'
    BY <1>2, <1>4, <2>1 DEF Inv, Shape, LoadPcs
  <2>3. ReaderOnly(t)
    BY <1>2, <1>4, <2>1, ConstantTypes DEF Inv, Shape, Threads, ReaderOnly, SameReader, SameWriter
  <2>4. pc'[t] = "read" /\ handle'[t] = name /\ offset'[t] = 0 /\ got'[t] = <<>> /\ name # None
    BY <1>4, <2>1 DEF Inv, Shape, Threads, exists
  <2>5. OwnLoad(t)'
    BY <1>1, <1>2, <1>3, <2>4 DEF Inv, Shape, OwnLoad, Streams, ViewPcs, LoadPcs
  <2>6. QuietLoad(t)'
    <3> SUFFICES ASSUME call[t] = "file_load", quiet[t] PROVE QuietLoad(t)'
      BY <1>2, <1>4 DEF QuietLoad
    <3>1. size[t] = file_size /\ buf[t] = Blank(Allocate(size[t]))
      BY <1>1 DEF Inv, QuietLoad, LoadPcs
    <3>2. file_size' = file_size /\ exists'
      BY <1>2, <2>1 DEF file_size, st_size, exists
    <3>3. data[name] \in Seq(Unit) /\ Len(data[name]) \in Nat
      BY <2>1, LenProperties DEF Inv, Shape
    <3>4. SubSeq(data[name], 1, 0) = <<>>
      BY SubSeqEmpty
    <3> QED
      BY <1>2, <2>4, <3>1, <3>2, <3>3, <3>4 DEF QuietLoad
  <2> QED
    BY <2>2, <2>3, <2>5, <2>6, ReaderFrame
<1>5. CASE /\ pc' = [pc EXCEPT ![t] = "return"] /\ quiet' = [quiet EXCEPT ![t] = FALSE]
           /\ UNCHANGED <<handle, offset, got>>
  <2>1. Shape'
    BY <1>2, <1>5 DEF Inv, Shape
  <2>2. ReaderOnly(t)
    BY <1>2, <1>5, ConstantTypes DEF Inv, Shape, Threads, ReaderOnly, SameReader, SameWriter
  <2>3. OwnLoad(t)'
    BY <1>1, <1>2, <1>3, <1>5 DEF Inv, Shape, OwnLoad, Streams, ViewPcs, LoadPcs
  <2>4. QuietLoad(t)'
    BY <1>5 DEF Inv, Shape, Threads, QuietLoad
  <2> QED
    BY <2>1, <2>2, <2>3, <2>4, ReaderFrame
<1> QED
  BY <1>4, <1>5 DEF ExistingOpen, Go, Fail

LEMMA ExistingFetchInv ==
  ASSUME Inv, NEW t \in Readers, ExistingFetch(t), UNCHANGED imageVars
  PROVE  Inv' /\ ReaderOnly(t)
<1>1. pc[t] = "read" /\ Fetch(t)
  BY DEF ExistingFetch
<1>2. UNCHANGED <<name, data, call, pc, size, handle, buf, over, quiet, saving, texture>>
  BY DEF ExistingFetch, imageVars
<1>3. handle[t] \in Inodes
  BY <1>1 DEF Inv, Shape, OwnLoad, Streams, Threads
<1>4. PICK n \in Nat \ {0} :
        /\ offset[t] + n <= Len(data[handle[t]])
        /\ got' = [got EXCEPT ![t] = got[t] \o SubSeq(data[handle[t]], offset[t] + 1, offset[t] + n)]
        /\ offset' = [offset EXCEPT ![t] = offset[t] + n]
  BY <1>1, <1>3, FetchLemma DEF Inv
<1>5. got' \in [Readers -> Seq(Unit)] /\ offset' \in [Threads -> Nat]
  BY <1>1, <1>3, FetchLemma DEF Inv
<1>6. Shape'
  BY <1>2, <1>5 DEF Inv, Shape
<1>7. ReaderOnly(t)
  BY <1>2, <1>4, ConstantTypes DEF Inv, Shape, Threads, ReaderOnly, SameReader, SameWriter
<1>8. OwnLoad(t)'
  BY <1>2 DEF Inv, OwnLoad
<1>9. QuietLoad(t)'
  <2> SUFFICES ASSUME call[t] = "file_load", quiet[t] PROVE QuietLoad(t)'
    BY <1>2 DEF QuietLoad
  <2>1. /\ exists /\ size[t] = file_size /\ buf[t] = Blank(Allocate(size[t]))
        /\ handle[t] = name /\ got[t] = SubSeq(data[name], 1, offset[t])
    BY <1>1 DEF Inv, QuietLoad, LoadPcs
  <2>2. file_size' = file_size /\ exists'
    BY <1>2, <2>1 DEF file_size, st_size, exists
  <2>3. data[name] \in Seq(Unit) /\ offset[t] \in Nat
    BY <1>3, <2>1 DEF Inv, Shape, Threads
  <2>4. SubSeq(data[name], 1, offset[t]) \o SubSeq(data[name], offset[t] + 1, offset[t] + n)
        = SubSeq(data[name], 1, offset[t] + n)
    <3>1. offset[t] + n <= Len(data[name])
      BY <1>4, <2>1
    <3> DEFINE d == data[name]
               off == offset[t]
    <3>2. d \in Seq(Unit) /\ off \in Nat /\ off + n <= Len(d)
      BY <2>3, <3>1
    <3> HIDE DEF d, off
    <3>3. SubSeq(d, 1, off) \o SubSeq(d, off + 1, off + n) = SubSeq(d, 1, off + n)
      BY <3>2, MoreOfBeginning
    <3> QED
      BY <3>3 DEF d, off
  <2>5. offset'[t] = offset[t] + n /\ got'[t] = SubSeq(data[name], 1, offset[t] + n)
    BY <1>4, <2>1, <2>4 DEF Inv, Shape, Threads
  <2>6. pc'[t] = "read" /\ handle'[t] = name' /\ offset'[t] <= Len(data'[name'])
        /\ got'[t] = SubSeq(data'[name'], 1, offset'[t])
    BY <1>1, <1>2, <1>4, <2>1, <2>5
  <2> QED
    BY <1>2, <2>1, <2>2, <2>6 DEF QuietLoad
<1> QED
  BY <1>6, <1>7, <1>8, <1>9, ReaderFrame

(* What an undisturbed read leaves in a blank buffer.                      *)
LEMMA WholeBuffer ==
  ASSUME NEW S, NEW d \in Seq(S), NEW n \in Nat, n <= Len(d), NEW x \in S,
         NEW b \in Seq(S), Len(b) = n + 1, b[n + 1] = x,
         \A i \in 1 .. n : b[i] = SubSeq(d, 1, n)[i]
  PROVE  b = SubSeq(d, 1, n) \o <<x>>
<1> DEFINE a == SubSeq(d, 1, n)
           e == <<x>>
           c == a \o e
<1>1. Len(d) \in Nat
  BY LenProperties
<1>2. a \in Seq(S) /\ Len(a) = n
  BY <1>1, Beginning
<1>3. e \in Seq(S) /\ Len(e) = 1 /\ e[1] = x
  OBVIOUS
<1> HIDE DEF a, e
<1>4. c \in Seq(S) /\ Len(c) = n + 1 /\ \A i \in 1 .. n + 1 : c[i] = IF i <= n THEN a[i] ELSE e[i - n]
  <2>1. /\ a \o e \in Seq(S) /\ Len(a \o e) = Len(a) + Len(e)
        /\ \A i \in 1 .. Len(a) + Len(e) : (a \o e)[i] = IF i <= Len(a) THEN a[i] ELSE e[i - Len(a)]
    BY <1>2, <1>3, ConcatProperties
  <2> QED
    BY <1>2, <1>3, <2>1
<1>5. \A i \in 1 .. n + 1 : b[i] = c[i]
  <2> SUFFICES ASSUME NEW i \in 1 .. n + 1 PROVE b[i] = c[i]
    OBVIOUS
  <2> HIDE DEF c
  <2>1. CASE i <= n
    BY <1>4, <2>1 DEF a
  <2>2. CASE i = n + 1
    <3>1. i - n = 1 /\ ~(i <= n)
      BY <2>2
    <3> QED
      BY <1>3, <1>4, <2>2, <3>1
  <2> QED
    BY <2>1, <2>2
<1> HIDE DEF c
<1>6. b = c
  BY <1>4, <1>5, SeqEqual
<1> QED
  BY <1>6 DEF a, e, c

LEMMA ExistingReadInv ==
  ASSUME Inv, NEW t \in Readers, ExistingRead(t), UNCHANGED imageVars
  PROVE  Inv' /\ ReaderOnly(t)
<1> DEFINE n == size[t]
           read == First(got[t], n)
<1>1. /\ pc[t] = "read" /\ pc' = [pc EXCEPT ![t] = "return"]
      /\ Store(t, n) /\ EndOfRead(t, n) /\ Close(t)
      /\ UNCHANGED <<name, call, size, saving, texture>>
  BY DEF ExistingRead, Go, imageVars
<1>2. n \in Nat /\ n \in 0 .. Word - 1 /\ Word \in Nat
  BY ConstantTypes DEF Inv, Shape
<1>3. /\ buf' \in [Readers -> Seq(Unit)] /\ over' \in [Readers -> BOOLEAN]
      /\ Len(buf'[t]) = Len(buf[t])
      /\ \A i \in 1 .. Len(buf[t]) : buf'[t][i] = IF i <= Len(read) THEN read[i] ELSE buf[t][i]
      /\ over'[t] <=> Len(read) > Len(buf[t])
      /\ Len(read) \in Nat /\ Len(read) <= n
      /\ \A r \in Readers \ {t} : buf'[r] = buf[r] /\ over'[r] = over[r]
  BY <1>1, <1>2, StoreLemma DEF Inv
<1>4. /\ handle' = [handle EXCEPT ![t] = None] /\ offset' = [offset EXCEPT ![t] = 0]
      /\ got' = [got EXCEPT ![t] = <<>>]
      /\ handle' \in [Threads -> Inodes \cup {None}] /\ offset' \in [Threads -> Nat]
      /\ got' \in [Readers -> Seq(Unit)] /\ data' \in [Inodes -> Seq(Unit)]
      /\ exists => data'[name] = data[name]
  BY <1>1, CloseLemma DEF Inv
<1>5. quiet' = quiet \/ quiet' = [quiet EXCEPT ![t] = FALSE]
  BY <1>1 DEF EndOfRead, Fail
<1>6. quiet' \in [Threads -> BOOLEAN]
  BY <1>5 DEF Inv, Shape
<1> HIDE DEF read, n
<1>7. Shape'
  BY <1>1, <1>3, <1>4, <1>6 DEF Inv, Shape
<1>8. ReaderOnly(t)
  BY <1>1, <1>3, <1>4, <1>5, ConstantTypes DEF Inv, Shape, Threads, ReaderOnly, SameReader, SameWriter
<1>9. buf[t] \in Seq(Unit) /\ buf'[t] \in Seq(Unit) /\ Len(buf[t]) \in Nat
  BY <1>3, LenProperties DEF Inv, Shape
<1>10. /\ pc'[t] = "return" /\ handle'[t] = None /\ call'[t] = call[t] /\ size'[t] = n
       /\ call[t] \in {"file_load", "image_buf_load"}
  BY <1>1, <1>4 DEF Inv, Shape, Threads, OwnLoad, n
<1>11. OwnLoad(t)'
  <2>1. CASE call[t] = "file_load"
    <3>1. Len(buf[t]) = Allocate(n) /\ NulBehind(buf[t], n)
      BY <1>1, <2>1 DEF Inv, OwnLoad, LoadPcs, n
    <3>2. NulBehind(buf'[t], n)
      <4> SUFFICES ASSUME buf'[t] # <<>> PROVE Len(buf'[t]) = n + 1 /\ buf'[t][n + 1] = nul
        BY DEF NulBehind
      <4>1. Len(buf'[t]) # 0
        BY <1>9, EmptySeq
      <4>2. buf[t] # <<>>
        BY <1>3, <4>1, EmptySeq
      <4>3. Len(buf[t]) = n + 1 /\ buf[t][n + 1] = nul
        BY <3>1, <4>2 DEF NulBehind
      <4>4. n + 1 \in 1 .. Len(buf[t]) /\ ~(n + 1 <= Len(read))
        BY <1>2, <1>3, <4>3
      <4> QED
        BY <1>3, <4>3, <4>4
    <3>3. over'[t] => n = Word - 1
      <4>1. Allocate(n) = IF n = Word - 1 THEN 0 ELSE n + 1
        BY <1>2, ConstantTypes
      <4> QED
        BY <1>2, <1>3, <3>1, <4>1
    <3> QED
      BY <1>3, <1>10, <2>1, <3>1, <3>2, <3>3 DEF OwnLoad, Streams, ViewPcs, LoadPcs
  <2>2. CASE call[t] = "image_buf_load"
    <3>1. n = BufSize /\ Len(buf[t]) = BufSize
      BY <1>1, <2>2 DEF Inv, OwnLoad, LoadPcs, n
    <3>2. ~over'[t]
      BY <1>2, <1>3, <3>1
    <3> QED
      BY <1>3, <1>10, <2>2, <3>1, <3>2 DEF OwnLoad, Streams, LoadPcs
  <2> QED
    BY <1>10, <2>1, <2>2
<1>12. QuietLoad(t)'
  <2> SUFFICES ASSUME call[t] = "file_load", quiet'[t] PROVE Whole(t)'
    BY <1>1, <1>10 DEF QuietLoad, LoadPcs
  <2> DEFINE d == data[name]
  <2>1. quiet[t]
    BY <1>5 DEF Inv, Shape, Threads
  <2>2. /\ exists /\ n = file_size /\ buf[t] = Blank(Allocate(n))
        /\ handle[t] = name /\ offset[t] <= Len(d) /\ got[t] = SubSeq(d, 1, offset[t])
    BY <1>1, <2>1 DEF Inv, QuietLoad, LoadPcs, n
  <2>3. name \in Inodes /\ d \in Seq(Unit) /\ Len(d) \in Nat /\ offset[t] \in Nat
    BY <2>2, LenProperties DEF Inv, Shape, Threads, exists
  <2>4. data'[name] = d /\ exists' /\ file_size' = n
    BY <1>1, <1>4, <2>2 DEF exists, file_size, st_size
  <2>5. n <= Len(d)
    <3>1. n = Len(d) % Word
      BY <2>2 DEF file_size, st_size
    <3> HIDE DEF d
    <3>2. Word > 0
      BY <1>2
    <3> QED
      BY <1>2, <2>3, <3>1, <3>2
  <2>6. Len(got[t]) >= n \/ offset[t] >= Len(d)
    <3>1. quiet' # [quiet EXCEPT ![t] = FALSE]
      BY DEF Inv, Shape, Threads
    <3> QED
      BY <1>1, <2>2, <3>1 DEF EndOfRead, Fail
  <2> HIDE DEF d
  <2>7. Len(got[t]) = offset[t]
    BY <2>2, <2>3, Beginning
  <2>8. n <= offset[t]
    BY <1>2, <2>3, <2>5, <2>6, <2>7
  <2>9. read = SubSeq(d, 1, n)
    <3> DEFINE off == offset[t]
    <3>1. off \in Nat /\ off <= Len(d) /\ n <= off /\ read = First(SubSeq(d, 1, off), n)
      BY <2>2, <2>3, <2>8 DEF read, d
    <3> HIDE DEF off
    <3>2. First(SubSeq(d, 1, off), n) = SubSeq(d, 1, n)
      BY <1>2, <2>3, <3>1, FirstOfBeginning
    <3> QED
      BY <3>1, <3>2
  <2>10. Len(read) = n
    BY <1>2, <2>3, <2>5, <2>9, Beginning
  <2>11. ASSUME n + 1 < Word PROVE buf'[t] = SubSeq(d, 1, n) \o <<nul>>
    <3>1. Allocate(n) = n + 1 /\ nul \in Unit
      <4>1. nul \in Unit /\ Allocate(n) = IF n = Word - 1 THEN 0 ELSE n + 1
        BY <1>2, ConstantTypes
      <4> QED
        BY <1>2, <2>11, <4>1
    <3>2. Len(buf[t]) = n + 1 /\ buf[t][n + 1] = nul
      BY <1>2, <2>2, <3>1, Filled DEF Blank
    <3>3. Len(buf'[t]) = n + 1 /\ buf'[t][n + 1] = nul
      BY <1>2, <1>3, <2>10, <3>2
    <3>4. \A i \in 1 .. n : buf'[t][i] = SubSeq(d, 1, n)[i]
      BY <1>2, <1>3, <2>9, <2>10, <3>2
    <3> QED
      BY <1>2, <1>9, <2>3, <2>5, <3>1, <3>3, <3>4, WholeBuffer
  <2> QED
    BY <1>1, <2>4, <2>11 DEF Whole, d
<1> QED
  BY <1>7, <1>8, <1>11, <1>12, ReaderFrame

(***************************************************************************)
(* The steps of an image_buf_load.                                         *)
(***************************************************************************)

LEMMA Changed ==
  ASSUME Shape, NEW t \in Readers
  PROVE  /\ \A n \in 0 .. Word - 1 : size' = [size EXCEPT ![t] = n] => size' \in [Readers -> 0 .. Word - 1]
         /\ quiet' = [quiet EXCEPT ![t] = FALSE] => quiet' \in [Threads -> BOOLEAN]
BY DEF Shape

(* A reader at a step of image_buf_load itself.                            *)
LEMMA InView ==
  ASSUME Inv, NEW t \in Readers, pc[t] \in ViewPcs
  PROVE  /\ call[t] = "image_buf_load" /\ ~over[t] /\ Len(buf[t]) = BufSize
         /\ handle[t] # None <=> pc[t] \in Streams
BY DEF Inv, Shape, OwnLoad, ViewPcs

LEMMA ViewInv ==
  ASSUME Inv, NEW t \in Readers, View(t)
  PROVE  Inv' /\ ReaderOnly(t)
<1> DEFINE b == [n \in 1 .. BufSize |-> own]
<1>1. /\ pc[t] \in {"idle", "return", "null"} /\ pc' = [pc EXCEPT ![t] = "exists"]
      /\ call' = [call EXCEPT ![t] = "image_buf_load"] /\ buf' = [buf EXCEPT ![t] = b]
      /\ over' = [over EXCEPT ![t] = FALSE] /\ quiet' = [quiet EXCEPT ![t] = TRUE]
      /\ UNCHANGED <<name, data, size, handle, offset, got, saving, texture>>
  BY DEF View
<1>2. b \in Seq(Unit) /\ Len(b) = BufSize
  BY ConstantTypes, Filled
<1> HIDE DEF b
<1>3. Shape'
  BY <1>1, <1>2 DEF Inv, Shape
<1>4. ReaderOnly(t)
  BY <1>1, ConstantTypes DEF Inv, Shape, Threads, ReaderOnly, SameReader, SameWriter
<1>5. OwnLoad(t)'
  BY <1>1, <1>2 DEF Inv, Shape, OwnLoad, Streams, ViewPcs, LoadPcs
<1>6. QuietLoad(t)'
  BY <1>1 DEF Inv, Shape, QuietLoad
<1> QED
  BY <1>3, <1>4, <1>5, <1>6, ReaderFrame

LEMMA ViewExistsInv ==
  ASSUME Inv, NEW t \in Readers, ViewExists(t)
  PROVE  Inv' /\ ReaderOnly(t)
<1> DEFINE b == [n \in 1 .. BufSize |-> missing]
<1>1. /\ call[t] = "image_buf_load" /\ pc[t] = "exists"
      /\ UNCHANGED <<name, data, call, size, handle, offset, got, over, quiet, saving, texture>>
  BY DEF ViewExists, Go, imageVars
<1>2. \/ pc' = [pc EXCEPT ![t] = "dds_exists"] /\ buf' = [buf EXCEPT ![t] = b]
      \/ pc' = [pc EXCEPT ![t] = "return"] /\ buf' = buf
  BY DEF ViewExists, Go
<1>3. b \in Seq(Unit) /\ Len(b) = BufSize
  BY ConstantTypes, Filled
<1> HIDE DEF b
<1>4. Shape'
  BY <1>1, <1>2, <1>3 DEF Inv, Shape, ViewPcs
<1>5. ReaderOnly(t)
  BY <1>1, <1>2 DEF Inv, Shape, ReaderOnly, SameReader, SameWriter
<1>6. OwnLoad(t)'
  BY <1>1, <1>2, <1>3 DEF Inv, Shape, OwnLoad, Streams, LoadPcs
<1>7. QuietLoad(t)'
  BY <1>1 DEF QuietLoad
<1> QED
  BY <1>4, <1>5, <1>6, <1>7, ReaderFrame

(* The steps that only ask the kernel about the path.                      *)
LEMMA AskInv ==
  ASSUME Inv, NEW t \in Readers, IsDdsExists(t) \/ DdsSize(t)
  PROVE  Inv' /\ ReaderOnly(t)
<1>1. file_size \in 0 .. Word - 1 /\ BufSize \in 0 .. Word - 1
  BY Sizes, ConstantTypes DEF Inv
<1>2. /\ \/ /\ pc[t] = "dds_exists" /\ pc' = [pc EXCEPT ![t] = "magic"] /\ size' = size
         \/ /\ pc[t] = "dds_exists" /\ pc' = [pc EXCEPT ![t] = "existing"]
            /\ size' = [size EXCEPT ![t] = BufSize]
         \/ /\ pc[t] = "dds_size" /\ pc' = [pc EXCEPT ![t] = "dds_open"]
            /\ size' = [size EXCEPT ![t] = file_size]
      /\ UNCHANGED <<name, data, call, handle, offset, got, buf, over, quiet, saving, texture>>
  BY DEF IsDdsExists, DdsSize, Go, Raw, imageVars
<1>3. /\ call[t] = "image_buf_load" /\ ~over[t] /\ Len(buf[t]) = BufSize /\ handle[t] = None
  BY <1>2, InView DEF ViewPcs, Streams
<1>4. Shape'
  <2>1. \/ size' = size
        \/ size' = [size EXCEPT ![t] = BufSize] \/ size' = [size EXCEPT ![t] = file_size]
    BY <1>2
  <2>2. size' \in [Readers -> 0 .. Word - 1]
    BY <1>1, <2>1, Changed DEF Inv, Shape
  <2>3. pc' \in [Readers -> {"idle", "exists", "size", "return", "null"} \cup LoadPcs \cup ViewPcs]
    BY <1>2, ZenonT(60) DEF Inv, Shape, ViewPcs, LoadPcs
  <2> QED
    BY <1>2, <2>2, <2>3 DEF Inv, Shape
<1>5. ReaderOnly(t)
  BY <1>2 DEF Inv, Shape, ReaderOnly, SameReader, SameWriter
<1>6. OwnLoad(t)'
  <2>1. \/ pc'[t] \in {"magic", "dds_open"}
        \/ pc'[t] = "existing" /\ size'[t] = BufSize
    BY <1>2 DEF Inv, Shape
  <2> QED
    BY <1>2, <1>3, <2>1 DEF OwnLoad, Streams, LoadPcs
<1>7. QuietLoad(t)'
  BY <1>2, <1>3 DEF QuietLoad
<1> QED
  BY <1>4, <1>5, <1>6, <1>7, ReaderFrame

(* The steps that open the file, or fail to.                               *)
LEMMA ViewOpenInv ==
  ASSUME Inv, NEW t \in Readers, IsDdsOpen(t) \/ DdsOpen(t)
  PROVE  Inv' /\ ReaderOnly(t)
<1>1. /\ pc[t] \in {"magic", "dds_open"}
      /\ \/ /\ pc' = [pc EXCEPT ![t] = "is_dds"] \/ pc' = [pc EXCEPT ![t] = "dds_header"]
            /\ Opened(t) /\ UNCHANGED <<size, quiet>>
         \/ /\ \/ pc' = [pc EXCEPT ![t] = "existing"] /\ size' = [size EXCEPT ![t] = BufSize]
               \/ pc' = [pc EXCEPT ![t] = "return"] /\ size' = size
            /\ quiet' = [quiet EXCEPT ![t] = FALSE]
            /\ UNCHANGED <<handle, offset, got>>
      /\ UNCHANGED <<name, data, call, buf, over, saving, texture>>
  BY DEF IsDdsOpen, DdsOpen, Go, Raw, Fail, imageVars
<1>2. call[t] = "image_buf_load" /\ ~over[t] /\ Len(buf[t]) = BufSize /\ handle[t] = None
  BY <1>1, InView DEF ViewPcs, Streams
<1>3. Opened(t) =>
        /\ name \in Inodes /\ None \notin Inodes
        /\ handle' = [handle EXCEPT ![t] = name] /\ offset' = [offset EXCEPT ![t] = 0]
        /\ got' = [got EXCEPT ![t] = <<>>]
        /\ handle' \in [Threads -> Inodes \cup {None}] /\ offset' \in [Threads -> Nat]
        /\ got' \in [Readers -> Seq(Unit)]
  BY OpenLemma, ConstantTypes DEF Inv
<1>4. BufSize \in 0 .. Word - 1 /\ Readers \cap Writers = {}
  BY ConstantTypes
<1>5. Shape'
  <2>1. handle' \in [Threads -> Inodes \cup {None}] /\ offset' \in [Threads -> Nat] /\ got' \in [Readers -> Seq(Unit)]
    BY <1>1, <1>3 DEF Inv, Shape
  <2>2. pc' \in [Readers -> {"idle", "exists", "size", "return", "null"} \cup LoadPcs \cup ViewPcs]
    BY <1>1, ZenonT(30) DEF Inv, Shape, LoadPcs, ViewPcs
  <2>3. size' \in [Readers -> 0 .. Word - 1] /\ quiet' \in [Threads -> BOOLEAN]
    <3>1. size' = size \/ size' = [size EXCEPT ![t] = BufSize]
      BY <1>1
    <3>2. quiet' = quiet \/ quiet' = [quiet EXCEPT ![t] = FALSE]
      BY <1>1
    <3> QED
      BY <1>4, <3>1, <3>2, Changed DEF Inv, Shape
  <2> QED
    BY <1>1, <2>1, <2>2, <2>3 DEF Inv, Shape
<1>6. ReaderOnly(t)
  <2>1. ASSUME NEW x \in Threads \ {t}
        PROVE  handle'[x] = handle[x] /\ offset'[x] = offset[x] /\ quiet'[x] = quiet[x]
    BY <1>1, <1>3 DEF Inv, Shape
  <2>2. ASSUME NEW r \in Readers \ {t}
        PROVE  pc'[r] = pc[r] /\ size'[r] = size[r] /\ got'[r] = got[r]
    BY <1>1, <1>3 DEF Inv, Shape
  <2> QED
    BY <1>1, <1>4, <2>1, <2>2 DEF ReaderOnly, SameReader, SameWriter, Threads
<1>7. OwnLoad(t)'
  <2>1. \/ pc'[t] \in {"is_dds", "dds_header"} /\ handle'[t] \in Inodes /\ None \notin Inodes
        \/ pc'[t] = "existing" /\ size'[t] = BufSize /\ handle'[t] = None
        \/ pc'[t] = "return" /\ handle'[t] = None
    BY <1>1, <1>2, <1>3 DEF Inv, Shape, Threads
  <2> QED
    BY <1>1, <1>2, <2>1 DEF OwnLoad, Streams, LoadPcs
<1>8. QuietLoad(t)'
  BY <1>1, <1>2 DEF QuietLoad
<1> QED
  BY <1>5, <1>6, <1>7, <1>8, ReaderFrame

LEMMA IsDdsInv ==
  ASSUME Inv, NEW t \in Readers, IsDds(t)
  PROVE  Inv' /\ ReaderOnly(t)
<1>1. /\ pc[t] = "is_dds" /\ Close(t)
      /\ \/ pc' = [pc EXCEPT ![t] = "dds_size"] /\ size' = size
         \/ pc' = [pc EXCEPT ![t] = "existing"] /\ size' = [size EXCEPT ![t] = BufSize]
      /\ quiet' = quiet \/ quiet' = [quiet EXCEPT ![t] = FALSE]
      /\ UNCHANGED <<name, call, buf, over, saving, texture>>
  BY DEF IsDds, Go, Raw, Fail, imageVars
<1>2. call[t] = "image_buf_load" /\ ~over[t] /\ Len(buf[t]) = BufSize
  BY <1>1, InView DEF ViewPcs
<1>3. /\ handle' = [handle EXCEPT ![t] = None] /\ offset' = [offset EXCEPT ![t] = 0]
      /\ got' = [got EXCEPT ![t] = <<>>]
      /\ handle' \in [Threads -> Inodes \cup {None}] /\ offset' \in [Threads -> Nat]
      /\ got' \in [Readers -> Seq(Unit)] /\ data' \in [Inodes -> Seq(Unit)]
      /\ exists => data'[name] = data[name]
  BY <1>1, CloseLemma DEF Inv
<1>4. BufSize \in 0 .. Word - 1 /\ Readers \cap Writers = {}
  BY ConstantTypes
<1>5. Shape'
  <2>1. pc' \in [Readers -> {"idle", "exists", "size", "return", "null"} \cup LoadPcs \cup ViewPcs]
    BY <1>1 DEF Inv, Shape, LoadPcs, ViewPcs
  <2>2. size' \in [Readers -> 0 .. Word - 1] /\ quiet' \in [Threads -> BOOLEAN]
    <3>1. size' = size \/ size' = [size EXCEPT ![t] = BufSize]
      BY <1>1
    <3>2. quiet' = quiet \/ quiet' = [quiet EXCEPT ![t] = FALSE]
      BY <1>1
    <3> QED
      BY <1>4, <3>1, <3>2, Changed DEF Inv, Shape
  <2> QED
    BY <1>1, <1>3, <2>1, <2>2 DEF Inv, Shape
<1>6. ReaderOnly(t)
  <2>1. ASSUME NEW x \in Threads \ {t}
        PROVE  handle'[x] = handle[x] /\ offset'[x] = offset[x] /\ quiet'[x] = quiet[x]
    BY <1>1, <1>3 DEF Inv, Shape
  <2>2. ASSUME NEW r \in Readers \ {t}
        PROVE  pc'[r] = pc[r] /\ size'[r] = size[r] /\ got'[r] = got[r]
    BY <1>1, <1>3 DEF Inv, Shape
  <2> QED
    BY <1>1, <1>3, <1>4, <2>1, <2>2 DEF ReaderOnly, SameReader, SameWriter, Threads
<1>7. OwnLoad(t)'
  <2>1. /\ handle'[t] = None
        /\ \/ pc'[t] = "dds_size"
           \/ pc'[t] = "existing" /\ size'[t] = BufSize
    BY <1>1, <1>3 DEF Inv, Shape, Threads
  <2> QED
    BY <1>1, <1>2, <2>1 DEF OwnLoad, Streams, LoadPcs
<1>8. QuietLoad(t)'
  BY <1>1, <1>2 DEF QuietLoad
<1> QED
  BY <1>5, <1>6, <1>7, <1>8, ReaderFrame

LEMMA DdsFetchInv ==
  ASSUME Inv, NEW t \in Readers, DdsFetch(t)
  PROVE  Inv' /\ ReaderOnly(t)
<1>1. pc[t] \in {"dds_header", "dds_data"} /\ Fetch(t)
  BY DEF DdsFetch
<1>2. UNCHANGED <<name, data, call, pc, size, handle, buf, over, quiet, saving, texture>>
  BY DEF DdsFetch, imageVars
<1>3. handle[t] \in Inodes /\ call[t] = "image_buf_load"
  BY <1>1, InView DEF Inv, Shape, Streams, ViewPcs, Threads
<1>4. PICK n \in Nat \ {0} :
        /\ offset[t] + n <= Len(data[handle[t]])
        /\ got' = [got EXCEPT ![t] = got[t] \o SubSeq(data[handle[t]], offset[t] + 1, offset[t] + n)]
        /\ offset' = [offset EXCEPT ![t] = offset[t] + n]
  BY <1>1, <1>3, FetchLemma DEF Inv
<1>5. got' \in [Readers -> Seq(Unit)] /\ offset' \in [Threads -> Nat]
  BY <1>1, <1>3, FetchLemma DEF Inv
<1>6. Shape'
  BY <1>2, <1>5 DEF Inv, Shape
<1>7. ReaderOnly(t)
  BY <1>2, <1>4, ConstantTypes DEF Inv, Shape, Threads, ReaderOnly, SameReader, SameWriter
<1>8. OwnLoad(t)'
  BY <1>2 DEF Inv, OwnLoad
<1>9. QuietLoad(t)'
  BY <1>2, <1>3 DEF QuietLoad
<1> QED
  BY <1>6, <1>7, <1>8, <1>9, ReaderFrame

LEMMA DdsHeaderInv ==
  ASSUME Inv, NEW t \in Readers, DdsHeader(t)
  PROVE  Inv' /\ ReaderOnly(t)
<1> DEFINE g == got[t]
           rest == SubSeq(g, HeaderUnits + 1, Len(g))
<1>1. /\ pc[t] = "dds_header" /\ pc' = [pc EXCEPT ![t] = "dds_data"]
      /\ got' = [got EXCEPT ![t] = rest]
      /\ quiet' = quiet \/ quiet' = [quiet EXCEPT ![t] = FALSE]
      /\ UNCHANGED <<name, data, call, size, handle, offset, buf, over, saving, texture>>
  BY DEF DdsHeader, Go, EndOfRead, Fail
<1>2. rest \in Seq(Unit)
  <2>1. g \in Seq(Unit) /\ Len(g) \in Nat
    BY LenProperties DEF Inv, Shape
  <2>2. \A i \in HeaderUnits + 1 .. Len(g) : g[i] \in Unit
    BY <2>1, ElementOfSeq DEF HeaderUnits
  <2>3. HeaderUnits + 1 \in Int
    BY DEF HeaderUnits
  <2> HIDE DEF g
  <2> QED
    BY <2>1, <2>2, <2>3, SubSeqProperties
<1> HIDE DEF rest
<1>3. call[t] = "image_buf_load" /\ ~over[t] /\ Len(buf[t]) = BufSize /\ handle[t] # None
  BY <1>1, InView DEF ViewPcs, Streams
<1>4. Shape'
  <2>1. pc' \in [Readers -> {"idle", "exists", "size", "return", "null"} \cup LoadPcs \cup ViewPcs]
    BY <1>1 DEF Inv, Shape, ViewPcs
  <2>2. quiet' \in [Threads -> BOOLEAN]
    BY <1>1, Changed DEF Inv, Shape
  <2>3. got' \in [Readers -> Seq(Unit)]
    BY <1>1, <1>2 DEF Inv, Shape
  <2> QED
    BY <1>1, <2>1, <2>2, <2>3 DEF Inv, Shape
<1>5. ReaderOnly(t)
  <2>1. ASSUME NEW x \in Threads \ {t} PROVE quiet'[x] = quiet[x]
    BY <1>1 DEF Inv, Shape
  <2>2. ASSUME NEW r \in Readers \ {t} PROVE pc'[r] = pc[r] /\ got'[r] = got[r]
    BY <1>1 DEF Inv, Shape
  <2> QED
    BY <1>1, <2>1, <2>2, ConstantTypes DEF ReaderOnly, SameReader, SameWriter, Threads
<1>6. OwnLoad(t)'
  BY <1>1, <1>3 DEF Inv, Shape, OwnLoad, Streams, LoadPcs
<1>7. QuietLoad(t)'
  BY <1>1, <1>3 DEF QuietLoad
<1> QED
  BY <1>4, <1>5, <1>6, <1>7, ReaderFrame

LEMMA DdsReadInv ==
  ASSUME Inv, NEW t \in Readers, DdsRead(t)
  PROVE  Inv' /\ ReaderOnly(t)
<1> DEFINE n == Remaining(t)
           read == First(got[t], n)
<1>1. /\ pc[t] = "dds_data" /\ pc' = [pc EXCEPT ![t] = "return"]
      /\ Store(t, n) /\ EndOfRead(t, n) /\ Close(t)
      /\ UNCHANGED <<name, call, size, saving, texture>>
  BY DEF DdsRead, Go
<1>2. size[t] \in Nat /\ BufSize \in Nat
  BY ConstantTypes DEF Inv, Shape
<1>3. n \in Nat /\ (size[t] >= HeaderUnits => n = size[t] - HeaderUnits)
  <2>1. Len(got[t]) \in Nat
    BY LenProperties DEF Inv, Shape
  <2> QED
    BY <1>2, <2>1 DEF Remaining, HeaderUnits
<1>4. quiet' = quiet \/ quiet' = [quiet EXCEPT ![t] = FALSE]
  BY <1>1 DEF EndOfRead, Fail
<1> HIDE DEF n
<1>5. /\ buf' \in [Readers -> Seq(Unit)] /\ over' \in [Readers -> BOOLEAN]
      /\ Len(buf'[t]) = Len(buf[t])
      /\ over'[t] <=> Len(read) > Len(buf[t])
      /\ Len(read) \in Nat /\ Len(read) <= n
      /\ \A r \in Readers \ {t} : buf'[r] = buf[r] /\ over'[r] = over[r]
  BY <1>1, <1>3, StoreLemma DEF Inv
<1>6. /\ handle' = [handle EXCEPT ![t] = None] /\ offset' = [offset EXCEPT ![t] = 0]
      /\ got' = [got EXCEPT ![t] = <<>>]
      /\ handle' \in [Threads -> Inodes \cup {None}] /\ offset' \in [Threads -> Nat]
      /\ got' \in [Readers -> Seq(Unit)] /\ data' \in [Inodes -> Seq(Unit)]
      /\ exists => data'[name] = data[name]
  BY <1>1, CloseLemma DEF Inv
<1> HIDE DEF read
<1>7. Shape'
  <2>1. pc' \in [Readers -> {"idle", "exists", "size", "return", "null"} \cup LoadPcs \cup ViewPcs]
    BY <1>1 DEF Inv, Shape
  <2>2. quiet' \in [Threads -> BOOLEAN]
    BY <1>4, Changed DEF Inv, Shape
  <2> QED
    BY <1>1, <1>5, <1>6, <2>1, <2>2 DEF Inv, Shape
<1>8. ReaderOnly(t)
  <2>1. ASSUME NEW x \in Threads \ {t}
        PROVE  handle'[x] = handle[x] /\ offset'[x] = offset[x] /\ quiet'[x] = quiet[x]
    BY <1>4, <1>6 DEF Inv, Shape
  <2>2. ASSUME NEW r \in Readers \ {t} PROVE pc'[r] = pc[r] /\ got'[r] = got[r]
    BY <1>1, <1>6 DEF Inv, Shape
  <2> QED
    BY <1>1, <1>5, <1>6, <2>1, <2>2, ConstantTypes DEF ReaderOnly, SameReader, SameWriter, Threads
<1>9. call[t] = "image_buf_load" /\ Len(buf[t]) = BufSize
  BY <1>1, InView DEF ViewPcs
<1>10. OwnLoad(t)'
  <2>1. pc'[t] = "return" /\ handle'[t] = None
    BY <1>1, <1>6 DEF Inv, Shape, Threads
  <2>2. over'[t] => size[t] - HeaderUnits \notin 0 .. BufSize
    <3> SUFFICES ASSUME over'[t], size[t] - HeaderUnits \in 0 .. BufSize PROVE FALSE
      OBVIOUS
    <3>1. size[t] >= HeaderUnits
      BY <1>2 DEF HeaderUnits
    <3>2. n <= BufSize
      BY <1>3, <3>1
    <3> QED
      BY <1>2, <1>3, <1>5, <1>9, <3>2
  <2> QED
    BY <1>1, <1>5, <1>9, <2>1, <2>2 DEF OwnLoad, Streams, LoadPcs
<1>11. QuietLoad(t)'
  BY <1>1, <1>9 DEF QuietLoad
<1> QED
  BY <1>7, <1>8, <1>10, <1>11, ReaderFrame

(***************************************************************************)
(* Saves and other programs.                                               *)
(***************************************************************************)

(* A step after which readers find the path as it was, or are disturbed.   *)
ReadersKept == \A r \in Readers : SameReader(r) /\ Calm(r)

(* A step of the writer w, which readers and the other writers notice only *)
(* by what it did to the file.                                             *)
LEMMA WriterFrame ==
  ASSUME Inv, NEW w \in Writers, Shape', OwnSave(w)',
         \A r \in Readers : SameReader(r) /\ Calm(r),
         \A v \in Writers \ {w} : SameWriter(v) /\ Calm(v)
  PROVE  Inv' /\ ReadersKept
<1>1. ASSUME NEW r \in Readers PROVE OwnLoad(r)' /\ QuietLoad(r)'
  BY ReaderKept DEF Inv
<1>2. ASSUME NEW v \in Writers \ {w} PROVE OwnSave(v)'
  <2>1. SameWriter(v) /\ Calm(v) /\ OwnSave(v) /\ Shape /\ None \notin Inodes
    BY ConstantTypes DEF Inv
  <2> QED
    BY <2>1, WriterKept
<1> QED
  BY <1>1, <1>2 DEF Inv, ReadersKept

LEMMA OthersFrame ==
  ASSUME Inv, Shape',
         \A r \in Readers : SameReader(r) /\ Calm(r),
         \A v \in Writers : SameWriter(v) /\ Calm(v)
  PROVE  Inv' /\ ReadersKept
<1>1. ASSUME NEW r \in Readers PROVE OwnLoad(r)' /\ QuietLoad(r)'
  BY ReaderKept DEF Inv
<1>2. ASSUME NEW v \in Writers PROVE OwnSave(v)'
  <2>1. SameWriter(v) /\ Calm(v) /\ OwnSave(v) /\ Shape /\ None \notin Inodes
    BY ConstantTypes DEF Inv
  <2> QED
    BY <2>1, WriterKept
<1> QED
  BY <1>1, <1>2 DEF Inv, ReadersKept

LEMMA UnusedLemma ==
  ASSUME Shape
  PROVE  unused \in Inodes /\ unused # name /\ \A t \in Threads : handle[t] # unused
<1>1. \E i \in Inodes : i # name /\ \A t \in Threads : handle[t] # i
  <2>1. name \in Inodes \cup {None} /\ handle \in [Readers \cup Writers -> Inodes \cup {None}]
    BY DEF Shape, Threads
  <2>2. \E i \in Inodes : i # name /\ \A t \in Readers \cup Writers : handle[t] # i
    BY <2>1, FileAssumption, Zenon
  <2> QED
    BY <2>2 DEF Threads
<1> QED
  BY <1>1 DEF unused

LEMMA ReplaceInv ==
  ASSUME Inv, NEW c \in Contents, Replace(c), UNCHANGED imageVars
  PROVE  Inv' /\ ReadersKept
<1>1. unused \in Inodes /\ c \in Seq(Unit)
  BY UnusedLemma, ConstantTypes DEF Inv
<1>2. /\ name' = unused /\ data' = Kept([data EXCEPT ![unused] = c], unused, handle)
      /\ quiet' = [t \in Threads |-> FALSE]
      /\ UNCHANGED <<call, pc, size, handle, offset, got, buf, over, saving, texture>>
  BY DEF Replace, Disturb, imageVars
<1>3. data' \in [Inodes -> Seq(Unit)]
  <2> DEFINE d == [data EXCEPT ![unused] = c]
  <2>1. d \in [Inodes -> Seq(Unit)]
    BY <1>1 DEF Inv, Shape
  <2> HIDE DEF d
  <2>2. Kept(d, unused, handle) \in [Inodes -> Seq(Unit)]
    BY <2>1, KeptFile
  <2> QED
    BY <1>2, <2>2 DEF d
<1>4. Shape'
  BY <1>1, <1>2, <1>3 DEF Inv, Shape
<1>5. \A x \in Threads : Calm(x)
  BY <1>2 DEF Calm
<1> QED
  BY <1>2, <1>4, <1>5, OthersFrame DEF SameReader, SameWriter, Threads

LEMMA RemoveInv ==
  ASSUME Inv, Remove, UNCHANGED imageVars
  PROVE  Inv' /\ ReadersKept
<1>1. /\ name' = None /\ data' = Kept(data, None, handle)
      /\ quiet' = [t \in Threads |-> FALSE]
      /\ UNCHANGED <<call, pc, size, handle, offset, got, buf, over, saving, texture>>
  BY DEF Remove, Disturb, imageVars
<1>2. data' \in [Inodes -> Seq(Unit)]
  <2>1. data \in [Inodes -> Seq(Unit)]
    BY DEF Inv, Shape
  <2>2. Kept(data, None, handle) \in [Inodes -> Seq(Unit)]
    BY <2>1, KeptFile
  <2> QED
    BY <1>1, <2>2
<1>3. Shape'
  BY <1>1, <1>2 DEF Inv, Shape
<1>4. \A x \in Threads : Calm(x)
  BY <1>1 DEF Calm
<1> QED
  BY <1>1, <1>3, <1>4, OthersFrame DEF SameReader, SameWriter, Threads

LEMMA SaveInv ==
  ASSUME Inv, NEW w \in Writers, NEW i \in Images, Save(w, i)
  PROVE  Inv' /\ ReadersKept
<1>1. /\ saving[w] \in {"idle", "saved"} /\ saving' = [saving EXCEPT ![w] = "open"]
      /\ texture' = [texture EXCEPT ![w] = i] /\ quiet' = [quiet EXCEPT ![w] = TRUE]
      /\ UNCHANGED <<name, data, handle, offset, call, pc, size, got, buf, over>>
  BY DEF Save, readerVars
<1>2. Readers \cap Writers = {} /\ w \in Threads
  BY ConstantTypes DEF Threads
<1>3. Shape'
  BY <1>1 DEF Inv, Shape
<1>4. OwnSave(w)'
  BY <1>1 DEF Inv, Shape, OwnSave
<1>5. \A x \in Threads \ {w} : Calm(x)
  BY <1>1 DEF Inv, Shape, Calm
<1>6. \A r \in Readers : SameReader(r) /\ Calm(r)
  BY <1>1, <1>2, <1>5 DEF SameReader, Threads
<1>7. \A v \in Writers \ {w} : SameWriter(v) /\ Calm(v)
  BY <1>1, <1>5 DEF Inv, Shape, SameWriter, Threads
<1> QED
  BY <1>3, <1>4, <1>6, <1>7, WriterFrame

LEMMA SaveOpenInv ==
  ASSUME Inv, NEW w \in Writers, SaveOpen(w)
  PROVE  Inv' /\ ReadersKept
<1>1. saving[w] = "open" /\ UNCHANGED <<texture, call, pc, size, got, buf, over>>
  BY DEF SaveOpen, readerVars
<1>2. Readers \cap Writers = {} /\ w \in Threads /\ None \notin Inodes
  BY ConstantTypes DEF Threads
<1>3. CASE /\ saving' = [saving EXCEPT ![w] = "saved"] /\ quiet' = [quiet EXCEPT ![w] = FALSE]
           /\ UNCHANGED <<name, data, handle, offset>>
  <2>1. Shape'
    BY <1>1, <1>3 DEF Inv, Shape
  <2>2. OwnSave(w)'
    BY <1>1, <1>2, <1>3 DEF Inv, Shape, OwnSave
  <2>3. \A x \in Threads \ {w} : Calm(x)
    BY <1>3 DEF Inv, Shape, Calm
  <2>4. \A r \in Readers : SameReader(r) /\ Calm(r)
    BY <1>1, <1>2, <1>3, <2>3 DEF SameReader, Threads
  <2>5. \A v \in Writers \ {w} : SameWriter(v) /\ Calm(v)
    BY <1>1, <1>3, <2>3 DEF Inv, Shape, SameWriter, Threads
  <2> QED
    BY <2>1, <2>2, <2>4, <2>5, WriterFrame
<1>4. ASSUME NEW i \in Inodes,
             saving' = [saving EXCEPT ![w] = "write"], name' = i,
             data' = [data EXCEPT ![i] = <<>>], handle' = [handle EXCEPT ![w] = i],
             offset' = [offset EXCEPT ![w] = 0], quiet' = [t \in Threads |-> t \in {w} /\ quiet[t]]
      PROVE  Inv' /\ ReadersKept
  <2>1. data' \in [Inodes -> Seq(Unit)]
    BY <1>4, EmptySeq DEF Inv, Shape
  <2>2. Shape'
    BY <1>1, <1>2, <1>4, <2>1 DEF Inv, Shape
  <2>3. OwnSave(w)'
    <3>1. /\ saving'[w] = "write" /\ handle'[w] = i /\ offset'[w] = 0 /\ texture'[w] \in Images
          /\ texture'[w] = texture[w] /\ data'[i] = <<>>
      BY <1>1, <1>2, <1>4 DEF Inv, Shape
    <3>2. SubSeq(FileOf(texture'[w]), 1, offset'[w]) = <<>>
      BY <3>1, SubSeqEmpty
    <3>3. Len(FileOf(texture'[w])) \in Nat
      BY <3>1, ConstantTypes, LenProperties
    <3>4. handle'[w] = name' /\ offset'[w] <= Len(FileOf(texture'[w])) /\ handle'[w] # None
      BY <1>2, <1>4, <3>1, <3>3
    <3>5. data'[name'] = SubSeq(FileOf(texture'[w]), 1, offset'[w])
      BY <1>4, <3>1, <3>2
    <3> QED
      BY <3>1, <3>4, <3>5 DEF OwnSave
  <2>4. \A x \in Threads \ {w} : Calm(x)
    BY <1>4 DEF Calm
  <2>5. \A r \in Readers : SameReader(r) /\ Calm(r)
    BY <1>1, <1>2, <1>4, <2>4 DEF Inv, Shape, SameReader, Threads
  <2>6. \A v \in Writers \ {w} : SameWriter(v) /\ Calm(v)
    BY <1>1, <1>4, <2>4 DEF Inv, Shape, SameWriter, Threads
  <2> QED
    BY <2>2, <2>3, <2>5, <2>6, WriterFrame
<1>5. (IF exists THEN name ELSE unused) \in Inodes
  BY UnusedLemma DEF Inv, Shape, exists
<1> DEFINE target == IF exists THEN name ELSE unused
<1>6. \/ /\ saving' = [saving EXCEPT ![w] = "saved"] /\ quiet' = [quiet EXCEPT ![w] = FALSE]
         /\ UNCHANGED <<name, data, handle, offset>>
      \/ /\ saving' = [saving EXCEPT ![w] = "write"] /\ name' = target
         /\ data' = [data EXCEPT ![target] = <<>>] /\ handle' = [handle EXCEPT ![w] = target]
         /\ offset' = [offset EXCEPT ![w] = 0] /\ quiet' = [t \in Threads |-> t \in {w} /\ quiet[t]]
  BY DEF SaveOpen, Fail, Disturb, Emptied
<1>7. target \in Inodes
  BY <1>5
<1> HIDE DEF target
<1> QED
  BY <1>3, <1>4, <1>6, <1>7

(* What a write(2) makes of a file.                                        *)
Written(was, whole, from, to) ==
  LET length == IF Len(was) > to THEN Len(was) ELSE to
  IN  [k \in 1 .. length |-> CASE k \in from + 1 .. to -> whole[k]
                               [] k \in DOMAIN was \ (from + 1 .. to) -> was[k]
                               [] OTHER -> nul]

LEMMA LongerLemma ==
  ASSUME NEW a \in Nat, NEW e \in Nat
  PROVE  LET longer == IF a > e THEN a ELSE e
         IN  longer \in Nat /\ longer >= e /\ longer >= a /\ (a <= e => longer = e)
  OBVIOUS

LEMMA WrittenLemma ==
  ASSUME nul \in Unit, NEW was \in Seq(Unit), NEW whole \in Seq(Unit),
         NEW from \in Nat, NEW to \in Nat, from < to, to <= Len(whole)
  PROVE  /\ Written(was, whole, from, to) \in Seq(Unit)
         /\ was = SubSeq(whole, 1, from) => Written(was, whole, from, to) = SubSeq(whole, 1, to)
<1> DEFINE length == IF Len(was) > to THEN Len(was) ELSE to
           new == Written(was, whole, from, to)
<1>1. Len(was) \in Nat /\ Len(whole) \in Nat /\ DOMAIN was = 1 .. Len(was)
  BY LenProperties
<1>2. length \in Nat /\ length >= to /\ length >= Len(was) /\ (Len(was) <= to => length = to)
  BY <1>1, LongerLemma
<1> HIDE DEF length
<1>3. new = [k \in 1 .. length |-> CASE k \in from + 1 .. to -> whole[k]
                                     [] k \in DOMAIN was \ (from + 1 .. to) -> was[k]
                                     [] OTHER -> nul]
  BY DEF Written, length
<1>4. ASSUME NEW k \in 1 .. length
      PROVE  /\ k \in from + 1 .. to => new[k] = whole[k]
             /\ k \notin from + 1 .. to /\ k \in 1 .. Len(was) => new[k] = was[k]
             /\ k \notin from + 1 .. to /\ k \notin 1 .. Len(was) => new[k] = nul
  BY <1>1, <1>3
<1>5. new = [k \in 1 .. length |-> new[k]]
  BY <1>3
<1> HIDE DEF new
<1>6. ASSUME NEW k \in 1 .. length PROVE new[k] \in Unit
  <2>1. CASE k \in from + 1 .. to
    <3>1. k \in 1 .. Len(whole)
      BY <1>1, <2>1
    <3> QED
      BY <1>4, <2>1, <3>1, ElementOfSeq
  <2>2. CASE k \notin from + 1 .. to /\ k \in 1 .. Len(was)
    BY <1>4, <2>2, ElementOfSeq
  <2>3. CASE k \notin from + 1 .. to /\ k \notin 1 .. Len(was)
    BY <1>4, <2>3
  <2> QED
    BY <2>1, <2>2, <2>3
<1>7. new \in Seq(Unit) /\ Len(new) = length
  BY <1>2, <1>5, <1>6, FunctionIsSeq
<1>8. ASSUME was = SubSeq(whole, 1, from) PROVE new = SubSeq(whole, 1, to)
  <2>1. Len(was) = from /\ \A i \in 1 .. from : was[i] = whole[i]
    BY <1>1, <1>8, Beginning
  <2>2. length = to
    BY <1>1, <1>2, <2>1
  <2> DEFINE part == SubSeq(whole, 1, to)
  <2>3. part \in Seq(Unit) /\ Len(part) = to /\ \A i \in 1 .. to : part[i] = whole[i]
    BY <1>1, Beginning
  <2> HIDE DEF part
  <2>4. ASSUME NEW i \in 1 .. to PROVE new[i] = part[i]
    <3>1. CASE i \in from + 1 .. to
      BY <1>4, <2>2, <2>3, <3>1
    <3>2. CASE i \in 1 .. from
      BY <1>4, <2>1, <2>2, <2>3, <3>2
    <3> QED
      BY <3>1, <3>2
  <2>5. new = part
    BY <1>7, <2>2, <2>3, <2>4, SeqEqual
  <2> QED
    BY <2>5 DEF part
<1> QED
  BY <1>7, <1>8 DEF new

LEMMA WriteLemma ==
  \A was, whole \in Seq(Unit) : \A from, to \in Nat :
    nul \in Unit /\ from < to /\ to <= Len(whole)
    => /\ Written(was, whole, from, to) \in Seq(Unit)
       /\ was = SubSeq(whole, 1, from) => Written(was, whole, from, to) = SubSeq(whole, 1, to)
  BY WrittenLemma, SMTT(40)

LEMMA SaveWriteInv ==
  ASSUME Inv, NEW w \in Writers, SaveWrite(w)
  PROVE  Inv' /\ ReadersKept
<1> DEFINE out == FileOf(texture[w])
           h == handle[w]
           off == offset[w]
<1>1. /\ saving[w] = "write" /\ off < Len(out)
      /\ quiet' = [t \in Threads |-> t \in {w} /\ quiet[t]]
      /\ UNCHANGED <<name, handle, saving, texture, call, pc, size, got, buf, over>>
  BY DEF SaveWrite, Disturb, readerVars
<1>2. Readers \cap Writers = {} /\ w \in Threads /\ None \notin Inodes /\ nul \in Unit
  BY ConstantTypes DEF Threads
<1>3. h \in Inodes /\ off \in Nat
  BY <1>1, <1>2 DEF Inv, Shape, OwnSave
<1>4. out \in Seq(Unit) /\ Len(out) \in Nat /\ data[h] \in Seq(Unit)
  <2>1. texture[w] \in Images
    BY DEF Inv, Shape
  <2>2. out \in Seq(Unit)
    BY <2>1, ConstantTypes
  <2> QED
    BY <1>3, <2>2, LenProperties DEF Inv, Shape
<1>5. PICK n \in {1, Len(out) - off} :
        /\ data' = [data EXCEPT ![h] = Written(data[h], out, off, off + n)]
        /\ offset' = [offset EXCEPT ![w] = off + n]
  BY DEF SaveWrite, Written
<1> DEFINE end == off + n
           new == Written(data[h], out, off, end)
<1>6. end \in Nat /\ off < end /\ end <= Len(out)
  BY <1>1, <1>3, <1>4
<1> HIDE DEF end
<1>7. data' = [data EXCEPT ![h] = new] /\ offset' = [offset EXCEPT ![w] = end]
  BY <1>5 DEF end
<1>8. new \in Seq(Unit) /\ (data[h] = SubSeq(out, 1, off) => new = SubSeq(out, 1, end))
  <2>1. /\ data[h] \in Seq(Unit) /\ out \in Seq(Unit) /\ off \in Nat /\ end \in Nat
        /\ nul \in Unit /\ off < end /\ end <= Len(out)
    BY <1>2, <1>3, <1>4, <1>6
  <2> HIDE DEF out, off, h, new
  <2>2. /\ Written(data[h], out, off, end) \in Seq(Unit)
        /\ data[h] = SubSeq(out, 1, off) => Written(data[h], out, off, end) = SubSeq(out, 1, end)
    BY <2>1, WriteLemma
  <2> QED
    BY <2>2 DEF new
<1> HIDE DEF new
<1>9. Shape'
  <2>1. data' \in [Inodes -> Seq(Unit)]
    BY <1>3, <1>7, <1>8 DEF Inv, Shape
  <2>2. offset' \in [Threads -> Nat]
    BY <1>2, <1>6, <1>7 DEF Inv, Shape
  <2>3. quiet' \in [Threads -> BOOLEAN]
    BY <1>1 DEF Inv, Shape
  <2> QED
    BY <1>1, <2>1, <2>2, <2>3 DEF Inv, Shape
<1>10. OwnSave(w)'
  <2>1. saving'[w] = "write" /\ handle'[w] = h /\ offset'[w] = end /\ texture'[w] = texture[w] /\ h # None
    BY <1>1, <1>2, <1>3, <1>7 DEF Inv, Shape
  <2>2. ASSUME quiet'[w]
        PROVE  h = name /\ end <= Len(out) /\ data'[name] = SubSeq(out, 1, end)
    <3>1. quiet[w]
      BY <1>1, <1>2, <2>2
    <3>2. h = name /\ data[h] = SubSeq(out, 1, off)
      BY <1>1, <3>1 DEF Inv, OwnSave
    <3>3. data'[name] = new
      BY <1>3, <1>7, <3>2 DEF Inv, Shape
    <3> QED
      BY <1>6, <1>8, <3>2, <3>3
  <2> QED
    BY <1>1, <2>1, <2>2 DEF OwnSave
<1>11. \A x \in Threads \ {w} : Calm(x)
  BY <1>1 DEF Calm
<1>12. \A r \in Readers : SameReader(r) /\ Calm(r)
  BY <1>1, <1>2, <1>7, <1>11 DEF Inv, Shape, SameReader, Threads
<1>13. \A v \in Writers \ {w} : SameWriter(v) /\ Calm(v)
  BY <1>1, <1>7, <1>11 DEF Inv, Shape, SameWriter, Threads
<1> QED
  BY <1>9, <1>10, <1>12, <1>13, WriterFrame

LEMMA SaveCloseInv ==
  ASSUME Inv, NEW w \in Writers, SaveClose(w)
  PROVE  Inv' /\ ReadersKept
<1> DEFINE without == [handle EXCEPT ![w] = None]
           out == FileOf(texture[w])
<1>1. /\ saving[w] = "write" /\ saving' = [saving EXCEPT ![w] = "saved"]
      /\ handle' = without /\ data' = Kept(data, name, without)
      /\ offset' = [offset EXCEPT ![w] = 0]
      /\ IF offset[w] = Len(out) THEN quiet' = quiet ELSE quiet' = [quiet EXCEPT ![w] = FALSE]
      /\ UNCHANGED <<name, texture, call, pc, size, got, buf, over>>
  BY DEF SaveClose, Fail, readerVars
<1>2. Readers \cap Writers = {} /\ w \in Threads /\ None \notin Inodes
  BY ConstantTypes DEF Threads
<1>3. data' \in [Inodes -> Seq(Unit)] /\ (name \in Inodes => data'[name] = data[name])
  <2>1. data \in [Inodes -> Seq(Unit)]
    BY DEF Inv, Shape
  <2> HIDE DEF without
  <2> QED
    BY <1>1, <2>1, KeptFile
<1>4. exists => data'[name] = data[name]
  BY <1>3 DEF Inv, Shape, exists
<1>5. quiet' = quiet \/ quiet' = [quiet EXCEPT ![w] = FALSE]
  BY <1>1
<1>6. Shape'
  <2>1. handle' \in [Threads -> Inodes \cup {None}] /\ offset' \in [Threads -> Nat]
    BY <1>1, <1>2 DEF Inv, Shape
  <2>2. quiet' \in [Threads -> BOOLEAN]
    BY <1>5 DEF Inv, Shape
  <2> QED
    BY <1>1, <1>3, <2>1, <2>2 DEF Inv, Shape
<1>7. OwnSave(w)'
  <2>1. saving'[w] = "saved" /\ handle'[w] = None /\ texture'[w] = texture[w]
    BY <1>1, <1>2 DEF Inv, Shape
  <2>2. ASSUME quiet'[w] PROVE exists' /\ data'[name'] = out
    <3>1. quiet[w] /\ offset[w] = Len(out)
      BY <1>1, <1>2, <2>2 DEF Inv, Shape
    <3>2. handle[w] = name /\ handle[w] # None /\ data[name] = SubSeq(out, 1, Len(out))
      BY <1>1, <3>1 DEF Inv, OwnSave
    <3>3. out \in Seq(Unit)
      BY ConstantTypes DEF Inv, Shape
    <3>4. SubSeq(out, 1, Len(out)) = out
      BY <3>3, SubSeqFull
    <3> QED
      BY <1>1, <1>4, <3>2, <3>4 DEF exists
  <2> QED
    BY <2>1, <2>2 DEF OwnSave
<1>8. \A x \in Threads \ {w} : Calm(x)
  BY <1>1, <1>4, <1>5 DEF Inv, Shape, Calm
<1>9. \A r \in Readers : SameReader(r) /\ Calm(r)
  BY <1>1, <1>2, <1>8 DEF Inv, Shape, SameReader, Threads
<1>10. \A v \in Writers \ {w} : SameWriter(v) /\ Calm(v)
  BY <1>1, <1>8 DEF Inv, Shape, SameWriter, Threads
<1> QED
  BY <1>6, <1>7, <1>9, <1>10, WriterFrame

(***************************************************************************)
(* What an undisturbed image_buf_load comes to.                            *)
(***************************************************************************)

(* The units of a sequence behind the m-th, up to the n-th.                *)
LEMMA Part ==
  ASSUME NEW S, NEW s \in Seq(S), NEW m \in Nat, NEW n \in Nat, m <= n, n <= Len(s)
  PROVE  /\ SubSeq(s, m + 1, n) \in Seq(S) /\ Len(SubSeq(s, m + 1, n)) = n - m
         /\ \A i \in 1 .. n - m : SubSeq(s, m + 1, n)[i] = s[m + i]
<1>1. \A i \in m + 1 .. n : s[i] \in S
  BY ElementOfSeq, LenProperties
<1>2. /\ SubSeq(s, m + 1, n) \in Seq(S)
      /\ Len(SubSeq(s, m + 1, n)) = IF m + 1 <= n THEN n - (m + 1) + 1 ELSE 0
      /\ \A i \in 1 .. n - (m + 1) + 1 : SubSeq(s, m + 1, n)[i] = s[(m + 1) + i - 1]
  BY <1>1, SubSeqProperties
<1>3. \A i \in 1 .. n - m : i \in 1 .. n - (m + 1) + 1 /\ (m + 1) + i - 1 = m + i
  OBVIOUS
<1> QED
  BY <1>2, <1>3

LEMMA MoreOfPart ==
  ASSUME NEW S, NEW s \in Seq(S), NEW m \in Nat, NEW off \in Nat, m <= off,
         NEW n \in Nat, off + n <= Len(s)
  PROVE  SubSeq(s, m + 1, off) \o SubSeq(s, off + 1, off + n) = SubSeq(s, m + 1, off + n)
<1> DEFINE a == SubSeq(s, m + 1, off)
           b == SubSeq(s, off + 1, off + n)
           c == SubSeq(s, m + 1, off + n)
<1>1. Len(s) \in Nat
  BY LenProperties
<1> DEFINE k == off - m
<1>8. k \in Nat /\ m + k = off /\ (off + n) - m = k + n
  OBVIOUS
<1>2. a \in Seq(S) /\ Len(a) = k /\ \A i \in 1 .. k : a[i] = s[m + i]
  BY <1>1, Part
<1>3. b \in Seq(S) /\ Len(b) = n /\ \A i \in 1 .. n : b[i] = s[off + i]
  <2>1. off + n \in Nat /\ off <= off + n /\ (off + n) - off = n
    OBVIOUS
  <2> QED
    BY <2>1, Part
<1>4. c \in Seq(S) /\ Len(c) = k + n /\ \A i \in 1 .. k + n : c[i] = s[m + i]
  <2>1. off + n \in Nat /\ m <= off + n
    OBVIOUS
  <2>2. /\ c \in Seq(S) /\ Len(c) = (off + n) - m
        /\ \A i \in 1 .. (off + n) - m : c[i] = s[m + i]
    BY <2>1, Part
  <2> HIDE DEF c, k
  <2> QED
    BY <1>8, <2>2
<1> HIDE DEF a, b, c, k
<1>5. /\ a \o b \in Seq(S) /\ Len(a \o b) = k + n
      /\ \A i \in 1 .. k + n : (a \o b)[i] = IF i <= k THEN a[i] ELSE b[i - k]
  <2>1. /\ a \o b \in Seq(S) /\ Len(a \o b) = Len(a) + Len(b)
        /\ \A i \in 1 .. Len(a) + Len(b) : (a \o b)[i] = IF i <= Len(a) THEN a[i] ELSE b[i - Len(a)]
    BY <1>2, <1>3, ConcatProperties
  <2>2. Len(a) = k /\ Len(b) = n
    BY <1>2, <1>3
  <2> QED
    BY <2>1, <2>2
<1>6. \A i \in 1 .. k + n : (a \o b)[i] = c[i]
  <2>1. ASSUME NEW i \in 1 .. k PROVE (a \o b)[i] = c[i]
    <3>1. i \in 1 .. k + n /\ i <= k
      BY <1>8
    <3> QED
      BY <1>2, <1>4, <1>5, <3>1
  <2>2. ASSUME NEW i \in k + 1 .. k + n PROVE (a \o b)[i] = c[i]
    <3>1. i - k \in 1 .. n /\ off + (i - k) = m + i /\ i \in 1 .. k + n /\ ~(i <= k)
      BY <1>8
    <3>2. b[i - k] = s[off + (i - k)]
      BY <1>3, <3>1
    <3>3. (a \o b)[i] = b[i - k]
      BY <1>5, <3>1
    <3> QED
      BY <1>4, <3>1, <3>2, <3>3
  <2>3. \A i \in 1 .. k + n : i \in 1 .. k \/ i \in k + 1 .. k + n
    BY <1>8
  <2> QED
    BY <2>1, <2>2, <2>3
<1>7. a \o b = c
  BY <1>4, <1>5, <1>6, SeqEqual
<1> QED
  BY <1>7 DEF a, b, c

(* What follows the first m units of a beginning.                          *)
LEMMA PartOfBeginning ==
  ASSUME NEW S, NEW s \in Seq(S), NEW m \in Nat, NEW off \in Nat, m <= off, off <= Len(s),
         NEW b, b = SubSeq(s, 1, off)
  PROVE  SubSeq(b, m + 1, Len(b)) = SubSeq(s, m + 1, off)
<1>1. b \in Seq(S) /\ Len(b) = off /\ \A i \in 1 .. off : b[i] = s[i]
  BY Beginning
<1> DEFINE c == SubSeq(b, m + 1, off)
           d == SubSeq(s, m + 1, off)
<1>2. c \in Seq(S) /\ Len(c) = off - m /\ \A i \in 1 .. off - m : c[i] = b[m + i]
  BY <1>1, Part
<1>3. d \in Seq(S) /\ Len(d) = off - m /\ \A i \in 1 .. off - m : d[i] = s[m + i]
  BY Part
<1> HIDE DEF c, d
<1>4. \A i \in 1 .. off - m : c[i] = d[i]
  <2> SUFFICES ASSUME NEW i \in 1 .. off - m PROVE c[i] = d[i]
    OBVIOUS
  <2>1. m + i \in 1 .. off
    OBVIOUS
  <2> QED
    BY <1>1, <1>2, <1>3, <2>1
<1>5. c = d
  BY <1>2, <1>3, <1>4, SeqEqual
<1> QED
  BY <1>1, <1>5 DEF c, d

(* A buffer that holds a part of a file and is blank behind it.            *)
LEMMA BodyLemma ==
  ASSUME NEW file, NEW k \in Nat, NEW b \in Seq(Unit), Len(b) = BufSize,
         \A i \in 1 .. BufSize : b[i] = IF i + k <= Len(file) THEN file[i + k] ELSE missing
  PROVE  b = Body(file, k)
<1>1. b = [i \in 1 .. BufSize |-> b[i]]
  BY LenProperties
<1> QED
  BY <1>1, Zenon DEF Body

(* The file of a texture begins with its header.                           *)
LEMMA FileOfHeader ==
  ASSUME NEW i \in Images
  PROVE  /\ FileOf(i) \in Seq(Unit) /\ Len(FileOf(i)) >= 2
         /\ FileOf(i)[1] = mk_header(i)[1] /\ FileOf(i)[2] = mk_header(i)[2]
         /\ MagicFirst(FileOf(i))
<1> DEFINE m == tex_size(i) \div UnitBytes
           p == [n \in 1 .. m |-> Pixels(i, n)]
           h == mk_header(i)
           S == {h[1], h[2]} \cup {Pixels(i, n) : n \in 1 .. m}
           f == FileOf(i)
<1>1. m \in Nat
  BY ImageAssumption DEF UnitBytes
<1>2. h \in Seq(S) /\ Len(h) = 2
  <2>1. h = [k \in 1 .. 2 |-> h[k]]
    BY DEF mk_header
  <2>2. \A k \in 1 .. 2 : h[k] \in S
    OBVIOUS
  <2> QED
    BY <2>1, <2>2, FunctionIsSeq
<1>3. p \in Seq(S)
  <2>1. \A n \in 1 .. m : p[n] \in S
    OBVIOUS
  <2>2. p = [n \in 1 .. m |-> p[n]]
    OBVIOUS
  <2> QED
    BY <1>1, <2>1, <2>2, FunctionIsSeq
<1>4. f = h \o p
  BY DEF FileOf
<1>5. h[1].kind = "DDS "
  BY DEF mk_header
<1> HIDE DEF h, p, S, m
<1>6. Len(f) >= 2 /\ f[1] = h[1] /\ f[2] = h[2]
  <2>1. Len(p) \in Nat
    BY <1>3, LenProperties
  <2>2. /\ Len(f) = Len(h) + Len(p)
        /\ \A k \in 1 .. Len(h) + Len(p) : f[k] = IF k <= Len(h) THEN h[k] ELSE p[k - Len(h)]
    <3> HIDE DEF f
    <3> QED
      BY <1>2, <1>3, <1>4, ConcatProperties
  <2>3. 1 \in 1 .. Len(h) + Len(p) /\ 2 \in 1 .. Len(h) + Len(p) /\ 1 <= Len(h) /\ 2 <= Len(h)
    BY <1>2, <2>1
  <2> HIDE DEF f
  <2> QED
    BY <1>2, <2>1, <2>2, <2>3
<1> HIDE DEF f
<1>7. f \in Seq(Unit)
  BY ConstantTypes DEF f
<1>8. f # <<>>
  BY <1>6, <1>7, EmptySeq
<1> QED
  BY <1>5, <1>6, <1>7, <1>8 DEF h, f, MagicFirst

(* What the code reads from the header of a texture.                       *)
LEMMA ParsedHeader ==
  ASSUME NEW i \in Images, NEW g \in Seq(Unit), Len(g) = 2,
         g[1] = mk_header(i)[1], g[2] = mk_header(i)[2]
  PROVE  ComesBack(i, Parsed(g))
<1>1. i.mip_level \in Nat /\ i.compressed \in BOOLEAN
  BY ImageAssumption
<1> DEFINE u == g[1]
           v == g[2]
<1>6. u = [kind |-> "DDS ", height |-> i.height, width |-> i.width,
           mips |-> i.mip_level, has_mipmapcount |-> i.mip_level > 0]
  BY DEF mk_header
<1>7. v = [kind |-> "format", fourcc |-> i.compressed,
           code |-> IF i.compressed THEN format_char_code(i.fmt) ELSE "none"]
  BY DEF mk_header
<1>2. /\ "height" \in DOMAIN g[1] /\ "width" \in DOMAIN g[1] /\ "mips" \in DOMAIN g[1]
      /\ g[1].height = i.height /\ g[1].width = i.width /\ g[1].mips = i.mip_level
      /\ g[1].has_mipmapcount = (i.mip_level > 0)
  <2> HIDE DEF u, v
  <2>1. /\ "height" \in DOMAIN u /\ "width" \in DOMAIN u /\ "mips" \in DOMAIN u
        /\ u.height = i.height /\ u.width = i.width /\ u.mips = i.mip_level
    BY <1>6
  <2>2. u.has_mipmapcount = (i.mip_level > 0)
    BY <1>6
  <2> QED
    BY <2>1, <2>2 DEF u
<1>3. "fourcc" \in DOMAIN g[2] /\ g[2].fourcc = i.compressed
  <2> HIDE DEF u, v
  <2>1. "fourcc" \in DOMAIN v /\ v.fourcc = i.compressed
    BY <1>7
  <2> QED
    BY <2>1 DEF v
<1> HIDE DEF u, v
<1> DEFINE im == Parsed(g)
<1>4. \E f : im = [height |-> i.height, width |-> i.width, mip_level |-> i.mip_level,
                   compressed |-> i.compressed, fmt |-> f]
  <2>1. (IF g[1].has_mipmapcount THEN g[1].mips ELSE 0) = i.mip_level
    <3>1. CASE i.mip_level > 0
      <4>1. g[1].has_mipmapcount
        BY <1>2, <3>1, Zenon
      <4> QED
        BY <1>2, <4>1, Zenon
    <3>2. CASE ~(i.mip_level > 0)
      <4>1. ~g[1].has_mipmapcount
        BY <1>2, <3>2, Zenon
      <4>2. i.mip_level = 0
        BY <1>1, <3>2
      <4> QED
        BY <4>1, <4>2, Zenon
    <3> QED
      BY <3>1, <3>2, Zenon
  <2>2. Len(g) >= 1
    OBVIOUS
  <2> QED
    BY <1>1, <1>2, <1>3, <2>1, <2>2 DEF Parsed
(* The four character code that was written, and the format it is read as. *)
<1>8. i.compressed => (im.fmt = i.fmt <=> i.fmt = "DXT1")
  <2> SUFFICES ASSUME i.compressed PROVE im.fmt = i.fmt <=> i.fmt = "DXT1"
    OBVIOUS
  <2>1. "code" \in DOMAIN g[2] /\ g[2].code = format_char_code(i.fmt)
    <3>1. "code" \in DOMAIN v /\ v.code = format_char_code(i.fmt)
      BY <1>7
    <3> QED
      BY <3>1 DEF v
  <2>2. im.fmt = fmt_of(format_char_code(i.fmt))
    BY <2>1 DEF Parsed
  <2>3. fmt_of(format_char_code(i.fmt)) = i.fmt <=> i.fmt = "DXT1"
    BY DEF fmt_of, format_char_code
  <2> QED
    BY <2>2, <2>3
<1> HIDE DEF im
<1>5. ComesBack(i, im)
  <2>1. [im EXCEPT !.fmt = i.fmt] =
          [height |-> i.height, width |-> i.width, mip_level |-> i.mip_level,
           compressed |-> i.compressed, fmt |-> i.fmt]
    BY <1>4
  <2>2. i.compressed => (im.fmt = i.fmt <=> i.fmt = "DXT1")
    BY <1>8
  <2> QED
    BY <2>1, <2>2 DEF ComesBack
<1> QED
  BY <1>5 DEF im

(* What a reader finds at the path after a step of its own.                *)
LEMMA SameFile ==
  ASSUME NEW t \in Readers, ReaderOnly(t)
  PROVE  /\ name' = name /\ exists' = exists
         /\ exists => data'[name'] = data[name] /\ file_size' = file_size
BY DEF ReaderOnly, exists, file_size, st_size

(* A reader that a step does not concern is as far as it was.              *)
LEMMA QuietViewKept ==
  ASSUME NEW r \in Readers, SameReader(r), Calm(r), QuietView(r),
         header'[r] = header[r], img'[r] = img[r]
  PROVE  QuietView(r)'
<1> SUFFICES ASSUME call'[r] = "image_buf_load", quiet'[r] PROVE QuietView(r)'
  BY DEF QuietView
<1>1. /\ name' = name /\ exists' = exists /\ call[r] = "image_buf_load" /\ quiet[r]
      /\ exists => data'[name'] = data[name] /\ file_size' = file_size
  BY DEF SameReader, Calm, exists, file_size, st_size
<1>2. CASE exists
  <2>1. Pictured(r) => Pictured(r)'
    BY <1>1, <1>2 DEF SameReader, Pictured
  <2>2. HeaderTaken(r) => HeaderTaken(r)'
    BY <1>1, <1>2 DEF SameReader, HeaderTaken
  <2> QED
    BY <1>1, <1>2, <2>1, <2>2 DEF SameReader, QuietView
<1>3. CASE ~exists
  <2>1. pc'[r] \notin LoadPcs \cup ViewPcs /\ (pc'[r] = "exists" => img'[r] = default)
    BY <1>1, <1>3 DEF SameReader, QuietView
  <2> QED
    BY <1>1, <1>3, <2>1 DEF QuietView, LoadPcs, ViewPcs, DdsPcs, Streams
<1> QED
  BY <1>2, <1>3

LEMMA OthersView ==
  ASSUME ViewInvariant, ReadersKept, UNCHANGED <<header, img>>
  PROVE  ViewInvariant'
<1>1. \A r \in Readers : QuietView(r)'
  BY QuietViewKept DEF ViewInvariant, ReadersKept
<1> QED
  BY <1>1 DEF ViewInvariant

(* A step of the reader t, for which its own part is shown.                *)
LEMMA ViewFrame ==
  ASSUME ViewInvariant, NEW t \in Readers, ReaderOnly(t), QuietView(t)',
         NEW h, header' = header \/ header' = [header EXCEPT ![t] = h],
         NEW i, img' = img \/ img' = [img EXCEPT ![t] = i]
  PROVE  ViewInvariant'
<1>1. \A r \in Readers \ {t} : header'[r] = header[r] /\ img'[r] = img[r]
  BY DEF ViewInvariant
<1>2. \A r \in Readers \ {t} : SameReader(r) /\ Calm(r) /\ QuietView(r)
  BY DEF ReaderOnly, Calm, ViewInvariant
<1>3. \A r \in Readers \ {t} : QuietView(r)'
  BY <1>1, <1>2, QuietViewKept
<1>4. header' = [r \in Readers |-> header'[r]]
  BY DEF ViewInvariant
<1>5. img' = [r \in Readers |-> img'[r]]
  BY DEF ViewInvariant
<1> QED
  BY <1>3, <1>4, <1>5 DEF ViewInvariant

(* The steps of a call of file_load, and the call of image_buf_load.       *)
LEMMA LoadView ==
  ASSUME Inv, ViewInvariant, NEW t \in Readers, Load(t) \/ LoadExists(t) \/ LoadSize(t),
         UNCHANGED imageVars, ReaderOnly(t)
  PROVE  ViewInvariant'
<1>1. call'[t] = "file_load"
  BY DEF Load, LoadExists, LoadSize, Go, Inv, Shape, OwnLoad
<1>2. QuietView(t)'
  BY <1>1 DEF QuietView
<1> QED
  BY <1>2, ViewFrame DEF imageVars

LEMMA ViewView ==
  ASSUME Inv, ViewInvariant, NEW t \in Readers, View(t), ReaderOnly(t)
  PROVE  ViewInvariant'
<1>1. /\ pc' = [pc EXCEPT ![t] = "exists"]
      /\ header' = [header EXCEPT ![t] = <<>>] /\ img' = [img EXCEPT ![t] = default]
  BY DEF View
<1>2. pc'[t] = "exists" /\ img'[t] = default
  BY <1>1 DEF Inv, Shape, ViewInvariant
<1>3. QuietView(t)'
  BY <1>2 DEF QuietView, LoadPcs, ViewPcs, DdsPcs, Streams
<1> QED
  BY <1>1, <1>3, ViewFrame

(* The steps that look at the path.                                        *)
LEMMA ViewLookView ==
  ASSUME Inv, ViewInvariant, NEW t \in Readers,
         ViewExists(t) \/ IsDdsExists(t) \/ DdsSize(t), ReaderOnly(t)
  PROVE  ViewInvariant'
<1>1. UNCHANGED <<header, img, quiet, call>>
  BY DEF ViewExists, IsDdsExists, DdsSize, imageVars
<1>2. QuietView(t)'
  <2> SUFFICES ASSUME call'[t] = "image_buf_load", quiet'[t] PROVE QuietView(t)'
    BY DEF QuietView
  <2>1. QuietView(t) /\ call[t] = "image_buf_load" /\ quiet[t]
    BY <1>1 DEF ViewInvariant
  <2>2. /\ name' = name /\ exists' = exists
        /\ exists => data'[name'] = data[name] /\ file_size' = file_size
    BY SameFile
  <2>3. CASE ViewExists(t) /\ exists
    <3>1. pc[t] = "exists" /\ pc'[t] = "dds_exists" /\ buf'[t] = [n \in 1 .. BufSize |-> missing]
      BY <2>3 DEF ViewExists, Go, Inv, Shape
    <3> QED
      BY <1>1, <2>1, <2>2, <2>3, <3>1 DEF QuietView, LoadPcs, ViewPcs, DdsPcs, Streams
  <2>4. CASE ViewExists(t) /\ ~exists
    <3>1. pc'[t] = "return"
      BY <2>4 DEF ViewExists, Go, Inv, Shape
    <3> QED
      BY <2>2, <2>4, <3>1 DEF QuietView, LoadPcs, ViewPcs, DdsPcs, Streams
  <2>5. CASE IsDdsExists(t)
    <3>1. pc[t] = "dds_exists" /\ exists
      BY <2>1, <2>5 DEF IsDdsExists, Go, Raw, QuietView, ViewPcs
    <3>2. pc'[t] = "magic" /\ buf'[t] = buf[t]
      BY <2>5, <3>1 DEF IsDdsExists, Go, Inv, Shape
    <3> QED
      BY <1>1, <2>1, <2>2, <3>1, <3>2 DEF QuietView, LoadPcs, ViewPcs, DdsPcs, Streams
  <2>6. CASE DdsSize(t)
    <3>1. pc[t] = "dds_size" /\ pc'[t] = "dds_open" /\ buf'[t] = buf[t] /\ size'[t] = file_size
      BY <2>6 DEF DdsSize, Go, Inv, Shape
    <3> QED
      BY <1>1, <2>1, <2>2, <3>1 DEF QuietView, LoadPcs, ViewPcs, DdsPcs, Streams
  <2> QED
    BY <2>3, <2>4, <2>5, <2>6
<1> QED
  BY <1>1, <1>2, ViewFrame

(* The three fopen.                                                        *)
LEMMA OpenView ==
  ASSUME Inv, ViewInvariant, NEW t \in Readers,
         IsDdsOpen(t) \/ DdsOpen(t) \/ ExistingOpen(t), UNCHANGED imageVars, ReaderOnly(t)
  PROVE  ViewInvariant'
<1>1. QuietView(t)'
  <2> SUFFICES ASSUME call'[t] = "image_buf_load", quiet'[t] PROVE QuietView(t)'
    BY DEF QuietView
  <2>1. quiet' # [quiet EXCEPT ![t] = FALSE]
    BY DEF Inv, Shape, Threads
  <2>2. /\ Opened(t) /\ quiet' = quiet /\ UNCHANGED <<size, buf, call, header, img>>
        /\ \/ pc[t] = "magic" /\ pc' = [pc EXCEPT ![t] = "is_dds"]
           \/ pc[t] = "dds_open" /\ pc' = [pc EXCEPT ![t] = "dds_header"]
           \/ pc[t] = "open" /\ pc' = [pc EXCEPT ![t] = "read"]
    BY <2>1 DEF IsDdsOpen, DdsOpen, ExistingOpen, Go, Raw, Fail, imageVars
  <2>3. QuietView(t) /\ call[t] = "image_buf_load" /\ quiet[t]
    BY <2>2 DEF ViewInvariant
  <2>4. exists /\ name \in Inodes /\ handle'[t] = name /\ offset'[t] = 0 /\ got'[t] = <<>>
    BY <2>2, OpenLemma DEF Inv, Shape, Threads
  <2>5. name' = name /\ exists' /\ data'[name'] = data[name] /\ file_size' = file_size
    BY <2>4, SameFile
  <2>6. data[name] \in Seq(Unit) /\ Len(data[name]) \in Nat /\ 0 <= Len(data[name])
    BY <2>4, LenProperties DEF Inv, Shape
  <2>7. SubSeq(data[name], 1, 0) = <<>>
    BY SubSeqEmpty
  <2>8. \/ pc[t] = "magic" /\ pc'[t] = "is_dds"
        \/ pc[t] = "dds_open" /\ pc'[t] = "dds_header"
        \/ pc[t] = "open" /\ pc'[t] = "read"
    BY <2>2 DEF Inv, Shape
  <2>9. img[t] = default /\ buf[t] = [n \in 1 .. BufSize |-> missing]
    BY <2>3, <2>8 DEF QuietView, LoadPcs, ViewPcs
  <2>10. CASE pc'[t] = "is_dds"
    BY <2>2, <2>4, <2>5, <2>6, <2>9, <2>10 DEF QuietView, LoadPcs, ViewPcs, DdsPcs, Streams
  <2>11. CASE pc'[t] = "dds_header"
    <3>1. MagicFirst(data[name]) /\ size[t] = file_size
      BY <2>3, <2>8, <2>11 DEF QuietView, DdsPcs
    <3> QED
      BY <2>2, <2>4, <2>5, <2>6, <2>7, <2>9, <2>11, <3>1
         DEF QuietView, LoadPcs, ViewPcs, DdsPcs, Streams
  <2>12. CASE pc'[t] = "read"
    <3>1. ~MagicFirst(data[name])
      BY <2>3, <2>8, <2>12 DEF QuietView, LoadPcs
    <3> QED
      BY <2>2, <2>4, <2>5, <2>6, <2>7, <2>9, <2>12, <3>1
         DEF QuietView, LoadPcs, ViewPcs, DdsPcs, Streams
  <2> QED
    BY <2>8, <2>10, <2>11, <2>12
<1> QED
  BY <1>1, ViewFrame DEF imageVars

(* is_dds reads the magic number.                                          *)
LEMMA IsDdsView ==
  ASSUME Inv, ViewInvariant, NEW t \in Readers, IsDds(t), ReaderOnly(t)
  PROVE  ViewInvariant'
<1>1. pc[t] = "is_dds" /\ UNCHANGED <<name, call, buf, header, img>>
  BY DEF IsDds, imageVars
<1>2. QuietView(t)'
  <2> SUFFICES ASSUME call'[t] = "image_buf_load", quiet'[t] PROVE QuietView(t)'
    BY DEF QuietView
  <2>1. quiet' # [quiet EXCEPT ![t] = FALSE]
    BY DEF Inv, Shape, Threads
  <2>2. /\ quiet' = quiet
        /\ \/ MagicFirst(data[handle[t]]) /\ pc' = [pc EXCEPT ![t] = "dds_size"]
           \/ ~MagicFirst(data[handle[t]]) /\ pc' = [pc EXCEPT ![t] = "existing"]
    BY <2>1 DEF IsDds, Go, Raw, Fail
  <2>3. QuietView(t) /\ call[t] = "image_buf_load" /\ quiet[t]
    BY <1>1, <2>2 DEF ViewInvariant
  <2>4. /\ exists /\ handle[t] = name
        /\ img[t] = default /\ buf[t] = [n \in 1 .. BufSize |-> missing]
    BY <1>1, <2>3 DEF QuietView, ViewPcs, Streams
  <2>5. name' = name /\ exists' /\ data'[name'] = data[name]
    BY <2>4, SameFile
  <2>6. \/ MagicFirst(data[name]) /\ pc'[t] = "dds_size"
        \/ ~MagicFirst(data[name]) /\ pc'[t] = "existing"
    BY <2>2, <2>4 DEF Inv, Shape
  <2> QED
    BY <1>1, <2>4, <2>5, <2>6 DEF QuietView, LoadPcs, ViewPcs, DdsPcs, Streams
<1> QED
  BY <1>1, <1>2, ViewFrame

(* A file without the magic number, or one that is not there.              *)
LEMMA ExistingLookView ==
  ASSUME Inv, ViewInvariant, NEW t \in Readers, ExistingExists(t) \/ ExistingFits(t),
         UNCHANGED imageVars, ReaderOnly(t)
  PROVE  ViewInvariant'
<1>1. UNCHANGED <<call, size, buf, quiet, header, img>>
  BY DEF ExistingExists, ExistingFits, imageVars
<1>2. QuietView(t)'
  <2> SUFFICES ASSUME call'[t] = "image_buf_load", quiet'[t] PROVE QuietView(t)'
    BY DEF QuietView
  <2>1. QuietView(t) /\ call[t] = "image_buf_load" /\ quiet[t]
    BY <1>1 DEF ViewInvariant
  <2>2. pc[t] \in {"existing", "fits"}
    BY DEF ExistingExists, ExistingFits, Go
  <2>3. /\ exists /\ ~MagicFirst(data[name])
        /\ img[t] = default /\ buf[t] = [n \in 1 .. BufSize |-> missing]
    BY <2>1, <2>2 DEF QuietView, LoadPcs
  <2>4. name' = name /\ exists' /\ data'[name'] = data[name]
    BY <2>3, SameFile
  <2>5. \/ pc'[t] \in {"fits", "open"}
        \/ pc'[t] = "return" /\ ~(file_size <= size[t])
    BY <2>3 DEF ExistingExists, ExistingFits, Go, Inv, Shape
  <2>6. CASE pc'[t] \in {"fits", "open"}
    BY <1>1, <2>3, <2>4, <2>6 DEF QuietView, LoadPcs, ViewPcs, DdsPcs, Streams
  <2>7. CASE pc'[t] = "return" /\ ~(file_size <= size[t])
    <3>1. size[t] = BufSize /\ BufSize \in 0 .. Word - 1 /\ Word \in Nat
      BY <2>1, <2>2, ConstantTypes DEF Inv, OwnLoad, LoadPcs
    <3>2. ASSUME Len(data[name]) <= BufSize PROVE FALSE
      <4> DEFINE l == Len(data[name])
      <4>1. l \in Nat /\ file_size = l % Word
        BY <2>3, LenProperties DEF Inv, Shape, exists, file_size, st_size
      <4>2. l <= BufSize
        BY <3>2
      <4> HIDE DEF l
      <4>3. l % Word = l
        BY <3>1, <4>1, <4>2
      <4> QED
        BY <2>7, <3>1, <4>1, <4>2, <4>3
    <3>3. \A i \in Images : data[name] # FileOf(i)
      BY <2>3, FileOfHeader
    <3>4. Pictured(t)'
      BY <2>3, <2>4, <3>2, <3>3 DEF Pictured
    <3> QED
      BY <2>7, <3>4 DEF QuietView, LoadPcs, ViewPcs, DdsPcs, Streams
  <2> QED
    BY <2>5, <2>6, <2>7
<1> QED
  BY <1>2, ViewFrame DEF imageVars

(* A read(2) of any of the three streams.                                  *)
LEMMA FetchView ==
  ASSUME Inv, ViewInvariant, NEW t \in Readers, DdsFetch(t) \/ ExistingFetch(t),
         UNCHANGED imageVars, ReaderOnly(t)
  PROVE  ViewInvariant'
<1>1. /\ pc[t] \in {"read", "dds_header", "dds_data"} /\ Fetch(t)
      /\ UNCHANGED <<name, data, call, pc, size, handle, buf, quiet, header, img>>
  BY DEF DdsFetch, ExistingFetch, imageVars
<1>2. QuietView(t)'
  <2> SUFFICES ASSUME call'[t] = "image_buf_load", quiet'[t] PROVE QuietView(t)'
    BY DEF QuietView
  <2> DEFINE d == data[name]
             off == offset[t]
  <2>1. QuietView(t) /\ call[t] = "image_buf_load" /\ quiet[t]
    BY <1>1 DEF ViewInvariant
  <2>2. exists /\ handle[t] = name /\ off <= Len(d)
    BY <1>1, <2>1 DEF QuietView, LoadPcs, ViewPcs, Streams
  <2>3. name \in Inodes /\ d \in Seq(Unit) /\ Len(d) \in Nat /\ off \in Nat
    BY <2>2, LenProperties DEF Inv, Shape, Threads, exists
  <2>4. PICK n \in Nat \ {0} :
          /\ off + n <= Len(d)
          /\ got' = [got EXCEPT ![t] = got[t] \o SubSeq(d, off + 1, off + n)]
          /\ offset' = [offset EXCEPT ![t] = off + n]
    BY <1>1, <2>2, <2>3, FetchLemma DEF Inv
  <2>5. got'[t] = got[t] \o SubSeq(d, off + 1, off + n) /\ offset'[t] = off + n
    BY <2>4 DEF Inv, Shape, Threads
  <2>6. /\ name' = name /\ exists' /\ data'[name'] = d /\ handle'[t] = name'
        /\ file_size' = file_size
    BY <1>1, <2>2 DEF exists, file_size, st_size
  <2> HIDE DEF d, off
  <2>7. CASE pc[t] \in {"read", "dds_header"}
    <3>1. got[t] = SubSeq(d, 1, off)
      BY <2>1, <2>7 DEF QuietView, d, off
    <3>2. got'[t] = SubSeq(d, 1, off + n)
      <4>1. SubSeq(d, 1, off) \o SubSeq(d, off + 1, off + n) = SubSeq(d, 1, off + n)
        BY <2>3, <2>4, MoreOfBeginning
      <4> QED
        BY <2>5, <3>1, <4>1
    <3>3. got'[t] = SubSeq(data'[name'], 1, offset'[t]) /\ offset'[t] <= Len(data'[name'])
      BY <2>4, <2>5, <2>6, <3>2
    <3> QED
      BY <1>1, <2>1, <2>6, <2>7, <3>3 DEF QuietView, LoadPcs, ViewPcs, DdsPcs, Streams, d
  <2>8. CASE pc[t] = "dds_data"
    <3>1. offset'[t] <= Len(data'[name'])
      BY <2>4, <2>5, <2>6
    <3>2. ASSUME HeaderUnits <= Len(d) PROVE HeaderTaken(t)'
      <4>1. HeaderTaken(t)
        BY <2>1, <2>8, <3>2 DEF QuietView, d
      <4>2. /\ 2 <= off /\ header[t] = SubSeq(d, 1, HeaderUnits)
            /\ got[t] = SubSeq(d, 2 + 1, off)
        BY <4>1 DEF HeaderTaken, HeaderUnits, d, off
      <4>3. got'[t] = SubSeq(d, 2 + 1, off + n)
        BY <2>3, <2>4, <2>5, <4>2, MoreOfPart
      <4>4. 2 <= off + n
        BY <2>3, <2>4, <4>2
      <4> QED
        BY <1>1, <2>5, <2>6, <4>2, <4>3, <4>4 DEF HeaderTaken, HeaderUnits
    <3> QED
      BY <1>1, <2>1, <2>6, <2>8, <3>1, <3>2 DEF QuietView, LoadPcs, ViewPcs, DdsPcs, Streams, d
  <2> QED
    BY <1>1, <2>7, <2>8
<1> QED
  BY <1>1, <1>2, ViewFrame

(* The header is read, whole unless the file is shorter.                   *)
LEMMA HeaderView ==
  ASSUME Inv, ViewInvariant, NEW t \in Readers, DdsHeader(t), ReaderOnly(t)
  PROVE  ViewInvariant'
<1> DEFINE g == got[t]
           d == data[name]
           off == offset[t]
<1>1. /\ pc[t] = "dds_header" /\ pc' = [pc EXCEPT ![t] = "dds_data"]
      /\ header' = [header EXCEPT ![t] = First(g, HeaderUnits)]
      /\ got' = [got EXCEPT ![t] = SubSeq(g, HeaderUnits + 1, Len(g))]
      /\ EndOfRead(t, HeaderUnits)
      /\ UNCHANGED <<name, data, call, size, handle, offset, buf, img>>
  BY DEF DdsHeader, Go
<1>2. QuietView(t)'
  <2> SUFFICES ASSUME call'[t] = "image_buf_load", quiet'[t] PROVE QuietView(t)'
    BY DEF QuietView
  <2>1. quiet' # [quiet EXCEPT ![t] = FALSE]
    BY DEF Inv, Shape, Threads
  <2>2. quiet' = quiet /\ (Len(g) >= HeaderUnits \/ off >= Len(data[handle[t]]))
    BY <1>1, <2>1 DEF EndOfRead, Fail
  <2>3. QuietView(t) /\ call[t] = "image_buf_load" /\ quiet[t]
    BY <1>1, <2>2 DEF ViewInvariant
  <2>4. /\ exists /\ handle[t] = name /\ off <= Len(d) /\ g = SubSeq(d, 1, off)
        /\ MagicFirst(d) /\ size[t] = file_size
        /\ img[t] = default /\ buf[t] = [n \in 1 .. BufSize |-> missing]
    BY <1>1, <2>3 DEF QuietView, LoadPcs, ViewPcs, DdsPcs, Streams
  <2>5. d \in Seq(Unit) /\ Len(d) \in Nat /\ off \in Nat
    BY <2>4, LenProperties DEF Inv, Shape, Threads, exists
  <2>6. /\ name' = name /\ exists' /\ data'[name'] = d /\ handle'[t] = name'
        /\ file_size' = file_size /\ offset'[t] = off
    BY <1>1, <2>4 DEF exists, file_size, st_size
  <2>7. /\ header'[t] = First(g, HeaderUnits) /\ pc'[t] = "dds_data"
        /\ got'[t] = SubSeq(g, HeaderUnits + 1, Len(g))
    BY <1>1 DEF Inv, Shape, ViewInvariant
  <2>8. ASSUME HeaderUnits <= Len(d) PROVE HeaderTaken(t)'
    <3> HIDE DEF g, d, off
    <3>1. Len(g) = off
      BY <2>4, <2>5, Beginning
    <3>2. 2 <= off
      BY <2>2, <2>4, <2>5, <2>8, <3>1 DEF HeaderUnits, d
    <3>3. First(g, 2) = SubSeq(d, 1, 2)
      BY <2>4, <2>5, <3>2, FirstOfBeginning
    <3>4. SubSeq(g, 2 + 1, Len(g)) = SubSeq(d, 2 + 1, off)
      BY <2>4, <2>5, <3>2, PartOfBeginning
    <3> QED
      BY <2>6, <2>7, <3>2, <3>3, <3>4 DEF HeaderTaken, HeaderUnits
  <2> QED
    BY <1>1, <2>4, <2>6, <2>7, <2>8 DEF QuietView, LoadPcs, ViewPcs, DdsPcs, Streams
<1> QED
  BY <1>1, <1>2, ViewFrame

(* n units of g were stored in the buffer b, where nothing was before.     *)
StoredIn(b, g, n) ==
  \A j \in 1 .. BufSize : b[j] = IF j <= Len(First(g, n)) THEN First(g, n)[j] ELSE missing

(* All of a part that reaches to the end of the file, in a buffer of       *)
(* units that nothing was read for.                                        *)
LEMMA StoredPart ==
  ASSUME NEW file \in Seq(Unit), NEW k \in Nat, k <= Len(file),
         NEW part, part = SubSeq(file, k + 1, Len(file)), NEW asked \in Nat, Len(file) - k <= asked,
         NEW after \in Seq(Unit), Len(after) = BufSize, StoredIn(after, part, asked)
  PROVE  after = Body(file, k)
<1> DEFINE m == Len(file) - k
           f == First(part, asked)
<1>1. Len(file) \in Nat /\ m \in Nat
  BY LenProperties
<1>2. part \in Seq(Unit) /\ Len(part) = m /\ \A j \in 1 .. m : part[j] = file[k + j]
  BY <1>1, Part
<1>3. f = SubSeq(part, 1, m)
  <2>1. (IF asked < Len(part) THEN asked ELSE Len(part)) = m
    BY <1>1, <1>2
  <2> QED
    BY <2>1, Zenon DEF First
<1>4. Len(f) = m /\ \A j \in 1 .. m : f[j] = part[j]
  <2> HIDE DEF m, f
  <2>1. m <= Len(part)
    BY <1>1, <1>2
  <2> QED
    BY <1>1, <1>2, <1>3, <2>1, Beginning
<1>5. BufSize \in Nat
  BY ConstantTypes
<1>6. ASSUME NEW j \in 1 .. BufSize
      PROVE  after[j] = IF j + k <= Len(file) THEN file[j + k] ELSE missing
  <2>1. after[j] = IF j <= m THEN f[j] ELSE missing
    BY <1>4 DEF StoredIn
  <2>2. CASE j <= m
    <3>1. j \in 1 .. m /\ j + k <= Len(file) /\ j + k = k + j
      BY <1>1, <1>5, <2>2
    <3>2. after[j] = file[k + j]
      BY <1>2, <1>4, <2>1, <2>2, <3>1
    <3> QED
      BY <3>1, <3>2
  <2>3. CASE ~(j <= m)
    <3>1. ~(j + k <= Len(file))
      BY <1>1, <1>5, <2>3
    <3> QED
      BY <2>1, <2>3, <3>1
  <2> QED
    BY <2>2, <2>3
<1> QED
  BY <1>6, BodyLemma

(* A raw file in the buffer.                                               *)
LEMMA ExistingReadView ==
  ASSUME Inv, ViewInvariant, NEW t \in Readers, ExistingRead(t), UNCHANGED imageVars, ReaderOnly(t)
  PROVE  ViewInvariant'
<1> DEFINE n == size[t]
           g == got[t]
           d == data[name]
           off == offset[t]
<1>1. /\ pc[t] = "read" /\ pc' = [pc EXCEPT ![t] = "return"]
      /\ Store(t, n) /\ EndOfRead(t, n)
      /\ UNCHANGED <<name, call, size, header, img>>
  BY DEF ExistingRead, Go, imageVars
<1>2. QuietView(t)'
  <2> SUFFICES ASSUME call'[t] = "image_buf_load", quiet'[t] PROVE QuietView(t)'
    BY DEF QuietView
  <2>1. quiet' # [quiet EXCEPT ![t] = FALSE]
    BY DEF Inv, Shape, Threads
  <2>2. quiet' = quiet /\ (Len(g) >= n \/ off >= Len(data[handle[t]]))
    BY <1>1, <2>1 DEF EndOfRead, Fail
  <2>3. QuietView(t) /\ call[t] = "image_buf_load" /\ quiet[t]
    BY <1>1, <2>2 DEF ViewInvariant
  <2>4. /\ exists /\ handle[t] = name /\ off <= Len(d) /\ g = SubSeq(d, 1, off)
        /\ ~MagicFirst(d)
        /\ img[t] = default /\ buf[t] = [j \in 1 .. BufSize |-> missing]
    BY <1>1, <2>3 DEF QuietView, LoadPcs, ViewPcs, DdsPcs, Streams
  <2>5. d \in Seq(Unit) /\ Len(d) \in Nat /\ off \in Nat
    BY <2>4, LenProperties DEF Inv, Shape, Threads, exists
  <2>6. name' = name /\ exists' /\ data'[name'] = d
    BY <2>4, SameFile
  <2>7. n = BufSize /\ BufSize \in Nat /\ Len(buf[t]) = BufSize
    BY <1>1, <2>3, ConstantTypes DEF Inv, OwnLoad, LoadPcs
  <2>8. pc'[t] = "return"
    BY <1>1 DEF Inv, Shape
  <2>9. ASSUME Len(d) <= BufSize PROVE buf'[t] = Body(d, 0)
    <3>1. /\ buf'[t] \in Seq(Unit) /\ Len(buf'[t]) = BufSize
          /\ \A j \in 1 .. BufSize : buf'[t][j] = IF j <= Len(First(g, n)) THEN First(g, n)[j] ELSE buf[t][j]
      <4>1. /\ buf' \in [Readers -> Seq(Unit)] /\ Len(buf'[t]) = Len(buf[t])
            /\ \A j \in 1 .. Len(buf[t]) :
                 buf'[t][j] = IF j <= Len(First(g, n)) THEN First(g, n)[j] ELSE buf[t][j]
        BY <1>1, <2>7, StoreLemma DEF Inv
      <4> HIDE DEF g, n
      <4> QED
        BY <2>7, <4>1
    <3>2. \A j \in 1 .. BufSize : buf[t][j] = missing
      BY <2>4
    <3> HIDE DEF g, d, off, n
    <3>3. Len(g) = off
      BY <2>4, <2>5, Beginning
    <3>4. off = Len(d)
      BY <2>2, <2>4, <2>5, <2>7, <2>9, <3>3 DEF d
    <3>5. g = SubSeq(d, 0 + 1, Len(d)) /\ 0 <= Len(d) /\ Len(d) - 0 <= n /\ n \in Nat /\ 0 \in Nat
      BY <2>4, <2>5, <2>7, <2>9, <3>4
    <3>6. \A j \in 1 .. BufSize : buf'[t][j] = IF j <= Len(First(g, n)) THEN First(g, n)[j] ELSE missing
      BY <3>1, <3>2
    <3> DEFINE b == buf'[t]
    <3>7. b \in Seq(Unit) /\ Len(b) = BufSize
      BY <3>1
    <3> HIDE DEF b
    <3>8. StoredIn(b, g, n)
      BY <3>6 DEF StoredIn, b
    <3>9. b = Body(d, 0)
      BY <2>5, <3>5, <3>7, <3>8, StoredPart, Zenon
    <3> QED
      BY <3>9 DEF b
  <2>10. \A i \in Images : d # FileOf(i)
    BY <2>4, FileOfHeader
  <2>11. Pictured(t)'
    BY <1>1, <2>4, <2>6, <2>9, <2>10 DEF Pictured
  <2> QED
    BY <2>8, <2>11 DEF QuietView, LoadPcs, ViewPcs, DdsPcs, Streams
<1> QED
  BY <1>1, <1>2, ViewFrame

(* The file sizes that a buffer of less than 4 GiB leaves room for.        *)
LEMMA Wrapped ==
  ASSUME NEW w \in Nat, w > 1, NEW l \in Nat, l <= w + 1, l % w >= 2
  PROVE  l % w = l
<1>1. CASE l < w
  BY <1>1
<1>2. CASE l = w
  <2>1. w % w = 0
    OBVIOUS
  <2> QED
    BY <1>2, <2>1
<1>3. CASE l = w + 1
  <2>1. (w + 1) % w = 1
    OBVIOUS
  <2> QED
    BY <1>3, <2>1
<1> QED
  BY <1>1, <1>2, <1>3

(* The pixels in the buffer, and what was made of the header.              *)
LEMMA DdsReadView ==
  ASSUME Inv, ViewInvariant, NEW t \in Readers, DdsRead(t), ReaderOnly(t)
  PROVE  ViewInvariant'
<1> DEFINE n == Remaining(t)
           g == got[t]
           d == data[name]
           off == offset[t]
<1>1. /\ pc[t] = "dds_data" /\ pc' = [pc EXCEPT ![t] = "return"]
      /\ Store(t, n) /\ EndOfRead(t, n)
      /\ img' = [img EXCEPT ![t] = Parsed(header[t])]
      /\ UNCHANGED <<name, call, size, header>>
  BY DEF DdsRead, Go
<1>2. QuietView(t)'
  <2> SUFFICES ASSUME call'[t] = "image_buf_load", quiet'[t] PROVE QuietView(t)'
    BY DEF QuietView
  <2>1. quiet' # [quiet EXCEPT ![t] = FALSE]
    BY DEF Inv, Shape, Threads
  <2>2. quiet' = quiet /\ (Len(g) >= n \/ off >= Len(data[handle[t]]))
    BY <1>1, <2>1 DEF EndOfRead, Fail
  <2>3. QuietView(t) /\ call[t] = "image_buf_load" /\ quiet[t]
    BY <1>1, <2>2 DEF ViewInvariant
  <2>4. /\ exists /\ handle[t] = name /\ off <= Len(d)
        /\ MagicFirst(d) /\ size[t] = file_size
        /\ buf[t] = [j \in 1 .. BufSize |-> missing]
        /\ HeaderUnits <= Len(d) => HeaderTaken(t)
    BY <1>1, <2>3 DEF QuietView, LoadPcs, ViewPcs, DdsPcs, Streams
  <2>5. /\ d \in Seq(Unit) /\ Len(d) \in Nat /\ off \in Nat
        /\ g \in Seq(Unit) /\ Len(g) \in Nat /\ size[t] \in Nat
    BY <2>4, LenProperties DEF Inv, Shape, Threads, exists
  <2>6. name' = name /\ exists' /\ data'[name'] = d
    BY <2>4, SameFile
  <2>7. /\ BufSize \in Nat /\ Len(buf[t]) = BufSize
        /\ Word \in Nat /\ Word > 1 /\ BufSize <= Word - 1
    BY <2>3, ConstantTypes DEF Inv, OwnLoad
  <2>8. pc'[t] = "return" /\ img'[t] = Parsed(header[t])
    BY <1>1 DEF Inv, Shape, ViewInvariant
  <2>9. n \in Nat /\ n = (IF size[t] >= 2 THEN size[t] - 2 ELSE Len(g) + 1)
    BY <2>5 DEF Remaining, HeaderUnits
  <2>10. ASSUME NEW i \in Images, d = FileOf(i), Len(d) - HeaderUnits <= BufSize
         PROVE  ComesBack(i, img'[t]) /\ buf'[t] = Body(d, HeaderUnits)
    <3>1. /\ Len(d) >= 2 /\ d[1] = mk_header(i)[1] /\ d[2] = mk_header(i)[2]
      BY <2>10, FileOfHeader
    <3>2. /\ 2 <= off /\ header[t] = SubSeq(d, 1, 2) /\ g = SubSeq(d, 2 + 1, off)
      BY <2>4, <2>5, <3>1 DEF HeaderTaken, HeaderUnits
    <3>3. /\ buf'[t] \in Seq(Unit) /\ Len(buf'[t]) = BufSize
          /\ \A j \in 1 .. BufSize : buf'[t][j] = IF j <= Len(First(g, n)) THEN First(g, n)[j] ELSE buf[t][j]
      <4> HIDE DEF n
      <4>1. /\ buf' \in [Readers -> Seq(Unit)] /\ Len(buf'[t]) = Len(buf[t])
            /\ \A j \in 1 .. Len(buf[t]) :
                 buf'[t][j] = IF j <= Len(First(g, n)) THEN First(g, n)[j] ELSE buf[t][j]
        BY <1>1, <2>9, StoreLemma DEF Inv
      <4> HIDE DEF g
      <4> QED
        BY <2>7, <4>1
    <3>4. \A j \in 1 .. BufSize : buf[t][j] = missing
      BY <2>4
    <3>5. size[t] = Len(d) % Word
      BY <2>4 DEF file_size, st_size
    <3>6. Len(d) <= BufSize + 2
      BY <2>5, <2>7, <2>10 DEF HeaderUnits
    <3>7. off >= Len(d) \/ Len(g) >= n
      BY <2>2, <2>4
    <3> HIDE DEF g, d, off, n
    <3>8. ComesBack(i, img'[t])
      <4> DEFINE h == SubSeq(d, 1, 2)
      <4>1. h \in Seq(Unit) /\ Len(h) = 2 /\ \A j \in 1 .. 2 : h[j] = d[j]
        BY <2>5, <3>1, Beginning
      <4> HIDE DEF h
      <4>2. h[1] = mk_header(i)[1] /\ h[2] = mk_header(i)[2]
        BY <3>1, <4>1
      <4>3. ComesBack(i, Parsed(h))
        BY <4>1, <4>2, ParsedHeader
      <4>4. img'[t] = Parsed(h)
        BY <2>8, <3>2 DEF h
      <4> QED
        BY <4>3, <4>4
    <3>9. Len(g) = off - 2
      <4>1. 2 \in Nat
        OBVIOUS
      <4> QED
        BY <2>4, <2>5, <3>2, <4>1, Part DEF d, off
    <3>10. off = Len(d) /\ Len(d) - 2 <= n
      <4>1. CASE size[t] >= 2
        <5> DEFINE l == Len(d)
        <5>1. l \in Nat /\ l <= Word + 1 /\ l % Word >= 2
          BY <2>5, <2>7, <3>5, <3>6, <4>1
        <5> HIDE DEF l
        <5>2. l % Word = l
          BY <2>7, <5>1, Wrapped
        <5>3. n = Len(d) - 2
          BY <2>9, <3>5, <4>1, <5>2 DEF l
        <5> QED
          BY <2>4, <2>5, <3>7, <3>9, <5>3 DEF d, off
      <4>2. CASE ~(size[t] >= 2)
        <5>1. n = Len(g) + 1
          BY <2>9, <4>2
        <5> QED
          BY <2>4, <2>5, <3>7, <3>9, <5>1 DEF d, off
      <4> QED
        BY <4>1, <4>2
    <3> DEFINE b == buf'[t]
    <3>11. b \in Seq(Unit) /\ Len(b) = BufSize
      BY <3>3
    <3>12. StoredIn(b, g, n)
      BY <3>3, <3>4 DEF StoredIn
    <3> HIDE DEF b
    <3>13. g = SubSeq(d, 2 + 1, Len(d)) /\ 2 <= Len(d) /\ 2 \in Nat
      BY <3>1, <3>2, <3>10
    <3>14. b = Body(d, 2)
      BY <2>5, <2>9, <3>10, <3>11, <3>12, <3>13, StoredPart, Zenon
    <3> QED
      BY <3>8, <3>14 DEF b, HeaderUnits
  <2>11. Pictured(t)'
    BY <2>4, <2>6, <2>10 DEF Pictured
  <2> QED
    BY <2>8, <2>11 DEF QuietView, LoadPcs, ViewPcs, DdsPcs, Streams
<1> QED
  BY <1>1, <1>2, ViewFrame

(***************************************************************************)
(* The theorems.                                                           *)
(***************************************************************************)

LEMMA StutterInv ==
  ASSUME Inv, UNCHANGED vars
  PROVE  Inv'
<1> USE DEF vars, fileVars, imageVars
<1>1. Shape'
  BY DEF Inv, Shape
<1>2. \A t \in Readers : OwnLoad(t)'
  BY DEF Inv, OwnLoad
<1>3. \A t \in Readers : QuietLoad(t)'
  BY DEF Inv, QuietLoad, Whole, exists, file_size, st_size
<1>4. \A w \in Writers : OwnSave(w)'
  BY DEF Inv, OwnSave, exists
<1> QED
  BY <1>1, <1>2, <1>3, <1>4 DEF Inv

LEMMA NextInv ==
  ASSUME Inv, [Next]_vars
  PROVE  Inv'
<1>1. ASSUME NEW t \in Readers, LoadStep(t), UNCHANGED imageVars PROVE Inv'
  BY <1>1, LookInv, LoadSizeInv, ExistingOpenInv, ExistingFetchInv, ExistingReadInv DEF LoadStep
<1>2. ASSUME NEW t \in Readers, ViewStep(t) PROVE Inv'
  BY <1>2, ViewExistsInv, AskInv, ViewOpenInv, IsDdsInv, DdsFetchInv, DdsHeaderInv, DdsReadInv
     DEF ViewStep
<1>3. ASSUME NEW t \in Readers, Load(t), UNCHANGED imageVars PROVE Inv'
  BY <1>3, LoadInv
<1>4. ASSUME NEW t \in Readers, View(t) PROVE Inv'
  BY <1>4, ViewInv
<1>5. ASSUME NEW w \in Writers, SaveStep(w) PROVE Inv'
  BY <1>5, SaveOpenInv, SaveWriteInv, SaveCloseInv DEF SaveStep
<1>6. ASSUME NEW w \in Writers, NEW i \in Images, Save(w, i) PROVE Inv'
  BY <1>6, SaveInv
<1>7. ASSUME NEW c \in Contents, Replace(c), UNCHANGED imageVars PROVE Inv'
  BY <1>7, ReplaceInv
<1>8. ASSUME Remove, UNCHANGED imageVars PROVE Inv'
  BY <1>8, RemoveInv
<1>9. CASE UNCHANGED vars
  BY <1>9, StutterInv
<1> QED
  BY <1>1, <1>2, <1>3, <1>4, <1>5, <1>6, <1>7, <1>8, <1>9 DEF Next, ReaderStep

(* The inductive invariant of loads and saves holds in every reachable     *)
(* state.                                                                  *)
THEOREM Invariance == Spec => []Inv
<1>1. Init => Inv
  BY InitInv
<1>2. Inv /\ [Next]_vars => Inv'
  BY NextInv
<1> QED
  BY <1>1, <1>2, PTL DEF Spec

(* Sizes are u32, every stream that fopen opened is closed before the call *)
(* returns, and a caller's buffer keeps its size.                          *)
THEOREM TypeCorrect == Spec => []TypeOK
<1>1. Inv => TypeOK
  BY DEF Inv, Shape, OwnLoad, OwnSave, Streams, TypeOK
<1> QED
  BY <1>1, Invariance, PTL

(* However the file changes between the looks of file_load, what it        *)
(* returns ends with a NUL, so that a parser of text stops inside the      *)
(* buffer, if and only if the size that it read is not 2^32 - 1.           *)
THEOREM TextsTerminated == Spec => []Terminated
<1>1. Inv => Terminated
  <2> SUFFICES ASSUME Inv, NEW t \in Readers, pc[t] = "return", call[t] = "file_load"
               PROVE  EndsWithNul(buf[t], size[t]) <=> size[t] + 1 < Word
    BY DEF Terminated
  <2>1. NulBehind(buf[t], size[t]) /\ Len(buf[t]) = Allocate(size[t])
    BY DEF Inv, OwnLoad
  <2>2. size[t] \in 0 .. Word - 1 /\ Word \in Nat
    BY ConstantTypes DEF Inv, Shape
  <2>3. Allocate(size[t]) = IF size[t] = Word - 1 THEN 0 ELSE size[t] + 1
    BY <2>2, ConstantTypes
  <2>4. CASE size[t] = Word - 1
    BY <2>1, <2>2, <2>3, <2>4 DEF EndsWithNul
  <2>5. CASE size[t] # Word - 1
    <3>1. Len(buf[t]) # 0
      BY <2>1, <2>2, <2>3, <2>5
    <3>2. buf[t] # <<>>
      BY <3>1, EmptySeq
    <3> QED
      BY <2>1, <2>2, <2>5, <3>2 DEF NulBehind, EndsWithNul
  <2> QED
    BY <2>4, <2>5
<1> QED
  BY <1>1, Invariance, PTL

(* An undisturbed file_load returns the whole file, however fread splits   *)
(* it, unless its size does not fit in a u32.                              *)
THEOREM LoadsWhole == Spec => []LoadedWhole
<1>1. Inv => LoadedWhole
  BY DEF Inv, QuietLoad, Whole, LoadedWhole
<1> QED
  BY <1>1, Invariance, PTL

(* A load writes past its buffer only when file_load met a file one byte   *)
(* short of a multiple of 4 GiB, or image_buf_load a DDS file that was too *)
(* large or too small when its size was read.                              *)
THEOREM OverrunsExplained == Spec => []OverrunHasCause
<1>1. Inv => OverrunHasCause
  <2> SUFFICES ASSUME Inv, NEW t \in Readers, over[t]
               PROVE  \/ call[t] = "file_load" /\ size[t] = Word - 1
                      \/ call[t] = "image_buf_load" /\ size[t] - HeaderUnits \notin 0 .. BufSize
    BY DEF OverrunHasCause
  <2>1. OwnLoad(t) /\ call[t] \in {"none", "file_load", "image_buf_load"}
    BY DEF Inv, Shape
  <2> QED
    BY <2>1 DEF OwnLoad
<1> QED
  BY <1>1, Invariance, PTL

(* An undisturbed img_write leaves exactly the file of its texture, from   *)
(* whatever was there and however fwrite splits it.                        *)
THEOREM SavesWhole == Spec => []Saved
<1>1. Inv => Saved
  BY DEF Inv, OwnSave, Saved
<1> QED
  BY <1>1, Invariance, PTL

(* How far every image_buf_load has come, initially and after each step.   *)
LEMMA ViewInit ==
  ASSUME Init
  PROVE  ViewInvariant
BY DEF Init, FileInit, ViewInvariant, QuietView

LEMMA ViewNext ==
  ASSUME Inv, ViewInvariant, [Next]_vars
  PROVE  ViewInvariant'
<1>1. ASSUME NEW t \in Readers, LoadStep(t), UNCHANGED imageVars PROVE ViewInvariant'
  <2>1. ReaderOnly(t)
    BY <1>1, LookInv, LoadSizeInv, ExistingOpenInv, ExistingFetchInv, ExistingReadInv DEF LoadStep
  <2>2. CASE LoadExists(t) \/ LoadSize(t)
    BY <1>1, <2>1, <2>2, LoadView
  <2>3. CASE ExistingExists(t) \/ ExistingFits(t)
    BY <1>1, <2>1, <2>3, ExistingLookView
  <2>4. CASE ExistingOpen(t)
    BY <1>1, <2>1, <2>4, OpenView
  <2>5. CASE ExistingFetch(t)
    BY <1>1, <2>1, <2>5, FetchView
  <2>6. CASE ExistingRead(t)
    BY <1>1, <2>1, <2>6, ExistingReadView
  <2> QED
    BY <1>1, <2>2, <2>3, <2>4, <2>5, <2>6 DEF LoadStep
<1>2. ASSUME NEW t \in Readers, ViewStep(t) PROVE ViewInvariant'
  <2>1. ReaderOnly(t)
    BY <1>2, ViewExistsInv, AskInv, ViewOpenInv, IsDdsInv, DdsFetchInv, DdsHeaderInv, DdsReadInv
       DEF ViewStep
  <2>2. CASE ViewExists(t) \/ IsDdsExists(t) \/ DdsSize(t)
    BY <2>1, <2>2, ViewLookView
  <2>3. CASE IsDdsOpen(t) \/ DdsOpen(t)
    <3>1. UNCHANGED imageVars
      BY <2>3 DEF IsDdsOpen, DdsOpen
    <3> QED
      BY <2>1, <2>3, <3>1, OpenView
  <2>4. CASE IsDds(t)
    BY <2>1, <2>4, IsDdsView
  <2>5. CASE DdsFetch(t)
    <3>1. UNCHANGED imageVars
      BY <2>5 DEF DdsFetch
    <3> QED
      BY <2>1, <2>5, <3>1, FetchView
  <2>6. CASE DdsHeader(t)
    BY <2>1, <2>6, HeaderView
  <2>7. CASE DdsRead(t)
    BY <2>1, <2>7, DdsReadView
  <2> QED
    BY <1>2, <2>2, <2>3, <2>4, <2>5, <2>6, <2>7 DEF ViewStep
<1>3. ASSUME NEW t \in Readers, Load(t), UNCHANGED imageVars PROVE ViewInvariant'
  BY <1>3, LoadInv, LoadView
<1>4. ASSUME NEW t \in Readers, View(t) PROVE ViewInvariant'
  BY <1>4, ViewInv, ViewView
<1>5. ASSUME NEW w \in Writers, SaveStep(w) PROVE ViewInvariant'
  <2>1. ReadersKept
    BY <1>5, SaveOpenInv, SaveWriteInv, SaveCloseInv DEF SaveStep
  <2>2. UNCHANGED <<header, img>>
    BY <1>5 DEF SaveStep, SaveOpen, SaveWrite, SaveClose, readerVars
  <2> QED
    BY <2>1, <2>2, OthersView
<1>6. ASSUME NEW w \in Writers, NEW i \in Images, Save(w, i) PROVE ViewInvariant'
  <2>1. ReadersKept
    BY <1>6, SaveInv
  <2>2. UNCHANGED <<header, img>>
    BY <1>6 DEF Save, readerVars
  <2> QED
    BY <2>1, <2>2, OthersView
<1>7. ASSUME NEW c \in Contents, Replace(c), UNCHANGED imageVars PROVE ViewInvariant'
  <2>1. ReadersKept
    BY <1>7, ReplaceInv
  <2> QED
    BY <1>7, <2>1, OthersView DEF imageVars
<1>8. ASSUME Remove, UNCHANGED imageVars PROVE ViewInvariant'
  <2>1. ReadersKept
    BY <1>8, RemoveInv
  <2> QED
    BY <1>8, <2>1, OthersView DEF imageVars
<1>9. CASE UNCHANGED vars
  <2>1. ReadersKept
    BY <1>9 DEF vars, fileVars, ReadersKept, SameReader, Calm
  <2> QED
    BY <1>9, <2>1, OthersView DEF vars, imageVars
<1> QED
  BY <1>1, <1>2, <1>3, <1>4, <1>5, <1>6, <1>7, <1>8, <1>9 DEF Next, ReaderStep

(* An undisturbed image_buf_load returns the dimensions, the mipmaps and   *)
(* the pixels of the texture that img_write saved, whatever pieces fread   *)
(* gets it in, and a file that is no DDS as it is, if the buffer holds it. *)
THEOREM ViewsBack == Spec => []Viewed
<1>1. Init => ViewInvariant
  BY ViewInit
<1>2. Inv /\ ViewInvariant /\ [Next]_vars => ViewInvariant'
  BY ViewNext
<1>3. ViewInvariant => Viewed
  <2> SUFFICES ASSUME ViewInvariant PROVE Viewed
    OBVIOUS
  <2>1. ASSUME NEW t \in Readers, pc[t] = "return", call[t] = "image_buf_load", quiet[t], exists
        PROVE  Pictured(t)
    BY <2>1 DEF ViewInvariant, QuietView
  <2> QED
    BY <2>1 DEF Viewed, Pictured, ComesBack, Body
<1> QED
  BY <1>1, <1>2, <1>3, Invariance, PTL DEF Spec

=============================================================================
