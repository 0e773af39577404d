--------------------------- MODULE ObjModelProofs ---------------------------
(***************************************************************************)
(* The two passes of obj_load agree for texts of any length, and the       *)
(* second one stays in its buffers unless a count has wrapped.             *)
(***************************************************************************)
EXTENDS ObjModel, FiniteSetTheorems, TLAPS

(* The faces and the vertices among the first n lines.                     *)
Faces(n) == {i \in 1 .. n : lines[i].newline /\ IsFace(lines[i])}
Points(n) == {i \in 1 .. n : lines[i].newline /\ IsVertex(lines[i])}

(* A text whose lines but the last end with a newline.                     *)
Text(t) ==
  /\ t \in Seq(Lines)
  /\ \A i \in 1 .. Len(t) - 1 : t[i].newline

TypesOK ==
  /\ obj_pc \in {"idle", "tally", "read", "return"}
  /\ Text(lines)
  /\ line \in 0 .. Len(lines)
  /\ \A i \in 1 .. line : lines[i].newline

Tallied(n) ==
  /\ idx_count = (3 * Cardinality(Faces(n))) % Counts
  /\ vert_count = Cardinality(Points(n)) % Counts

Stored(n) ==
  /\ ipos = 3 * Cardinality(Faces(n))
  /\ vpos = Cardinality(Points(n))

(* What was counted and stored at each point of the two passes.            *)
Inv ==
  /\ TypesOK
  /\ obj_pc = "idle" => line = 0 /\ lines = <<>> /\ Tallied(0) /\ ipos = 0 /\ vpos = 0
  /\ obj_pc = "tally" => Tallied(line) /\ ipos = 0 /\ vpos = 0
  /\ obj_pc = "read" =>
       /\ Tallied(Len(lines)) /\ Stored(line)
       /\ vertices = vert_count /\ indices = idx_count
  /\ obj_pc = "return" =>
       /\ Tallied(Len(lines))
       /\ \/ ipos = 0 /\ vpos = 0
          \/ Stored(Len(lines)) /\ vertices = vert_count /\ indices = idx_count

-----------------------------------------------------------------------------
(* Of a set of lines, what the next line adds.                             *)
LEMMA FinitePrefix ==
  ASSUME NEW n \in Nat, NEW S, S \subseteq 1 .. n
  PROVE  IsFiniteSet(S) /\ Cardinality(S) \in Nat
<1>1. IsFiniteSet(1 .. n)
  BY FS_Interval
<1>2. IsFiniteSet(S)
  BY <1>1, FS_Subset
<1> QED
  BY <1>2, FS_CardinalityType

LEMMA OneMore ==
  ASSUME NEW n \in Nat, NEW S, NEW T, S \subseteq 1 .. n, T = S \cup {n + 1}
  PROVE  Cardinality(T) = Cardinality(S) + 1
<1>1. IsFiniteSet(S)
  BY FinitePrefix
<1>2. n + 1 \notin S
  OBVIOUS
<1> QED
  BY <1>1, <1>2, FS_AddElement

LEMMA Subset ==
  ASSUME NEW n \in Nat, NEW S, NEW T, S \subseteq T, T \subseteq 1 .. n
  PROVE  Cardinality(S) <= Cardinality(T)
<1>1. IsFiniteSet(T)
  BY FinitePrefix
<1> QED
  BY <1>1, FS_Subset

(* Counts are naturals.                                                    *)
LEMMA Numbers ==
  ASSUME NEW n \in Nat
  PROVE  Cardinality(Faces(n)) \in Nat /\ Cardinality(Points(n)) \in Nat
<1>1. Faces(n) \subseteq 1 .. n /\ Points(n) \subseteq 1 .. n
  BY DEF Faces, Points
<1> QED
  BY <1>1, FinitePrefix

LEMMA NoLines == Cardinality(Faces(0)) = 0 /\ Cardinality(Points(0)) = 0
<1>1. Faces(0) = {} /\ Points(0) = {}
  BY DEF Faces, Points
<1> QED
  BY <1>1, FS_EmptySet

LEMMA NextLine ==
  ASSUME NEW n \in Nat, lines[n + 1].newline
  PROVE  /\ Cardinality(Faces(n + 1)) = Cardinality(Faces(n)) + IF IsFace(lines[n + 1]) THEN 1 ELSE 0
         /\ Cardinality(Points(n + 1)) = Cardinality(Points(n)) + IF IsVertex(lines[n + 1]) THEN 1 ELSE 0
<1>1. 1 .. n + 1 = (1 .. n) \cup {n + 1}
  OBVIOUS
<1>2. Faces(n) \subseteq 1 .. n /\ Points(n) \subseteq 1 .. n
  BY DEF Faces, Points
<1>3. Faces(n + 1) = IF IsFace(lines[n + 1]) THEN Faces(n) \cup {n + 1} ELSE Faces(n)
  BY <1>1, Zenon DEF Faces
<1>4. Points(n + 1) = IF IsVertex(lines[n + 1]) THEN Points(n) \cup {n + 1} ELSE Points(n)
  BY <1>1, Zenon DEF Points
<1>5. IsFace(lines[n + 1]) => Cardinality(Faces(n + 1)) = Cardinality(Faces(n)) + 1
  BY <1>2, <1>3, OneMore
<1>6. IsVertex(lines[n + 1]) => Cardinality(Points(n + 1)) = Cardinality(Points(n)) + 1
  BY <1>2, <1>4, OneMore
<1>7. Cardinality(Faces(n)) \in Nat /\ Cardinality(Points(n)) \in Nat
  BY Numbers
<1> QED
  BY <1>3, <1>4, <1>5, <1>6, <1>7

(* Where a pass ends, every line that counts is behind.                    *)
LEMMA PassIsWhole ==
  ASSUME TypesOK, PassEnds
  PROVE  Faces(line) = Faces(Len(lines)) /\ Points(line) = Points(Len(lines))
<1>1. Len(lines) \in Nat /\ line \in Nat /\ line <= Len(lines)
  BY DEF TypesOK, Text
<1>2. CASE line = Len(lines)
  BY <1>2
<1>3. CASE line < Len(lines)
  <2>1. ~lines[line + 1].newline
    BY <1>3 DEF PassEnds
  <2>2. line + 1 = Len(lines)
    <3>1. line + 1 \in 1 .. Len(lines)
      BY <1>1, <1>3
    <3>2. line + 1 \notin 1 .. Len(lines) - 1
      BY <2>1 DEF TypesOK, Text
    <3> QED
      BY <1>1, <3>1, <3>2
  <2>3. 1 .. Len(lines) = (1 .. line) \cup {line + 1}
    BY <1>1, <2>2
  <2> QED
    BY <2>1, <2>3, Zenon DEF Faces, Points
<1> QED
  BY <1>1, <1>2, <1>3

(* A step to the next line of a pass.                                      *)
LEMMA LineStep ==
  ASSUME TypesOK, ~PassEnds
  PROVE  /\ line \in Nat /\ line + 1 \in 0 .. Len(lines) /\ lines[line + 1].newline
         /\ \A i \in 1 .. line + 1 : lines[i].newline
<1>1. Len(lines) \in Nat /\ line \in Nat /\ line <= Len(lines) /\ line # Len(lines)
  BY DEF TypesOK, Text, PassEnds
<1>2. lines[line + 1].newline
  BY DEF PassEnds
<1> QED
  BY <1>1, <1>2 DEF TypesOK

(* A sum that was reduced before the next addition.                        *)
LEMMA Reduced ==
  ASSUME NEW a \in Nat, NEW b \in Nat
  PROVE  ((a % Counts) + b) % Counts = (a + b) % Counts
<1>1. Counts \in Nat /\ Counts > 0
  BY ObjAssumption
<1> DEFINE q == a \div Counts
           m == a % Counts
           r == (m + b) % Counts
           p == (m + b) \div Counts
<1>2. q \in Int /\ m \in 0 .. Counts - 1 /\ a = Counts * q + m
  BY <1>1
<1>3. r \in 0 .. Counts - 1 /\ p \in Int /\ m + b = Counts * p + r
  BY <1>1, <1>2
<1> HIDE DEF q, m, r, p
<1> DEFINE t == (a + b) \div Counts
           s == (a + b) % Counts
<1>4. t \in Int /\ s \in 0 .. Counts - 1 /\ a + b = Counts * t + s
  BY <1>1
<1> HIDE DEF t, s
<1>5. PICK d \in Int : t = (q + p) + d
  <2>1. t - (q + p) \in Int /\ t = (q + p) + (t - (q + p))
    BY <1>2, <1>3, <1>4
  <2> QED
    BY <2>1
<1>6. Counts * t = Counts * q + Counts * p + Counts * d
  BY <1>1, <1>2, <1>3, <1>5
<1>7. Counts * d = r - s
  BY <1>1, <1>2, <1>3, <1>4, <1>6
<1>8. d = 0
  <2>1. ASSUME d >= 1 PROVE FALSE
    <3>1. Counts * d >= Counts
      BY <1>1, <2>1
    <3> QED
      BY <1>1, <1>3, <1>4, <1>7, <3>1
  <2>2. ASSUME d <= -1 PROVE FALSE
    <3>1. Counts * d <= -Counts
      BY <1>1, <2>2
    <3> QED
      BY <1>1, <1>3, <1>4, <1>7, <3>1
  <2> QED
    BY <2>1, <2>2
<1>9. r = s
  BY <1>1, <1>3, <1>4, <1>7, <1>8
<1> QED
  BY <1>9 DEF r, s, m

-----------------------------------------------------------------------------
LEMMA InitInv == ASSUME ObjInit PROVE Inv
<1>1. lines = <<>> /\ line = 0 /\ obj_pc = "idle" /\ Len(lines) = 0
  BY DEF ObjInit
<1>2. Text(lines)
  BY <1>1 DEF Text
<1>3. Tallied(0)
  BY NoLines, ObjAssumption DEF ObjInit, Tallied
<1> QED
  BY <1>1, <1>2, <1>3 DEF ObjInit, Inv, TypesOK

LEMMA CallInv ==
  ASSUME Inv, NEW txt \in Texts, obj_load(txt)
  PROVE  Inv'
<1>1. /\ obj_pc = "idle" /\ obj_pc' = "tally" /\ lines' = txt /\ line' = 0
      /\ idx_count' = idx_count /\ vert_count' = vert_count /\ ipos' = 0 /\ vpos' = 0
  BY DEF obj_load, Inv
<1>2. Text(txt)
  BY DEF Texts, Text
<1>3. Faces(0)' = {} /\ Points(0)' = {} /\ Faces(0) = {} /\ Points(0) = {}
  BY DEF Faces, Points
<1>4. Tallied(0)'
  BY <1>1, <1>3 DEF Inv, Tallied
<1> QED
  BY <1>1, <1>2, <1>4 DEF Inv, TypesOK, Text

LEMMA TallyInv ==
  ASSUME Inv, Tally
  PROVE  Inv'
<1>1. /\ obj_pc = "tally" /\ ~PassEnds /\ obj_pc' = obj_pc /\ lines' = lines /\ line' = line + 1
      /\ ipos' = ipos /\ vpos' = vpos
  BY DEF Tally
<1>2. /\ line \in Nat /\ line + 1 \in 0 .. Len(lines) /\ lines[line + 1].newline
      /\ \A i \in 1 .. line + 1 : lines[i].newline
  BY <1>1, LineStep DEF Inv
<1> DEFINE l == lines[line + 1]
           f == Cardinality(Faces(line))
           v == Cardinality(Points(line))
<1>3. f \in Nat /\ v \in Nat
  BY <1>2, Numbers
<1>4. /\ Cardinality(Faces(line + 1)) = f + IF IsFace(l) THEN 1 ELSE 0
      /\ Cardinality(Points(line + 1)) = v + IF IsVertex(l) THEN 1 ELSE 0
  BY <1>2, NextLine
<1>5. idx_count = (3 * f) % Counts /\ vert_count = v % Counts
  BY <1>1 DEF Inv, Tallied
<1>6. /\ idx_count' = IF IsFace(l) THEN (idx_count + 3) % Counts ELSE idx_count
      /\ vert_count' = IF IsVertex(l) THEN (vert_count + 1) % Counts ELSE vert_count
  BY DEF Tally
<1> HIDE DEF l, f, v
<1>7. idx_count' = (3 * Cardinality(Faces(line + 1))) % Counts
  <2>1. (((3 * f) % Counts) + 3) % Counts = ((3 * f) + 3) % Counts
    BY <1>3, Reduced
  <2> QED
    BY <1>3, <1>4, <1>5, <1>6, <2>1
<1>8. vert_count' = Cardinality(Points(line + 1)) % Counts
  <2>1. ((v % Counts) + 1) % Counts = (v + 1) % Counts
    BY <1>3, Reduced
  <2> QED
    BY <1>3, <1>4, <1>5, <1>6, <2>1
<1>9. Faces(line)' = Faces(line + 1) /\ Points(line)' = Points(line + 1)
  BY <1>1 DEF Faces, Points
<1>10. Tallied(line)'
  BY <1>7, <1>8, <1>9 DEF Tallied
<1> QED
  BY <1>1, <1>2, <1>10 DEF Inv, TypesOK

LEMMA AllocInv ==
  ASSUME Inv, Alloc
  PROVE  Inv'
<1>1. /\ obj_pc = "tally" /\ PassEnds /\ lines' = lines /\ line' = 0
      /\ vert_count' = vert_count /\ idx_count' = idx_count /\ vpos' = 0 /\ ipos' = 0
      /\ vertices' \in {vert_count, -1} /\ indices' \in {idx_count, -1}
      /\ obj_pc' = IF -1 \in {vertices', indices'} THEN "return" ELSE "read"
  BY DEF Alloc, Inv
<1>2. Faces(line) = Faces(Len(lines)) /\ Points(line) = Points(Len(lines))
  BY <1>1, PassIsWhole DEF Inv
<1>3. Tallied(Len(lines))
  BY <1>1, <1>2 DEF Inv, Tallied
<1>4. Faces(Len(lines))' = Faces(Len(lines)) /\ Points(Len(lines))' = Points(Len(lines))
  BY <1>1 DEF Faces, Points
<1>5. Tallied(Len(lines))'
  BY <1>1, <1>3, <1>4 DEF Tallied
<1>6. Faces(line)' = Faces(0) /\ Points(line)' = Points(0)
  BY <1>1 DEF Faces, Points
<1>7. Stored(line)'
  BY <1>1, <1>6, NoLines DEF Stored
<1>8. TypesOK'
  BY <1>1 DEF Inv, TypesOK, Text
<1>9. obj_pc' = "read" => vertices' = vert_count' /\ indices' = idx_count'
  BY <1>1
<1> QED
  BY <1>1, <1>5, <1>7, <1>8, <1>9 DEF Inv

LEMMA ReadInv ==
  ASSUME Inv, Read
  PROVE  Inv'
<1>1. /\ obj_pc = "read" /\ ~PassEnds /\ obj_pc' = obj_pc /\ lines' = lines /\ line' = line + 1
      /\ UNCHANGED <<vert_count, idx_count, vertices, indices>>
  BY DEF Read
<1>2. /\ line \in Nat /\ line + 1 \in 0 .. Len(lines) /\ lines[line + 1].newline
      /\ \A i \in 1 .. line + 1 : lines[i].newline
  BY <1>1, LineStep DEF Inv
<1> DEFINE l == lines[line + 1]
           f == Cardinality(Faces(line))
           v == Cardinality(Points(line))
<1>3. f \in Nat /\ v \in Nat
  BY <1>2, Numbers
<1>4. /\ Cardinality(Faces(line + 1)) = f + IF IsFace(l) THEN 1 ELSE 0
      /\ Cardinality(Points(line + 1)) = v + IF IsVertex(l) THEN 1 ELSE 0
  BY <1>2, NextLine
<1>5. ipos = 3 * f /\ vpos = v
  BY <1>1 DEF Inv, Stored
<1>6. /\ ipos' = IF IsFace(l) THEN ipos + 3 ELSE ipos
      /\ vpos' = IF IsVertex(l) THEN vpos + 1 ELSE vpos
  BY DEF Read
<1> HIDE DEF l, f, v
<1>7. ipos' = 3 * Cardinality(Faces(line + 1)) /\ vpos' = Cardinality(Points(line + 1))
  BY <1>3, <1>4, <1>5, <1>6
<1>8. Faces(line)' = Faces(line + 1) /\ Points(line)' = Points(line + 1)
  BY <1>1 DEF Faces, Points
<1>9. Stored(line)'
  BY <1>7, <1>8 DEF Stored
<1>10. Faces(Len(lines))' = Faces(Len(lines)) /\ Points(Len(lines))' = Points(Len(lines))
  BY <1>1 DEF Faces, Points
<1>11. Tallied(Len(lines))'
  BY <1>1, <1>10 DEF Inv, Tallied
<1>12. TypesOK'
  BY <1>1, <1>2 DEF Inv, TypesOK, Text
<1> QED
  BY <1>1, <1>9, <1>11, <1>12 DEF Inv

LEMMA ReadEndsInv ==
  ASSUME Inv, ReadEnds
  PROVE  Inv'
<1>1. /\ obj_pc = "read" /\ PassEnds /\ obj_pc' = "return"
      /\ UNCHANGED <<lines, line, vert_count, idx_count, vertices, indices, vpos, ipos>>
  BY DEF ReadEnds
<1>2. Faces(line) = Faces(Len(lines)) /\ Points(line) = Points(Len(lines))
  BY <1>1, PassIsWhole DEF Inv
<1>3. Tallied(Len(lines)) /\ Stored(Len(lines)) /\ vertices = vert_count /\ indices = idx_count
  BY <1>1, <1>2 DEF Inv, Stored
<1>4. Faces(Len(lines))' = Faces(Len(lines)) /\ Points(Len(lines))' = Points(Len(lines))
  BY <1>1 DEF Faces, Points
<1>5. Tallied(Len(lines))' /\ Stored(Len(lines))'
  BY <1>1, <1>3, <1>4 DEF Tallied, Stored
<1>6. TypesOK'
  BY <1>1 DEF Inv, TypesOK, Text
<1> QED
  BY <1>1, <1>3, <1>5, <1>6 DEF Inv

LEMMA StutterInv ==
  ASSUME Inv, UNCHANGED objVars
  PROVE  Inv'
<1> USE DEF objVars
<1>1. TypesOK'
  BY DEF Inv, TypesOK, Text
<1>2. /\ Faces(line)' = Faces(line) /\ Points(line)' = Points(line)
      /\ Faces(Len(lines))' = Faces(Len(lines)) /\ Points(Len(lines))' = Points(Len(lines))
      /\ Faces(0)' = Faces(0) /\ Points(0)' = Points(0)
  BY DEF Faces, Points
<1> QED
  BY <1>1, <1>2 DEF Inv, Tallied, Stored

-----------------------------------------------------------------------------
(* The two passes of obj_load (gl/model.c:42) have the same lines behind   *)
(* them at the same place, for texts of any length.                        *)
THEOREM ObjInvariant == ObjSpec => []Inv
<1>1. ObjInit => Inv
  BY InitInv
<1>2. Inv /\ [ObjNext]_objVars => Inv'
  <2> SUFFICES ASSUME Inv, [ObjNext]_objVars PROVE Inv'
    OBVIOUS
  <2>1. ASSUME NEW txt \in Texts, obj_load(txt) PROVE Inv'
    BY <2>1, CallInv
  <2>2. CASE Tally
    BY <2>2, TallyInv
  <2>3. CASE Alloc
    BY <2>3, AllocInv
  <2>4. CASE Read
    BY <2>4, ReadInv
  <2>5. CASE ReadEnds
    BY <2>5, ReadEndsInv
  <2>6. CASE UNCHANGED objVars
    BY <2>6, StutterInv
  <2> QED
    BY <2>1, <2>2, <2>3, <2>4, <2>5, <2>6 DEF ObjNext, ObjStep
<1> QED
  BY <1>1, <1>2, PTL DEF ObjSpec

(* What the second pass stores of a part of the text is in a buffer that   *)
(* has room for the whole, unless the count of the whole has wrapped.      *)
LEMMA Fit ==
  ASSUME NEW part \in Nat, NEW whole \in Nat, part <= whole, part > whole % Counts
  PROVE  whole >= Counts
<1>1. Counts \in Nat /\ Counts > 0
  BY ObjAssumption
<1>2. whole < Counts => whole % Counts = whole
  BY <1>1
<1> QED
  BY <1>1, <1>2

(* obj_load stores what it counted and leaves no buffer, unless a text has *)
(* 2^16 vertices or 2^16 indices.                                          *)
THEOREM StoresInBounds == ObjSpec => []ObjInBounds
<1>1. Inv => ObjInBounds
  <2> SUFFICES ASSUME Inv PROVE ObjInBounds
    OBVIOUS
  <2> DEFINE n == Len(lines)
             faces == {i \in DOMAIN lines : lines[i].newline /\ IsFace(lines[i])}
             points == {i \in DOMAIN lines : lines[i].newline /\ lines[i].marks \in {{"v"}, {"f", "v"}}}
  <2>1. n \in Nat /\ line \in 0 .. n /\ DOMAIN lines = 1 .. n /\ lines \in Seq(Lines)
    BY DEF Inv, TypesOK, Text
  <2>2. faces = Faces(n)
    BY <2>1 DEF Faces
  <2>3. points = Points(n)
    <3>1. \A m \in Marks : m \in {{"v"}, {"f", "v"}} <=> "v" \in m /\ "#" \notin m
      BY DEF Marks
    <3>2. ASSUME NEW i \in 1 .. n PROVE lines[i].marks \in Marks
      <4>1. lines[i] \in Lines
        BY <2>1
      <4> QED
        BY <4>1 DEF Lines
    <3> QED
      BY <2>1, <3>1, <3>2 DEF Points, IsVertex
  <2> HIDE DEF faces, points
  <2> DEFINE F == Cardinality(faces)
             P == Cardinality(points)
  <2>4. F \in Nat /\ P \in Nat
    BY <2>1, <2>2, <2>3, Numbers
  <2>5. Cardinality(Faces(line)) <= F /\ Cardinality(Points(line)) <= P
    <3>1. Faces(line) \subseteq Faces(n) /\ Points(line) \subseteq Points(n)
      BY <2>1 DEF Faces, Points
    <3>2. Faces(n) \subseteq 1 .. n /\ Points(n) \subseteq 1 .. n
      BY DEF Faces, Points
    <3> QED
      BY <2>1, <2>2, <2>3, <3>1, <3>2, Subset
  <2>6. \/ ipos = 0 /\ vpos = 0
        \/ /\ indices = (3 * F) % Counts /\ vertices = P % Counts
           /\ ipos \in Nat /\ ipos <= 3 * F /\ vpos \in Nat /\ vpos <= P
    <3>1. CASE obj_pc = "read"
      <4>1. Cardinality(Faces(line)) \in Nat /\ Cardinality(Points(line)) \in Nat
        BY <2>1, Numbers
      <4> QED
        BY <2>2, <2>3, <2>4, <2>5, <3>1, <4>1 DEF Inv, Tallied, Stored
    <3>2. CASE obj_pc = "return"
      BY <2>2, <2>3, <2>4, <3>2 DEF Inv, Tallied, Stored
    <3>3. CASE obj_pc \in {"idle", "tally"}
      BY <3>3 DEF Inv
    <3> QED
      BY <3>1, <3>2, <3>3 DEF Inv, TypesOK
  <2>7. obj_pc = "return" =>
          /\ vpos \in {0, P} /\ ipos \in {0, 3 * F}
          /\ vert_count = P % Counts /\ idx_count = (3 * F) % Counts
    BY <2>2, <2>3 DEF Inv, Tallied, Stored
  <2> HIDE DEF F, P
  <2>8. vpos > 0 /\ vpos > vertices => P >= Counts
    BY <2>4, <2>6, Fit
  <2>9. ipos > 0 /\ ipos > indices => 3 * F >= Counts
    <3>1. 3 * F \in Nat
      BY <2>4
    <3> QED
      BY <2>6, <3>1, Fit
  <2> QED
    BY <2>7, <2>8, <2>9 DEF ObjInBounds, F, P, faces, points
<1> QED
  BY <1>1, ObjInvariant, PTL
=============================================================================
