------------------------------ MODULE ObjModel ------------------------------
(***************************************************************************)
(* common/gl/model.c: obj_load, a line at a step.  The text ends with the  *)
(* NUL that file_load leaves behind a file (Terminated in File.tla).  Of a *)
(* line only the marks that the parser looks for are kept: a first         *)
(* character '#' or 'f', and "v " anywhere in it.                          *)
(***************************************************************************)
EXTENDS Integers, Sequences, FiniteSets

CONSTANTS
  MaxLines,   (* Bound: the lines of a text.                                *)
  Counts      (* 2^16: vert_count and idx_count are u16.                    *)

ASSUME ObjAssumption == Counts \in Nat \ {0} /\ MaxLines \in Nat

VARIABLES
  obj_pc,
  lines,       (* The lines of the text.                                    *)
  line,        (* How many lines of this pass are behind.                   *)
  vert_count, idx_count,
  vertices,    (* The vertices there is room for, or -1: no buffer.         *)
  indices,     (* The same for indices.                                     *)
  vpos, ipos   (* How many were stored.                                     *)

objVars == <<obj_pc, lines, line, vert_count, idx_count, vertices, indices, vpos, ipos>>

(* A line, with whether a newline ends it: only the last may have none.    *)
Marks == {{}, {"f"}, {"v"}, {"f", "v"}, {"#", "v"}}
Lines == [marks : Marks, newline : BOOLEAN]

Texts == {t \in UNION {[1 .. n -> Lines] : n \in 0 .. MaxLines} :
            \A i \in 1 .. Len(t) - 1 : t[i].newline}

ObjInit ==
  /\ obj_pc = "idle" /\ lines = <<>> /\ line = 0
  /\ vert_count = 0 /\ idx_count = 0
  /\ vertices = -1 /\ indices = -1 /\ vpos = 0 /\ ipos = 0

obj_load(txt) ==
  /\ obj_pc = "idle"
  /\ obj_pc' = "tally"
  /\ lines' = txt
  /\ UNCHANGED <<line, vert_count, idx_count, vertices, indices, vpos, ipos>>

(* Whether this pass is over: at the NUL, or at a line without a newline.  *)
PassEnds == IF line = Len(lines) THEN TRUE ELSE ~lines[line + 1].newline

IsFace(l) == "f" \in l.marks

(* Mutant: comments count, too. *)
AnyVertex(l) == "v" \in l.marks

(* "v " anywhere in a line that is no comment: a face can have it.         *)
IsVertex(l) == "v" \in l.marks /\ "#" \notin l.marks

(* The first pass counts.                                                  *)
Tally ==
  /\ obj_pc = "tally" /\ ~PassEnds
  /\ LET l == lines[line + 1] IN
       /\ idx_count' = IF IsFace(l) THEN (idx_count + 3) % Counts ELSE idx_count
       /\ vert_count' = IF IsVertex(l) THEN (vert_count + 1) % Counts ELSE vert_count
  /\ line' = line + 1
  /\ UNCHANGED <<obj_pc, lines, vertices, indices, vpos, ipos>>

(* Then both buffers are allocated; a failure of one ends the load, with   *)
(* the counts that were found.  A buffer of nothing may be NULL.           *)
Alloc ==
  /\ obj_pc = "tally" /\ PassEnds
  /\ vertices' \in {vert_count, -1} /\ indices' \in {idx_count, -1}
  /\ obj_pc' = IF -1 \in {vertices', indices'} THEN "return" ELSE "read"
  /\ line' = 0
  /\ UNCHANGED <<lines, vert_count, idx_count, vpos, ipos>>

(* The second pass stores, as far as there are lines.                      *)
Read ==
  /\ obj_pc = "read" /\ ~PassEnds
  /\ LET l == lines[line + 1] IN
       /\ ipos' = IF IsFace(l) THEN ipos + 3 ELSE ipos
       /\ vpos' = IF IsVertex(l) THEN vpos + 1 ELSE vpos
  /\ line' = line + 1
  /\ UNCHANGED <<obj_pc, lines, vert_count, idx_count, vertices, indices>>

ReadEnds ==
  /\ obj_pc = "read" /\ PassEnds
  /\ obj_pc' = "return"
  /\ UNCHANGED <<lines, line, vert_count, idx_count, vertices, indices, vpos, ipos>>

ObjStep == Tally \/ Alloc \/ Read \/ ReadEnds

ObjNext == (\E txt \in Texts : obj_load(txt)) \/ ObjStep

ObjSpec == ObjInit /\ [][ObjNext]_objVars /\ WF_objVars(ObjStep)

-----------------------------------------------------------------------------
(* The second pass stores exactly as much as the first one counted and     *)
(* leaves neither buffer, unless a text has 2^16 vertices or 2^16 indices; *)
(* then the buffer is too small, and nothing of the counts tells.          *)
ObjInBounds ==
  LET faces == {i \in DOMAIN lines : lines[i].newline /\ IsFace(lines[i])}
      points == {i \in DOMAIN lines : lines[i].newline /\ lines[i].marks \in {{"v"}, {"f", "v"}}}
  IN  /\ vpos > 0 /\ vpos > vertices => Cardinality(points) >= Counts
      /\ ipos > 0 /\ ipos > indices => 3 * Cardinality(faces) >= Counts
      /\ obj_pc = "return" =>
           /\ vpos \in {0, Cardinality(points)} /\ ipos \in {0, 3 * Cardinality(faces)}
           /\ vert_count = Cardinality(points) % Counts
           /\ idx_count = (3 * Cardinality(faces)) % Counts

=============================================================================
