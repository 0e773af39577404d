-------------------------------- MODULE Path --------------------------------
(***************************************************************************)
(* common/path.c: scans over a path with u16 positions, one character at a *)
(* step.  A position outside the memory of the path is a fault, after which *)
(* nothing is defined.                                                     *)
(***************************************************************************)
EXTENDS Integers, Sequences

CONSTANTS
  Chars,     (* The characters of paths: "/", "\\" and others.              *)
  MaxPath,   (* Bound: the characters of a path.                            *)
  SelfSize,  (* The bytes that get_self_path allocates.                     *)
  U16        (* 2^16.                                                       *)

ASSUME PathAssumption ==
  /\ {"/", "\\"} \subseteq Chars /\ "nul" \notin Chars
  /\ U16 \in Nat /\ SelfSize \in 3 .. U16 - 1
  /\ MaxPath \in Nat /\ MaxPath + 2 < U16

VARIABLES
  path_pc,   (* The function that runs, "idle" or "return".                 *)
  given,     (* The path that it was given.                                 *)
  asked,     (* The function that was called.                               *)
  start,     (* The position that its scan starts at.                       *)
  path,      (* [0 .. size - 1 -> its memory]                               *)
  pos,
  result     (* What it returns, when that is not the path itself.          *)

pathVars == <<path_pc, given, asked, start, path, pos, result>>

Slashes == {"/", "\\"}

strlen(p) == CHOOSE n \in DOMAIN p : p[n] = "nul" /\ \A i \in 0 .. n - 1 : p[i] # "nul"

(* The string s in a memory of n bytes that is zero behind it.             *)
InMemory(s, n) == [i \in 0 .. n - 1 |-> IF i < Len(s) THEN s[i + 1] ELSE "nul"]

StringOf(p) == [i \in 1 .. strlen(p) |-> p[i - 1]]

PathInit ==
  /\ path_pc = "idle" /\ given = <<>> /\ asked = "none"
  /\ path = InMemory(<<>>, 1) /\ pos = 0 /\ start = 0 /\ result = FALSE

(* f is called with s in a buffer of size bytes, and scans from `from`.    *)
CallPath(f, s, size, from) ==
  /\ path_pc = "idle"
  /\ path_pc' = f /\ asked' = f
  /\ given' = s
  /\ path' = InMemory(s, size)
  /\ pos' = from /\ start' = from
  /\ result' = FALSE

path_fix_backslashes(s) == CallPath("fix_backslashes", s, Len(s) + 1, (Len(s) - 1) % U16)
path_fix_forward_slashes(s) == CallPath("fix_forward_slashes", s, Len(s) + 1, (Len(s) - 1) % U16)

Fault == path_pc' = "fault" /\ UNCHANGED <<path, pos, result>>

(* Mutant: the last character is not looked at. *)
FixedTo(from, to, p) == [path EXCEPT ![p - 1] = IF @ = from THEN to ELSE @]

Fixed(from, to, p) == [path EXCEPT ![p] = IF @ = from THEN to ELSE @]

FixStep ==
  /\ path_pc \in {"fix_backslashes", "fix_forward_slashes"}
  /\ IF pos = 0 THEN path_pc' = "return" /\ UNCHANGED <<path, pos, result>>
     ELSE IF pos \notin DOMAIN path THEN Fault
     ELSE /\ path' = IF path_pc = "fix_backslashes" THEN Fixed("\\", "/", pos)
                                                    ELSE Fixed("/", "\\", pos)
          /\ pos' = pos - 1
          /\ UNCHANGED <<path_pc, result>>
  /\ UNCHANGED <<given, asked, start>>

(* The position is an s64 here.                                            *)
path_has_slashes(s) == CallPath("has_slashes", s, Len(s) + 1, Len(s) - 1)

HasSlashesStep ==
  /\ path_pc = "has_slashes"
  /\ IF pos < 0 \/ path[pos] \in Slashes
       THEN path_pc' = "return" /\ result' = (pos >= 0) /\ UNCHANGED pos
       ELSE pos' = pos - 1 /\ UNCHANGED <<path_pc, result>>
  /\ UNCHANGED <<given, asked, start, path>>

(* path_truncate(s, n), with its length or one more for n: path.h.         *)
path_truncate(s, n) == CallPath("cut_last", s, Len(s) + 1, n)

(* The last character goes, whatever it is.                                *)
CutLast ==
  LET last == (pos - 1) % U16 IN
    /\ path_pc \in {"cut_last", "self_cut_last"}
    /\ IF last \notin DOMAIN path THEN Fault
       ELSE /\ path' = [path EXCEPT ![last] = "nul"]
            /\ pos' = last
            /\ path_pc' = IF path_pc = "cut_last" THEN "truncate" ELSE "self_truncate"
            /\ UNCHANGED result
    /\ UNCHANGED <<given, asked, start>>

(* Characters go up to the first slash; pos >= 0 holds for every u16.      *)
TruncateStep ==
  /\ path_pc \in {"truncate", "self_truncate"}
  /\ IF pos \notin DOMAIN path THEN Fault
     ELSE IF path[pos] \in Slashes
       THEN /\ path_pc' = IF path_pc = "truncate" THEN "return" ELSE "self_slash"
            /\ UNCHANGED <<path, pos, result>>
       ELSE /\ path' = [path EXCEPT ![pos] = "nul"]
            /\ pos' = (pos - 1) % U16
            /\ UNCHANGED <<path_pc, result>>
  /\ UNCHANGED <<given, asked, start>>

path_get_filename(s) == CallPath("get_filename", s, Len(s) + 1, Len(s))

GetFilenameStep ==
  /\ path_pc = "get_filename"
  /\ IF pos \notin DOMAIN path THEN Fault
     ELSE IF path[pos] \in Slashes
       THEN /\ path_pc' = "return"
            /\ result' = SubSeq(given, pos + 2, Len(given))
            /\ UNCHANGED <<path, pos>>
       ELSE pos' = (pos - 1) % U16 /\ UNCHANGED <<path_pc, path, result>>
  /\ UNCHANGED <<given, asked, start>>

-----------------------------------------------------------------------------
(* get_self_path: the kernel's link to the program, when there is one, is  *)
(* read into a buffer that keeps a byte for the NUL and cuts what is longer. *)
SelfFromLink(s) ==
  /\ path_pc = "idle"
  /\ path_pc' = "self_cut_last" /\ asked' = "get_self_path"
  /\ given' = s
  /\ path' = InMemory(SubSeq(s, 1, IF Len(s) < SelfSize THEN Len(s) ELSE SelfSize - 1), SelfSize)
  /\ pos' = IF Len(s) < SelfSize THEN Len(s) ELSE SelfSize - 1
  /\ start' = pos'
  /\ result' = FALSE

(* Otherwise argv[0], if it names a file and has a slash, is copied to a   *)
(* buffer that is as long as itself when it would not fit.                 *)
SelfFromArgv(s) ==
  /\ \E i \in DOMAIN s : s[i] \in Slashes
  /\ path_pc = "idle"
  /\ path_pc' = "self_cut_last" /\ asked' = "get_self_path"
  /\ given' = s
  /\ path' = InMemory(s, IF Len(s) > SelfSize THEN Len(s) ELSE SelfSize)
  /\ pos' = Len(s) % U16 /\ start' = pos'
  /\ result' = FALSE

(* No link that can be read, no file or no slash: the empty string.        *)
SelfUnknown ==
  /\ path_pc = "idle"
  /\ path_pc' = "return" /\ asked' = "no_self_path"
  /\ given' = <<>> /\ path' = InMemory(<<>>, SelfSize)
  /\ UNCHANGED <<start, pos, result>>

(* The slash that path_truncate left goes too.                             *)
SelfSlash ==
  /\ path_pc = "self_slash"
  /\ path_pc' = "return"
  /\ path' = [path EXCEPT ![strlen(path) - 1] = "nul"]
  /\ UNCHANGED <<given, asked, start, pos, result>>

PathStep ==
  \/ FixStep
  \/ HasSlashesStep
  \/ CutLast
  \/ TruncateStep
  \/ GetFilenameStep
  \/ SelfSlash

Strings == UNION {[1 .. n -> Chars] : n \in 0 .. MaxPath}

(* What names a program: it is not empty and does not end with a slash.    *)
Programs == {s \in Strings : s # <<>> /\ s[Len(s)] \notin Slashes}

PathNext ==
  \/ \E s \in Strings :
       \/ path_fix_backslashes(s)
       \/ path_fix_forward_slashes(s)
       \/ path_has_slashes(s)
       \/ \E n \in {Len(s), Len(s) + 1} : path_truncate(s, n)
       \/ path_get_filename(s)
  \/ \E s \in Programs : (s[1] = "/" /\ SelfFromLink(s)) \/ SelfFromArgv(s)
  \/ SelfUnknown
  \/ PathStep

PathSpec == PathInit /\ [][PathNext]_pathVars /\ WF_pathVars(PathStep)

-----------------------------------------------------------------------------
(* The positions of slashes in s, counted from 1.                          *)
SlashesOf(s) == {i \in DOMAIN s : s[i] \in Slashes}

(* The last slash of s up to position n, 0 if there is none.               *)
LastSlash(s, n) ==
  LET before == {i \in SlashesOf(s) : i <= n}
  IN  IF before = {} THEN 0 ELSE CHOOSE i \in before : \A j \in before : j <= i

(* There is nothing to fix, or no slash where the scan could stop.         *)
NowhereToStop ==
  CASE asked \in {"fix_backslashes", "fix_forward_slashes"} -> given = <<>>
    [] asked = "cut_last" -> LastSlash(given, start - 1) = 0
    [] asked = "get_filename" -> SlashesOf(given) = {}
    [] OTHER -> FALSE

(* What path.h says: every slash of the one kind is replaced, the last     *)
(* name is truncated, and get_self_path finds the parent directory.        *)
AllReplaced(s, from, to) == [i \in DOMAIN s |-> IF s[i] = from THEN to ELSE s[i]]
NameTruncated(s) == SubSeq(s, 1, LastSlash(s, Len(s) - 1))
ParentDirectory(s) ==
  SubSeq(s, 1, IF LastSlash(s, Len(s)) = 1 THEN 1 ELSE LastSlash(s, Len(s)) - 1)

FixedRight(from, to) ==
  LET now == StringOf(path) IN
    /\ Len(now) = Len(given)
    /\ \A i \in DOMAIN given \ {1} : now[i] = AllReplaced(given, from, to)[i]
    /\ now = AllReplaced(given, from, to) <=> given[1] # from

TruncatedRight ==
  LET now == StringOf(path) IN
    /\ now = SubSeq(given, 1, LastSlash(given, start - 1))
    /\ \A i \in DOMAIN path : i >= Len(now) => path[i] = "nul"
    /\ now = NameTruncated(given) <=> ~(start > Len(given) /\ given[Len(given)] \in Slashes)

SelfPathRight ==
  LET now == StringOf(path)
      last == LastSlash(given, Len(given))
  IN  /\ now = SubSeq(given, 1, LastSlash(given, start - 1) - 1)
      /\ now = ParentDirectory(given) <=> 1 < last /\ last < start

(* A function leaves the memory of its path exactly when there is no slash *)
(* for it to stop at, where path.h promises zeros, or when the path to fix *)
(* is empty; get_self_path never does.  When they return: all the slashes  *)
(* of a kind are replaced exactly if the first character is not one;       *)
(* truncating leaves a directory above the path, its slash and zeros, and  *)
(* takes the last name off exactly if the scan does not start behind a     *)
(* slash; the file name is what follows the last slash; and get_self_path  *)
(* gives a directory above the program, which is the one it is in exactly  *)
(* if that is not the root and its slash was not cut off with the link.    *)
PathsRight ==
  /\ path_pc = "fault" => NowhereToStop
  /\ path_pc = "return" =>
       /\ ~NowhereToStop
       /\ CASE asked = "fix_backslashes" -> FixedRight("\\", "/")
            [] asked = "fix_forward_slashes" -> FixedRight("/", "\\")
            [] asked = "cut_last" -> TruncatedRight
            [] asked = "get_filename" ->
                 /\ SlashesOf(result) = {}
                 /\ SubSeq(given, 1, LastSlash(given, Len(given))) \o result = given
            [] asked = "has_slashes" -> result = (SlashesOf(given) # {})
            [] asked = "get_self_path" -> SelfPathRight
            [] OTHER -> TRUE

=============================================================================
