---------------------------- MODULE HelpersProofs ---------------------------
(***************************************************************************)
(* Proofs about the arguments, the paths, the input state and UTF-8, for   *)
(* every command line, every path, every set of keys, buttons and gamepads *)
(* and every text.                                                         *)
(***************************************************************************)
EXTENDS Helpers, SequenceTheorems, FiniteSetTheorems, WellFoundedInduction, TLAPS

-----------------------------------------------------------------------------
(***************************************************************************)
(* Arguments.  The loop has done what the arguments that it looked at ask. *)
(***************************************************************************)
FlagsType ==
  [input_path : Paths \cup {NULL}, output_path : Paths \cup {NULL}, mode : Int, silent : {FALSE}]

ArgumentsInv ==
  /\ args_pc \in {"idle", "loop", "return"}
  /\ args_pc = "idle" => logging_enabled = TRUE
  /\ args_pc # "idle" =>
       /\ argv \in Seq(Paths \cup Options)
       /\ arg \in 0 .. Len(argv)
       /\ output \in FlagsType
       /\ AsAsked(arg)
  /\ args_pc = "return" => arg = Len(argv)

(* A flag of the caller that is on the command line has a first index.     *)
LEMMA ModeIsOf ==
  ASSUME NEW word, \E j \in DOMAIN args : args[j] = word
  PROVE  ModeOf(word) \in Nat /\ args[ModeOf(word)] = word
<1> DEFINE found == {j \in DOMAIN args : args[j] = word}
<1>1. found \subseteq Nat /\ found # {}
  BY ArgumentsAssumption
<1>2. PICK x \in found : \A y \in found : ~(<<y, x>> \in OpToRel(<, Nat))
  <2> HIDE DEF found
  <2> QED
    BY <1>1, NatLessThanWellFounded, WFMin, Zenon
<1>3. \A y \in found : ~(y < x)
  BY <1>1, <1>2 DEF OpToRel
<1>4. x \in DOMAIN args /\ args[x] = word /\ \A k \in 1 .. x - 1 : args[k] # word
  BY <1>3, ArgumentsAssumption
<1>5. ModeOf(word) \in DOMAIN args /\ args[ModeOf(word)] = word
  BY <1>4 DEF ModeOf
<1> QED
  BY <1>5, ArgumentsAssumption

LEMMA ArgumentsInitInv ==
  ASSUME ArgumentsInit
  PROVE  ArgumentsInv
BY DEF ArgumentsInit, ArgumentsInv

LEMMA ParseInv ==
  ASSUME ArgumentsInv, NEW n \in 0 .. MaxArgs, NEW words \in [1 .. n -> Paths \cup Options],
         parse_arguments(words)
  PROVE  ArgumentsInv'
<1>1. /\ args_pc' = "loop" /\ argv' = words /\ arg' = 0 /\ output' = NoFlags
      /\ logging_enabled' = TRUE
  BY DEF parse_arguments, ArgumentsInv
<1>2. argv' \in Seq(Paths \cup Options) /\ arg' \in 0 .. Len(argv')
  BY <1>1
<1>3. /\ output' \in FlagsType
      /\ output'.input_path = NULL /\ output'.output_path = NULL /\ output'.mode = 0
  BY <1>1 DEF NoFlags, FlagsType
<1>4. PathsAmong(arg)' = {} /\ FlagsAmong(arg)' = {}
  BY <1>1 DEF PathsAmong, FlagsAmong
<1>7. LastTwoOf(PathsAmong(arg))'
  BY <1>3, <1>4 DEF LastTwoOf
<1>5. logging_enabled' = \A i \in 1 .. arg' : argv'[i] # "--silent"
  <2>1. (\A i \in 1 .. arg' : argv'[i] # "--silent") = TRUE
    BY <1>1
  <2> QED
    BY <1>1, <2>1, Zenon
<1>6. AsAsked(arg)'
  BY <1>3, <1>4, <1>5, <1>7, Zenon DEF AsAsked
<1> QED
  BY <1>1, <1>2, <1>3, <1>6 DEF ArgumentsInv

(* A path that is found moves up the one before it, if there were two.     *)
LEMMA PushedIs ==
  ASSUME NEW o \in FlagsType, NEW p \in Paths
  PROVE  /\ Pushed(o, p) \in FlagsType
         /\ Pushed(o, p).mode = o.mode
         /\ o.input_path = NULL =>
              Pushed(o, p).input_path = p /\ Pushed(o, p).output_path = o.output_path
         /\ o.input_path # NULL => Pushed(o, p).output_path = p
         /\ o.input_path # NULL /\ o.output_path = NULL =>
              Pushed(o, p).input_path = o.input_path
         /\ o.input_path # NULL /\ o.output_path # NULL =>
              Pushed(o, p).input_path = o.output_path
<1> DEFINE i == IF o.output_path # NULL THEN o.output_path ELSE o.input_path
<1>1. /\ o.input_path \in Paths \cup {NULL} /\ o.output_path \in Paths \cup {NULL}
      /\ o.mode \in Int /\ o.silent = FALSE /\ i \in Paths \cup {NULL}
  BY DEF FlagsType
<1>2. CASE o.input_path = NULL
  <2>1. Pushed(o, p) = [o EXCEPT !.input_path = p]
    BY <1>2 DEF Pushed
  <2> QED
    BY <1>1, <1>2, <2>1 DEF FlagsType
<1>3. CASE o.input_path # NULL
  <2>1. Pushed(o, p) = [o EXCEPT !.input_path = i, !.output_path = p]
    BY <1>3 DEF Pushed
  <2> HIDE DEF i
  <2>2. /\ Pushed(o, p) \in FlagsType /\ Pushed(o, p).mode = o.mode
        /\ Pushed(o, p).input_path = i /\ Pushed(o, p).output_path = p
    BY <1>1, <2>1 DEF FlagsType
  <2> QED
    BY <1>3, <2>2 DEF i
<1> QED
  BY <1>2, <1>3

(* The next argument, whatever it is.                                      *)
LEMMA WordInv ==
  ASSUME ArgumentsInv, ArgumentsStep, arg # Len(argv)
  PROVE  ArgumentsInv'
<1> DEFINE n == arg + 1
           word == argv[arg + 1]
<1>1. /\ args_pc = "loop" /\ args_pc' = "loop" /\ argv' = argv
      /\ arg' = n /\ argv \in Seq(Paths \cup Options) /\ n \in 1 .. Len(argv)
      /\ arg \in Nat /\ Len(argv) \in Nat
      /\ output \in FlagsType
      /\ AsAsked(arg)
  BY DEF ArgumentsInv, ArgumentsStep, Onward
<1>2. /\ output' = (IF word \in Paths THEN Pushed(output, word)
                   ELSE IF word # "--silent" /\ \E j \in DOMAIN args : args[j] = word
                          THEN [output EXCEPT !.mode = ModeOf(word) - 1]
                          ELSE output)
      /\ logging_enabled' = (logging_enabled /\ word # "--silent")
  BY <1>1 DEF ArgumentsStep
<1>3. word \in Paths \cup Options /\ "--silent" \notin Paths
  BY <1>1, ArgumentsAssumption
<1>4. /\ PathsAmong(n) = PathsAmong(arg) \cup (IF word \in Paths THEN {n} ELSE {})
      /\ FlagsAmong(n) = FlagsAmong(arg) \cup
           (IF word # "--silent" /\ \E j \in DOMAIN args : args[j] = word THEN {n} ELSE {})
      /\ \A i \in PathsAmong(arg) : i < n /\ argv[i] \in Paths /\ i \in Nat
      /\ \A i \in FlagsAmong(arg) : i < n /\ i \in Nat
  BY <1>1 DEF PathsAmong, FlagsAmong
<1>5. PathsAmong(arg)' = PathsAmong(n) /\ FlagsAmong(arg)' = FlagsAmong(n)
  BY <1>1 DEF PathsAmong, FlagsAmong
<1>6. word \in Paths => FlagsAmong(n) = FlagsAmong(arg)
  <2>1. \A j \in DOMAIN args : args[j] \in Options
    BY ArgumentsAssumption
  <2> QED
    BY <1>4, <2>1, ArgumentsAssumption
<1>7. output' \in FlagsType
  <2>1. CASE word \in Paths
    BY <1>1, <1>2, <2>1, PushedIs
  <2>2. CASE word \notin Paths /\ word # "--silent" /\ \E j \in DOMAIN args : args[j] = word
    <3>1. ModeOf(word) - 1 \in Int
      BY <2>2, ModeIsOf
    <3> QED
      BY <1>1, <1>2, <2>2, <3>1 DEF FlagsType
  <2>3. CASE word \notin Paths /\ ~(word # "--silent" /\ \E j \in DOMAIN args : args[j] = word)
    BY <1>1, <1>2, <2>3
  <2> QED
    BY <2>1, <2>2, <2>3
<1>8. \/ /\ PathsAmong(n) = {}
         /\ output'.input_path = NULL /\ output'.output_path = NULL
      \/ \E i \in PathsAmong(n) :
           /\ PathsAmong(n) = {i}
           /\ output'.input_path = argv[i] /\ output'.output_path = NULL
      \/ \E i, j \in PathsAmong(n) :
           /\ i < j /\ \A k \in PathsAmong(n) : k <= i \/ k = j
           /\ output'.input_path = argv[i] /\ output'.output_path = argv[j]
  <2> DEFINE before == PathsAmong(arg)
             now == PathsAmong(n)
  <2>1. \/ /\ before = {}
           /\ output.input_path = NULL /\ output.output_path = NULL
        \/ \E i \in before :
             /\ before = {i}
             /\ output.input_path = argv[i] /\ output.output_path = NULL
        \/ \E i, j \in before :
             /\ i < j /\ \A k \in before : k <= i \/ k = j
             /\ output.input_path = argv[i] /\ output.output_path = argv[j]
    BY <1>1, Zenon DEF AsAsked, LastTwoOf
  <2>2. NULL \notin Paths
    BY ArgumentsAssumption
  <2>3. CASE word \notin Paths
    <3>1. output'.input_path = output.input_path /\ output'.output_path = output.output_path
      BY <1>1, <1>2, <2>3 DEF FlagsType
    <3>2. now = before
      BY <1>4, <2>3
    <3> QED
      BY <2>1, <3>1, <3>2, Zenon
  <2>4. CASE word \in Paths
    <3>1. output' = Pushed(output, word)
      BY <1>2, <2>4
    <3>2. /\ output.input_path = NULL =>
               output'.input_path = word /\ output'.output_path = output.output_path
          /\ output.input_path # NULL => output'.output_path = word
          /\ output.input_path # NULL /\ output.output_path = NULL =>
               output'.input_path = output.input_path
          /\ output.input_path # NULL /\ output.output_path # NULL =>
               output'.input_path = output.output_path
      BY <1>1, <2>4, <3>1, PushedIs, Zenon
    <3>3. now = before \cup {n} /\ n \in now /\ argv[n] = word
      BY <1>4, <2>4
    <3>4. \A i \in before : i < n /\ argv[i] # NULL /\ i \in Nat /\ i \in now
      BY <1>4, <2>2, <3>3
    <3> HIDE DEF before, now
    <3>5. CASE before = {} /\ output.input_path = NULL /\ output.output_path = NULL
      <4>1. now = {n} /\ output'.input_path = argv[n] /\ output'.output_path = NULL
        BY <3>2, <3>3, <3>5
      <4> QED
        BY <3>3, <4>1 DEF now
    <3>6. ASSUME NEW i \in before, before = {i},
                 output.input_path = argv[i], output.output_path = NULL
          PROVE  \E a, b \in now :
                   /\ a < b /\ \A k \in now : k <= a \/ k = b
                   /\ output'.input_path = argv[a] /\ output'.output_path = argv[b]
      <4>1. output'.input_path = argv[i] /\ output'.output_path = argv[n]
        BY <3>2, <3>3, <3>4, <3>6
      <4>2. i < n /\ \A k \in now : k <= i \/ k = n
        BY <3>3, <3>4, <3>6
      <4> QED
        BY <3>3, <3>4, <4>1, <4>2
    <3>7. ASSUME NEW i \in before, NEW j \in before,
                 i < j, \A k \in before : k <= i \/ k = j,
                 output.input_path = argv[i], output.output_path = argv[j]
          PROVE  \E a, b \in now :
                   /\ a < b /\ \A k \in now : k <= a \/ k = b
                   /\ output'.input_path = argv[a] /\ output'.output_path = argv[b]
      <4>1. output'.input_path = argv[j] /\ output'.output_path = argv[n]
        BY <3>2, <3>3, <3>4, <3>7
      <4>2. j < n /\ \A k \in now : k <= j \/ k = n
        BY <3>3, <3>4, <3>7
      <4> QED
        BY <3>3, <3>4, <4>1, <4>2
    <3> QED
      BY <2>1, <3>5, <3>6, <3>7 DEF now
  <2> QED
    BY <2>3, <2>4
<1>9. \/ FlagsAmong(n) = {} /\ output'.mode = 0
      \/ \E i \in FlagsAmong(n) :
           (\A k \in FlagsAmong(n) : k <= i) /\ args[output'.mode + 1] = argv[i]
  <2>1. \/ FlagsAmong(arg) = {} /\ output.mode = 0
        \/ \E i \in FlagsAmong(arg) :
             (\A k \in FlagsAmong(arg) : k <= i) /\ args[output.mode + 1] = argv[i]
    BY <1>1, Zenon DEF AsAsked
  <2>2. CASE word \notin Paths /\ word # "--silent" /\ \E j \in DOMAIN args : args[j] = word
    <3>1. ModeOf(word) \in Nat /\ args[ModeOf(word)] = word
      BY <2>2, ModeIsOf
    <3>2. output'.mode = ModeOf(word) - 1
      BY <1>1, <1>2, <2>2 DEF FlagsType
    <3>3. output'.mode + 1 = ModeOf(word)
      BY <3>1, <3>2
    <3>4. n \in FlagsAmong(n) /\ \A k \in FlagsAmong(n) : k <= n
      BY <1>1, <1>4, <2>2
    <3> QED
      BY <3>1, <3>3, <3>4
  <2>3. CASE ~(word \notin Paths /\ word # "--silent" /\ \E j \in DOMAIN args : args[j] = word)
    <3>1. output'.mode = output.mode
      BY <1>1, <1>2, <2>3, PushedIs
    <3>2. FlagsAmong(n) = FlagsAmong(arg)
      BY <1>4, <1>6, <2>3
    <3> QED
      BY <2>1, <3>1, <3>2, Zenon
  <2> QED
    BY <2>2, <2>3
<1>10. logging_enabled' = \A i \in 1 .. n : argv[i] # "--silent"
  <2>1. logging_enabled = \A i \in 1 .. arg : argv[i] # "--silent"
    BY <1>1, Zenon DEF AsAsked
  <2>2. (\A i \in 1 .. n : argv[i] # "--silent")
          = ((\A i \in 1 .. arg : argv[i] # "--silent") /\ word # "--silent")
    <3>1. 1 .. n = (1 .. arg) \cup {n}
      BY <1>1
    <3> HIDE DEF n
    <3> QED
      BY <3>1 DEF n
  <2> QED
    BY <1>2, <2>1, <2>2, Zenon
<1>11. AsAsked(arg)'
  <2> HIDE DEF n
  <2>1. logging_enabled' = \A i \in 1 .. arg' : argv'[i] # "--silent"
    BY <1>1, <1>10, Zenon
  <2>2. \/ FlagsAmong(arg)' = {} /\ output'.mode = 0
        \/ \E i \in FlagsAmong(arg)' :
             (\A k \in FlagsAmong(arg)' : k <= i) /\ args[output'.mode + 1] = argv'[i]
    BY <1>1, <1>5, <1>9, Zenon
  <2>3. \/ /\ PathsAmong(arg)' = {}
           /\ output'.input_path = NULL /\ output'.output_path = NULL
        \/ \E i \in PathsAmong(arg)' :
             /\ PathsAmong(arg)' = {i}
             /\ output'.input_path = argv'[i] /\ output'.output_path = NULL
        \/ \E i, j \in PathsAmong(arg)' :
             /\ i < j /\ \A k \in PathsAmong(arg)' : k <= i \/ k = j
             /\ output'.input_path = argv'[i] /\ output'.output_path = argv'[j]
    BY <1>1, <1>5, <1>8, Zenon
  <2> QED
    BY <2>1, <2>2, <2>3, Zenon DEF AsAsked, LastTwoOf
<1>12. arg' \in 0 .. Len(argv') /\ argv' \in Seq(Paths \cup Options)
  BY <1>1
<1> QED
  BY <1>1, <1>7, <1>11, <1>12 DEF ArgumentsInv

LEMMA ArgumentsNextInv ==
  ASSUME ArgumentsInv, [ArgumentsNext]_argumentsVars
  PROVE  ArgumentsInv'
<1>1. ASSUME NEW n \in 0 .. MaxArgs, NEW words \in [1 .. n -> Paths \cup Options],
             parse_arguments(words)
      PROVE  ArgumentsInv'
  BY <1>1, ParseInv
<1>2. CASE ArgumentsStep /\ arg # Len(argv)
  BY <1>2, WordInv
<1>3. CASE ArgumentsStep /\ arg = Len(argv)
  <2>1. /\ args_pc = "loop" /\ args_pc' = "return"
        /\ UNCHANGED <<argv, arg, output, logging_enabled>>
    BY <1>3 DEF ArgumentsStep
  <2>2. AsAsked(arg)'
    BY <2>1 DEF ArgumentsInv, AsAsked, LastTwoOf, PathsAmong, FlagsAmong
  <2> QED
    BY <1>3, <2>1, <2>2 DEF ArgumentsInv
<1>4. CASE UNCHANGED argumentsVars
  BY <1>4 DEF argumentsVars, ArgumentsInv, AsAsked, LastTwoOf, PathsAmong, FlagsAmong
<1> QED
  BY <1>1, <1>2, <1>3, <1>4 DEF ArgumentsNext

LEMMA ArgumentsInvLastTwo ==
  ASSUME ArgumentsInv
  PROVE  LastTwo
<1> SUFFICES ASSUME args_pc = "return" PROVE LastTwo
  BY DEF LastTwo
<1> DEFINE n == Len(argv)
           P == PathsAmong(n)
           D == DocumentedPaths
           Silent == \E i \in DOMAIN argv : argv[i] = "--silent"
           Before == \A i \in D \ P : \E j, k \in P : i < j /\ j < k
<1>1. /\ argv \in Seq(Paths \cup Options) /\ n \in Nat /\ DOMAIN argv = 1 .. n
      /\ output \in FlagsType /\ AsAsked(n)
  BY DEF ArgumentsInv
<1>2. LastTwoOf(P) /\ output.silent = FALSE
  <2>1. LastTwoOf(P)
    BY <1>1, Zenon DEF AsAsked
  <2> QED
    BY <2>1, <1>1 DEF FlagsType
<1>3. P \subseteq D /\ D \subseteq Nat
  <2>1. \A j \in DOMAIN args : args[j] \in Options
    BY ArgumentsAssumption
  <2> QED
    BY <1>1, <2>1, ArgumentsAssumption DEF PathsAmong, DocumentedPaths
<1>4. /\ \A i \in D : argv[i] \in Paths => i \in P
      /\ \A i \in P : argv[i] \in Paths
      /\ \A i \in D : argv[i] # NULL
  BY <1>1, ArgumentsAssumption DEF PathsAmong, DocumentedPaths
<1>5. /\ output.input_path \in Paths \cup {NULL} /\ output.output_path \in Paths \cup {NULL}
      /\ NULL \notin Paths
  BY <1>1, ArgumentsAssumption DEF FlagsType
<1>6. ASSUME Before PROVE LastTwoOf(D)
  <2> HIDE DEF P, D
  <2>1. CASE P = {} /\ output.input_path = NULL /\ output.output_path = NULL
    <3>1. D = {}
      BY <1>3, <1>6, <2>1
    <3> QED
      BY <2>1, <3>1 DEF LastTwoOf
  <2>2. ASSUME NEW i \in P, P = {i}, output.input_path = argv[i], output.output_path = NULL
        PROVE  LastTwoOf(D)
    <3>1. ASSUME NEW k \in D PROVE k = i
      <4>1. CASE k \in P
        BY <2>2, <4>1
      <4>2. CASE k \notin P
        <5>1. PICK a \in P, b \in P : k < a /\ a < b
          BY <1>6, <4>2
        <5>2. a = i /\ b = i
          BY <2>2, <5>1
        <5>3. i \in Nat
          BY <1>3
        <5> QED
          BY <5>1, <5>2, <5>3
      <4> QED
        BY <4>1, <4>2
    <3>2. D = {i}
      BY <1>3, <2>2, <3>1
    <3> QED
      BY <2>2, <3>2 DEF LastTwoOf
  <2>3. ASSUME NEW i \in P, NEW j \in P, i < j, \A k \in P : k <= i \/ k = j,
               output.input_path = argv[i], output.output_path = argv[j]
        PROVE  LastTwoOf(D)
    <3>1. ASSUME NEW k \in D PROVE k <= i \/ k = j
      <4>1. CASE k \in P
        BY <2>3, <4>1
      <4>2. CASE k \notin P
        <5>1. PICK a \in P, b \in P : k < a /\ a < b
          BY <1>6, <4>2
        <5>2. a \in Nat /\ b \in Nat /\ i \in Nat /\ j \in Nat /\ k \in Nat
          BY <1>3
        <5> QED
          BY <2>3, <5>1, <5>2
      <4> QED
        BY <4>1, <4>2
    <3> QED
      BY <1>3, <2>3, <3>1 DEF LastTwoOf
  <2> QED
    BY <1>2, <2>1, <2>2, <2>3 DEF LastTwoOf
<1>7. ASSUME LastTwoOf(D) PROVE Before
  <2> HIDE DEF P, D
  <2>1. CASE D = {}
    BY <2>1
  <2>2. ASSUME NEW a \in D, D = {a}, output.input_path = argv[a] PROVE Before
    <3>1. a \in P
      BY <1>4, <1>5, <2>2
    <3> QED
      BY <2>2, <3>1
  <2>3. ASSUME NEW a \in D, NEW b \in D, a < b, \A k \in D : k <= a \/ k = b,
               output.input_path = argv[a], output.output_path = argv[b]
        PROVE  Before
    <3>1. a \in P /\ b \in P
      BY <1>4, <1>5, <2>3
    <3>2. ASSUME NEW i \in D \ P PROVE i < a /\ a < b
      <4>1. i # a /\ i # b /\ i \in Nat /\ a \in Nat
        BY <1>3, <3>1
      <4> QED
        BY <2>3, <4>1
    <3> QED
      BY <3>1, <3>2
  <2> QED
    BY <1>7, <2>1, <2>2, <2>3 DEF LastTwoOf
<1>8. AsDocumented <=> ~Silent /\ Before
  <2> HIDE DEF Before, Silent, D
  <2>1. AsDocumented <=> LastTwoOf(D) /\ (output.silent <=> Silent)
    BY Zenon DEF AsDocumented, D, Silent
  <2> QED
    BY <1>2, <1>6, <1>7, <2>1
<1>9. AsAsked(Len(argv))
  BY <1>1
<1> QED
  BY <1>8, <1>9, Zenon DEF LastTwo

(* After any command line the last two arguments without "--" are the      *)
(* input and the output, the mode is that of the caller's flag seen last,  *)
(* and logging is off exactly when "--silent" was there; and exactly which *)
(* command lines get what arguments.h says.                                *)
THEOREM LastTwoPaths == ArgumentsSpec => []LastTwo
<1>1. ArgumentsInit => ArgumentsInv
  BY ArgumentsInitInv
<1>2. ArgumentsInv /\ [ArgumentsNext]_argumentsVars => ArgumentsInv'
  BY ArgumentsNextInv
<1>3. ArgumentsInv => LastTwo
  BY ArgumentsInvLastTwo
<1> QED
  BY <1>1, <1>2, <1>3, PTL DEF ArgumentsSpec

-----------------------------------------------------------------------------
(* A property of a number that every number inherits from its predecessor. *)
LEMMA LeastOf ==
  ASSUME NEW bad \in SUBSET Nat, bad # {}
  PROVE  \E m \in bad : \A k \in bad : m <= k
<1>1. PICK m \in bad : \A y \in bad : ~(<<y, m>> \in OpToRel(<, Nat))
  BY NatLessThanWellFounded, WFMin, Zenon
<1>2. \A y \in bad : ~(y < m)
  BY <1>1 DEF OpToRel
<1> QED
  BY <1>2

(***************************************************************************)
(* Paths.  Every scan goes down from `start`: what it passed holds no      *)
(* slash, and the memory of the path is the given path up to a position    *)
(* that the phase of the scan tells, zero behind it.                       *)
(***************************************************************************)
Fixes == {"fix_backslashes", "fix_forward_slashes"}

(* The memory of a call is the first n characters of the given path.       *)
Kept(n) == \A i \in DOMAIN path : path[i] = IF i < n THEN given[i + 1] ELSE "nul"

(* No slash stands behind position p, up to n characters.                  *)
Passed(p, n) == \A j \in DOMAIN given : j > p + 1 /\ j <= n => given[j] \notin Slashes

(* A u16 position is that of a character, or it went below 0.              *)
Wrapped == pos = U16 - 1

Memory == DOMAIN path = 0 .. Len(given)

Repaired(c) == IF c \in Slashes THEN IF asked = "fix_backslashes" THEN "/" ELSE "\\" ELSE c

FixInv ==
  asked \in Fixes =>
    /\ path_pc \in {asked, "return", "fault"}
    /\ path_pc = "fault" => given = <<>>
    /\ path_pc # "fault" =>
         /\ Memory
         /\ IF given = <<>> THEN Wrapped /\ path_pc = asked ELSE pos \in 0 .. Len(given) - 1
         /\ \A i \in DOMAIN given :
              path[i - 1] = IF i - 1 > pos THEN Repaired(given[i]) ELSE given[i]
         /\ path[Len(given)] = "nul"
         /\ path_pc = "return" => pos = 0

HasSlashesInv ==
  asked = "has_slashes" =>
    /\ path_pc \in {asked, "return"}
    /\ path_pc = asked =>
         /\ Memory /\ Kept(Len(given))
         /\ pos \in -1 .. Len(given) - 1
         /\ Passed(pos, Len(given))
    /\ path_pc = "return" => result = (SlashesOf(given) # {})

FilenameInv ==
  asked = "get_filename" =>
    /\ path_pc \in {asked, "return", "fault"}
    /\ path_pc = asked =>
         /\ Memory /\ Kept(Len(given))
         /\ \/ pos \in 0 .. Len(given) /\ Passed(pos, Len(given))
            \/ Wrapped /\ SlashesOf(given) = {}
    /\ path_pc = "fault" => SlashesOf(given) = {}
    /\ path_pc = "return" => \E k \in SlashesOf(given) :
         Passed(k - 1, Len(given)) /\ result = SubSeq(given, k + 1, Len(given))

(* The first step of a truncation zeroes the character before `start`, the *)
(* others the one that they pass.                                          *)
Left(n) == IF n = start - 1 THEN n ELSE n + 1

TruncateInv ==
  asked \in {"cut_last", "get_self_path"} =>
    /\ path_pc \in IF asked = "cut_last"
                     THEN {"cut_last", "truncate", "return", "fault"}
                     ELSE {"self_cut_last", "self_truncate", "self_slash", "return"}
    /\ start \in 0 .. Len(given) + 1
    /\ asked = "get_self_path" =>
         \E k \in SlashesOf(given) : k <= start - 1
    /\ path_pc = "fault" => Passed(-1, start - 1)
    /\ path_pc # "fault" =>
         \E size \in 0 .. U16 - 1 : DOMAIN path = 0 .. size - 1 /\ start <= size
    /\ path_pc \in {"cut_last", "self_cut_last"} =>
         pos = start /\ Kept(IF start <= Len(given) THEN start ELSE Len(given))
    /\ path_pc \in {"truncate", "self_truncate"} =>
         \/ pos \in 0 .. start - 1 /\ Kept(Left(pos)) /\ Passed(pos, start - 1)
         \/ Wrapped /\ Passed(-1, start - 1)
    /\ path_pc = "self_slash" =>
         /\ pos + 1 \in SlashesOf(given) /\ pos + 1 <= start - 1
         /\ Kept(pos + 1) /\ Passed(pos, start - 1)
    /\ path_pc = "return" => \E k \in SlashesOf(given) :
         /\ k <= start - 1 /\ Passed(k - 1, start - 1)
         /\ Kept(IF asked = "cut_last" THEN k ELSE k - 1)

(* path_truncate is called with the length of the path or one more.        *)
StartInv == asked = "cut_last" => start \in {Len(given), Len(given) + 1}

PathInv ==
  /\ given \in Seq(Chars) /\ Len(given) <= MaxPath
  /\ asked \in Fixes \cup {"has_slashes", "get_filename", "cut_last", "get_self_path", "no_self_path", "none"}
  /\ asked = "none" => path_pc = "idle"
  /\ asked = "no_self_path" => path_pc = "return"
  /\ FixInv
  /\ HasSlashesInv
  /\ FilenameInv
  /\ TruncateInv

-----------------------------------------------------------------------------
LEMMA PathTypes ==
  /\ U16 \in Nat /\ U16 > 3 /\ SelfSize \in Nat /\ SelfSize >= 3 /\ SelfSize <= U16 - 1
  /\ MaxPath \in Nat /\ MaxPath + 2 < U16
  /\ Slashes \subseteq Chars /\ "nul" \notin Chars /\ "nul" \notin Slashes
BY PathAssumption DEF Slashes

(* The last slash up to n is the one behind which there is none.           *)
LEMMA LastSlashIs ==
  ASSUME NEW s \in Seq(Chars), NEW n \in Int, NEW k \in SlashesOf(s), k <= n,
         \A j \in DOMAIN s : j > k /\ j <= n => s[j] \notin Slashes
  PROVE  LastSlash(s, n) = k
<1> DEFINE before == {i \in SlashesOf(s) : i <= n}
<1>1. k \in before /\ before \subseteq Nat
  BY DEF SlashesOf
<1>2. \A j \in before : j <= k
  BY <1>1 DEF SlashesOf
<1>3. \A i \in before : (\A j \in before : j <= i) => i = k
  BY <1>1, <1>2
<1>4. (CHOOSE i \in before : \A j \in before : j <= i) = k
  <2> HIDE DEF before
  <2> QED
    BY <1>1, <1>2, <1>3
<1> QED
  BY <1>1, <1>4 DEF LastSlash

(* There is a last slash up to n where there is one.                       *)
LEMMA LastSlashBounds ==
  ASSUME NEW s \in Seq(Chars), NEW n \in Int
  PROVE  LET last == LastSlash(s, n) IN
           \/ last = 0 /\ \A j \in SlashesOf(s) : j > n
           \/ last \in SlashesOf(s) /\ last <= n /\ \A j \in SlashesOf(s) : j <= n => j <= last
<1> DEFINE before == {i \in SlashesOf(s) : i <= n}
           bounds == {m \in Nat : \A i \in before : i <= m}
<1>1. /\ before \subseteq 1 .. Len(s) /\ Len(s) \in Nat
      /\ \A j \in SlashesOf(s) : j \in Nat /\ (j <= n => j \in before)
  BY DEF SlashesOf
<1>2. CASE before = {}
  <2>1. LastSlash(s, n) = 0
    BY <1>2 DEF LastSlash
  <2> QED
    BY <1>1, <1>2, <2>1
<1>3. CASE before # {}
  <2>1. Len(s) \in bounds /\ bounds \in SUBSET Nat
    BY <1>1
  <2>2. PICK m \in bounds : \A k \in bounds : m <= k
    <3> HIDE DEF bounds
    <3> QED
      BY <2>1, LeastOf, Zenon
  <2>3. m \in before
    <3> SUFFICES ASSUME m \notin before
                 PROVE  FALSE
      OBVIOUS
    <3>1. m \in Nat /\ m > 0
      BY <1>1, <1>3, <2>2
    <3>2. m - 1 \in bounds
      BY <1>1, <2>2, <3>1
    <3> QED
      BY <2>2, <3>1, <3>2
  <2>4. \A i \in before : i <= m
    BY <2>2
  <2>5. LastSlash(s, n) = m
    <3>1. m \in SlashesOf(s) /\ m <= n /\ m \in Nat
      BY <1>1, <2>3
    <3>2. \A j \in DOMAIN s : j > m /\ j <= n => s[j] \notin Slashes
      <4>1. \A j \in DOMAIN s : s[j] \in Slashes /\ j <= n => j \in before
        BY DEF SlashesOf
      <4>2. \A j \in DOMAIN s : j \in Nat
        OBVIOUS
      <4> HIDE DEF before
      <4> QED
        BY <2>4, <3>1, <4>1, <4>2
    <3> QED
      BY <3>1, <3>2, LastSlashIs
  <2> HIDE DEF bounds
  <2> QED
    BY <1>1, <2>3, <2>4, <2>5
<1> QED
  BY <1>2, <1>3

(* The front of a path is as long as it says.                              *)
LEMMA FrontIs ==
  ASSUME NEW s \in Seq(Chars), NEW n \in 0 .. Len(s)
  PROVE  Len(SubSeq(s, 1, n)) = n
BY SubSeqProperties

LEMMA LastSlashNone ==
  ASSUME NEW s, NEW n, \A j \in DOMAIN s : j <= n => s[j] \notin Slashes
  PROVE  LastSlash(s, n) = 0
BY DEF LastSlash, SlashesOf

(* The string in a memory that holds n characters of the given path.       *)
LEMMA StringKept ==
  ASSUME given \in Seq(Chars), NEW n \in 0 .. Len(given), Kept(n),
         NEW size \in Nat, DOMAIN path = 0 .. size - 1, n < size
  PROVE  strlen(path) = n /\ StringOf(path) = SubSeq(given, 1, n)
<1>1. n \in DOMAIN path /\ path[n] = "nul"
  BY DEF Kept
<1>2. \A i \in 0 .. n - 1 : path[i] = given[i + 1] /\ path[i] # "nul"
  BY PathTypes DEF Kept
<1>3. \A m \in DOMAIN path : path[m] = "nul" /\ (\A i \in 0 .. m - 1 : path[i] # "nul") => m = n
  BY <1>1, <1>2
<1>4. strlen(path) = n
  BY <1>1, <1>2, <1>3 DEF strlen
<1>5. StringOf(path) = [i \in 1 .. n |-> given[i]]
  <2>1. \A i \in 1 .. n : path[i - 1] = given[i]
    <3> SUFFICES ASSUME NEW i \in 1 .. n
                 PROVE  path[i - 1] = given[i]
      OBVIOUS
    <3>1. i - 1 \in 0 .. n - 1 /\ (i - 1) + 1 = i
      OBVIOUS
    <3> QED
      BY <1>2, <3>1
  <2> QED
    BY <1>4, <2>1, Zenon DEF StringOf
<1>6. SubSeq(given, 1, n) = [i \in 1 .. n |-> given[i]]
  <2> DEFINE part == SubSeq(given, 1, n)
  <2>1. /\ part \in Seq(Chars) /\ Len(part) = n
        /\ \A i \in 1 .. n : part[i] = given[i]
    BY SubSeqProperties
  <2>2. part = [i \in 1 .. Len(part) |-> part[i]]
    BY <2>1
  <2> HIDE DEF part
  <2>3. part = [i \in 1 .. n |-> given[i]]
    BY <2>1, <2>2
  <2> QED
    BY <2>3 DEF part
<1> QED
  BY <1>4, <1>5, <1>6

(* What a call finds in the memory of its path.                            *)
LEMMA InMemoryIs ==
  ASSUME NEW s \in Seq(Chars), NEW size \in Nat
  PROVE  /\ DOMAIN InMemory(s, size) = 0 .. size - 1
         /\ \A i \in 0 .. size - 1 :
              InMemory(s, size)[i] = IF i < Len(s) THEN s[i + 1] ELSE "nul"
BY DEF InMemory

LEMMA StringsAre ==
  ASSUME NEW s \in Strings
  PROVE  s \in Seq(Chars) /\ Len(s) \in Nat /\ Len(s) <= MaxPath /\ Len(s) + 2 < U16
<1>1. PICK n \in 0 .. MaxPath : s \in [1 .. n -> Chars]
  BY DEF Strings
<1>2. s \in Seq(Chars) /\ Len(s) = n
  BY <1>1
<1> QED
  BY <1>1, <1>2, PathTypes

-----------------------------------------------------------------------------
(* The calls.                                                              *)
LEMMA FixCallInv ==
  ASSUME NEW s \in Strings, path_fix_backslashes(s) \/ path_fix_forward_slashes(s)
  PROVE  PathInv'
<1>1. s \in Seq(Chars) /\ Len(s) \in Nat /\ Len(s) <= MaxPath /\ Len(s) + 2 < U16
  BY StringsAre
<1>2. /\ asked' \in Fixes /\ path_pc' = asked' /\ given' = s
      /\ path' = InMemory(s, Len(s) + 1) /\ pos' = (Len(s) - 1) % U16
  BY DEF path_fix_backslashes, path_fix_forward_slashes, CallPath, Fixes
<1>3. /\ DOMAIN path' = 0 .. Len(s)
      /\ \A i \in 0 .. Len(s) : path'[i] = IF i < Len(s) THEN s[i + 1] ELSE "nul"
  <2>1. Len(s) + 1 \in Nat /\ (Len(s) + 1) - 1 = Len(s)
    BY <1>1
  <2> QED
    BY <1>1, <1>2, <2>1, InMemoryIs
<1>4. IF s = <<>> THEN pos' = U16 - 1 ELSE pos' = Len(s) - 1 /\ Len(s) > 0
  <2>1. s = <<>> <=> Len(s) = 0
    BY <1>1
  <2>2. (-1) % U16 = U16 - 1
    BY PathTypes
  <2>3. CASE s = <<>>
    <3>1. Len(s) - 1 = -1
      BY <2>1, <2>3
    <3> QED
      BY <1>2, <2>2, <2>3, <3>1
  <2>4. CASE s # <<>>
    <3>1. Len(s) - 1 \in 0 .. U16 - 1
      BY <1>1, <2>1, <2>4, PathTypes
    <3>2. (Len(s) - 1) % U16 = Len(s) - 1
      BY <3>1, PathTypes
    <3> QED
      BY <1>1, <1>2, <2>1, <2>4, <3>2
  <2> QED
    BY <2>3, <2>4
<1>5. FixInv'
  <2>1. path_pc' # "fault" /\ path_pc' # "return"
    BY <1>2 DEF Fixes
  <2>2. Memory'
    BY <1>2, <1>3 DEF Memory
  <2>3. IF given' = <<>> THEN Wrapped' ELSE pos' \in 0 .. Len(given') - 1
    BY <1>1, <1>2, <1>4 DEF Wrapped
  <2>4. \A i \in DOMAIN given' :
          path'[i - 1] = IF i - 1 > pos' THEN Repaired(given[i])' ELSE given'[i]
    BY <1>1, <1>2, <1>3, <1>4
  <2>5. path'[Len(given')] = "nul"
    BY <1>1, <1>2, <1>3
  <2> QED
    BY <1>2, <2>1, <2>2, <2>3, <2>4, <2>5 DEF FixInv
<1>6. HasSlashesInv' /\ FilenameInv' /\ TruncateInv'
  BY <1>2 DEF Fixes, HasSlashesInv, FilenameInv, TruncateInv
<1> QED
  BY <1>1, <1>2, <1>5, <1>6 DEF PathInv, Fixes

(* The memory of a call of another function that scans to the end.         *)
LEMMA CallKept ==
  ASSUME NEW f, NEW s \in Strings, NEW from, CallPath(f, s, Len(s) + 1, from)
  PROVE  /\ s \in Seq(Chars) /\ Len(s) \in Nat /\ Len(s) <= MaxPath /\ Len(s) + 2 < U16
         /\ asked' = f /\ path_pc' = f /\ given' = s /\ pos' = from /\ start' = from
         /\ Memory' /\ Kept(Len(given))'
<1>1. s \in Seq(Chars) /\ Len(s) \in Nat /\ Len(s) <= MaxPath /\ Len(s) + 2 < U16
  BY StringsAre
<1>2. /\ asked' = f /\ path_pc' = f /\ given' = s /\ pos' = from /\ start' = from
      /\ path' = InMemory(s, Len(s) + 1)
  BY DEF CallPath
<1>3. /\ DOMAIN path' = 0 .. Len(s)
      /\ \A i \in 0 .. Len(s) : path'[i] = IF i < Len(s) THEN s[i + 1] ELSE "nul"
  <2>1. Len(s) + 1 \in Nat /\ (Len(s) + 1) - 1 = Len(s)
    BY <1>1
  <2> QED
    BY <1>1, <1>2, <2>1, InMemoryIs
<1>4. Memory'
  BY <1>2, <1>3 DEF Memory
<1>5. Kept(Len(given))'
  BY <1>2, <1>3 DEF Kept
<1> QED
  BY <1>1, <1>2, <1>4, <1>5

LEMMA HasSlashesCallInv ==
  ASSUME NEW s \in Strings, path_has_slashes(s)
  PROVE  PathInv'
<1>1. /\ s \in Seq(Chars) /\ Len(s) \in Nat /\ Len(s) <= MaxPath
      /\ asked' = "has_slashes" /\ path_pc' = "has_slashes" /\ given' = s
      /\ pos' = Len(s) - 1 /\ Memory' /\ Kept(Len(given))'
  BY CallKept DEF path_has_slashes
<1>2. Passed(pos, Len(given))'
  BY <1>1 DEF Passed
<1>3. pos' \in -1 .. Len(given') - 1
  BY <1>1
<1>4. HasSlashesInv'
  BY <1>1, <1>2, <1>3 DEF HasSlashesInv
<1>5. FixInv' /\ FilenameInv' /\ TruncateInv'
  BY <1>1 DEF Fixes, FixInv, FilenameInv, TruncateInv
<1> QED
  BY <1>1, <1>4, <1>5 DEF PathInv

LEMMA FilenameCallInv ==
  ASSUME NEW s \in Strings, path_get_filename(s)
  PROVE  PathInv'
<1>1. /\ s \in Seq(Chars) /\ Len(s) \in Nat /\ Len(s) <= MaxPath
      /\ asked' = "get_filename" /\ path_pc' = "get_filename" /\ given' = s
      /\ pos' = Len(s) /\ Memory' /\ Kept(Len(given))'
  BY CallKept DEF path_get_filename
<1>2. Passed(pos, Len(given))'
  BY <1>1 DEF Passed
<1>3. pos' \in 0 .. Len(given')
  BY <1>1
<1>4. FilenameInv'
  BY <1>1, <1>2, <1>3 DEF FilenameInv
<1>5. FixInv' /\ HasSlashesInv' /\ TruncateInv'
  BY <1>1 DEF Fixes, FixInv, HasSlashesInv, TruncateInv
<1> QED
  BY <1>1, <1>4, <1>5 DEF PathInv

LEMMA TruncateCallInv ==
  ASSUME NEW s \in Strings, NEW n \in {Len(s), Len(s) + 1}, path_truncate(s, n)
  PROVE  PathInv'
<1>1. /\ s \in Seq(Chars) /\ Len(s) \in Nat /\ Len(s) <= MaxPath /\ Len(s) + 2 < U16
      /\ asked' = "cut_last" /\ path_pc' = "cut_last" /\ given' = s
      /\ pos' = n /\ start' = n /\ Memory' /\ Kept(Len(given))'
  BY CallKept DEF path_truncate
<1>2. \E size \in 0 .. U16 - 1 : DOMAIN path' = 0 .. size - 1 /\ start' <= size
  <2>1. Len(s) + 1 \in 0 .. U16 - 1 /\ (Len(s) + 1) - 1 = Len(s) /\ start' <= Len(s) + 1
    BY <1>1, PathTypes
  <2> QED
    BY <1>1, <2>1 DEF Memory
<1>3. Kept(IF start <= Len(given) THEN start ELSE Len(given))'
  <2>1. (IF start' <= Len(given') THEN start' ELSE Len(given')) = Len(given')
    BY <1>1
  <2> QED
    BY <1>1, <2>1
<1>4. start' \in 0 .. Len(given') + 1
  BY <1>1
<1>5. TruncateInv'
  BY <1>1, <1>2, <1>3, <1>4 DEF TruncateInv
<1>6. FixInv' /\ HasSlashesInv' /\ FilenameInv'
  BY <1>1 DEF Fixes, FixInv, HasSlashesInv, FilenameInv
<1> QED
  BY <1>1, <1>5, <1>6 DEF PathInv

LEMMA SelfUnknownInv ==
  ASSUME SelfUnknown
  PROVE  PathInv'
<1>1. asked' = "no_self_path" /\ path_pc' = "return" /\ given' = <<>>
  BY DEF SelfUnknown
<1>2. given' \in Seq(Chars) /\ Len(given') <= MaxPath
  BY <1>1, PathTypes
<1> QED
  BY <1>1, <1>2 DEF PathInv, Fixes, FixInv, HasSlashesInv, FilenameInv, TruncateInv


(* get_self_path: the first `start` characters of the path of the program  *)
(* lie in a larger memory, and a slash stands before the last of them.     *)
LEMMA SelfCallInv ==
  ASSUME NEW s \in Strings, NEW size \in Nat, NEW ended \in 1 .. Len(s),
         asked' = "get_self_path", path_pc' = "self_cut_last", given' = s,
         start' = ended, pos' = ended, ended <= size, size <= U16 - 1,
         DOMAIN path' = 0 .. size - 1,
         \A i \in 0 .. size - 1 : path'[i] = IF i < ended THEN s[i + 1] ELSE "nul",
         \E k \in SlashesOf(s) : k <= ended - 1
  PROVE  PathInv'
<1>1. s \in Seq(Chars) /\ Len(s) \in Nat /\ Len(s) <= MaxPath /\ Len(s) + 2 < U16
  BY StringsAre
<1>2. \E n \in 0 .. U16 - 1 : DOMAIN path' = 0 .. n - 1 /\ start' <= n
  <2>1. size \in 0 .. U16 - 1
    BY PathTypes
  <2> QED
    BY <2>1
<1>3. Kept(IF start <= Len(given) THEN start ELSE Len(given))'
  <2>1. (IF start' <= Len(given') THEN start' ELSE Len(given')) = ended
    BY <1>1
  <2> QED
    BY <2>1 DEF Kept
<1>4. start' \in 0 .. Len(given') + 1
  BY <1>1
<1>5. TruncateInv'
  BY <1>2, <1>3, <1>4 DEF TruncateInv
<1>6. FixInv' /\ HasSlashesInv' /\ FilenameInv'
  BY DEF Fixes, FixInv, HasSlashesInv, FilenameInv
<1> QED
  BY <1>1, <1>5, <1>6 DEF PathInv

LEMMA SelfFromLinkInv ==
  ASSUME NEW s \in Programs, s[1] = "/", SelfFromLink(s)
  PROVE  PathInv'
<1> DEFINE ended == IF Len(s) < SelfSize THEN Len(s) ELSE SelfSize - 1
<1>1. s \in Strings /\ s # <<>> /\ s[Len(s)] \notin Slashes
  BY DEF Programs
<1>2. s \in Seq(Chars) /\ Len(s) \in Nat /\ Len(s) <= MaxPath /\ Len(s) + 2 < U16
  BY <1>1, StringsAre
<1>3. Len(s) >= 2 /\ 1 \in SlashesOf(s)
  <2>1. Len(s) # 0 /\ DOMAIN s = 1 .. Len(s)
    BY <1>1, <1>2
  <2>2. "/" \in Slashes
    BY DEF Slashes
  <2>3. Len(s) # 1
    BY <1>1, <2>2
  <2> QED
    BY <1>2, <2>1, <2>2, <2>3 DEF SlashesOf
<1>4. ended \in 1 .. Len(s) /\ ended >= 2 /\ ended <= SelfSize - 1
  BY <1>2, <1>3, PathTypes
<1>5. /\ path_pc' = "self_cut_last" /\ asked' = "get_self_path" /\ given' = s
      /\ path' = InMemory(SubSeq(s, 1, ended), SelfSize)
      /\ pos' = ended /\ start' = ended
  BY DEF SelfFromLink
<1>6. /\ SubSeq(s, 1, ended) \in Seq(Chars) /\ Len(SubSeq(s, 1, ended)) = ended
      /\ \A i \in 1 .. ended : SubSeq(s, 1, ended)[i] = s[i]
  <2> HIDE DEF ended
  <2> QED
    BY <1>2, <1>4, SubSeqProperties
<1> HIDE DEF ended
<1>7. /\ DOMAIN path' = 0 .. SelfSize - 1
      /\ \A i \in 0 .. SelfSize - 1 : path'[i] = IF i < ended THEN s[i + 1] ELSE "nul"
  <2>1. /\ DOMAIN path' = 0 .. SelfSize - 1
        /\ \A i \in 0 .. SelfSize - 1 :
             path'[i] = IF i < ended THEN SubSeq(s, 1, ended)[i + 1] ELSE "nul"
    <3> DEFINE part == SubSeq(s, 1, ended)
    <3>1. part \in Seq(Chars) /\ Len(part) = ended /\ path' = InMemory(part, SelfSize)
      BY <1>5, <1>6, Zenon
    <3>2. SelfSize \in Nat
      BY PathTypes
    <3> HIDE DEF part
    <3>3. /\ DOMAIN InMemory(part, SelfSize) = 0 .. SelfSize - 1
          /\ \A i \in 0 .. SelfSize - 1 :
               InMemory(part, SelfSize)[i] = IF i < Len(part) THEN part[i + 1] ELSE "nul"
      BY <3>1, <3>2, InMemoryIs, Zenon
    <3> QED
      BY <3>1, <3>3, Zenon DEF part
  <2>2. \A i \in 0 .. SelfSize - 1 : i < ended => i + 1 \in 1 .. ended
    BY <1>4
  <2> QED
    BY <1>6, <2>1, <2>2
<1>8. \E k \in SlashesOf(s) : k <= ended - 1
  BY <1>3, <1>4
<1>9. SelfSize \in Nat /\ ended <= SelfSize /\ SelfSize <= U16 - 1
  BY <1>4, PathTypes
<1> QED
  BY <1>1, <1>4, <1>5, <1>7, <1>8, <1>9, SelfCallInv

LEMMA SelfFromArgvInv ==
  ASSUME NEW s \in Programs, SelfFromArgv(s)
  PROVE  PathInv'
<1> DEFINE size == IF Len(s) > SelfSize THEN Len(s) ELSE SelfSize
<1>1. s \in Strings /\ s # <<>> /\ s[Len(s)] \notin Slashes
  BY DEF Programs
<1>2. s \in Seq(Chars) /\ Len(s) \in Nat /\ Len(s) <= MaxPath /\ Len(s) + 2 < U16
  BY <1>1, StringsAre
<1>3. PICK k \in DOMAIN s : s[k] \in Slashes
  BY DEF SelfFromArgv
<1>4. k \in SlashesOf(s) /\ k <= Len(s) - 1 /\ Len(s) \in 1 .. Len(s)
  BY <1>1, <1>2, <1>3 DEF SlashesOf
<1>5. /\ path_pc' = "self_cut_last" /\ asked' = "get_self_path" /\ given' = s
      /\ path' = InMemory(s, size)
      /\ pos' = Len(s) % U16 /\ start' = pos'
  BY DEF SelfFromArgv
<1>6. Len(s) % U16 = Len(s)
  BY <1>2, PathTypes
<1>7. size \in Nat /\ Len(s) <= size /\ size <= U16 - 1
  BY <1>2, PathTypes
<1> HIDE DEF size
<1>8. /\ DOMAIN path' = 0 .. size - 1
      /\ \A i \in 0 .. size - 1 : path'[i] = IF i < Len(s) THEN s[i + 1] ELSE "nul"
  BY <1>2, <1>5, <1>7, InMemoryIs
<1>9. \E j \in SlashesOf(s) : j <= Len(s) - 1
  BY <1>4
<1> QED
  BY <1>1, <1>4, <1>5, <1>6, <1>7, <1>8, <1>9, SelfCallInv

-----------------------------------------------------------------------------
(* The steps of the scans.                                                 *)
LEMMA FixStepInv ==
  ASSUME PathInv, FixStep
  PROVE  PathInv'
<1>1. /\ asked \in Fixes /\ path_pc = asked /\ given \in Seq(Chars)
      /\ Len(given) \in Nat /\ Len(given) <= MaxPath
      /\ given' = given /\ asked' = asked
  BY DEF PathInv, FixStep, Fixes, FixInv, HasSlashesInv, FilenameInv, TruncateInv
<1>2. /\ Memory
      /\ IF given = <<>> THEN Wrapped ELSE pos \in 0 .. Len(given) - 1
      /\ \A i \in DOMAIN given :
           path[i - 1] = IF i - 1 > pos THEN Repaired(given[i]) ELSE given[i]
      /\ path[Len(given)] = "nul"
  BY <1>1 DEF PathInv, FixInv, Fixes
<1>3. given = <<>> <=> Len(given) = 0
  BY <1>1
<1>4. FixInv'
  <2>1. CASE pos = 0
    <3>1. path_pc' = "return" /\ path' = path /\ pos' = pos /\ given # <<>>
      BY <1>2, <2>1, PathTypes DEF FixStep, Wrapped
    <3> QED
      BY <1>1, <1>2, <2>1, <3>1 DEF FixInv, Memory, Repaired
  <2>2. CASE pos # 0 /\ pos \notin DOMAIN path
    <3>1. path_pc' = "fault" /\ given = <<>>
      BY <1>1, <1>2, <2>2 DEF FixStep, Fault, Memory
    <3> QED
      BY <1>1, <3>1 DEF FixInv
  <2>3. CASE pos # 0 /\ pos \in DOMAIN path
    <3>1. given # <<>> /\ pos \in 1 .. Len(given) - 1
      BY <1>1, <1>2, <1>3, <2>3, PathTypes DEF Memory, Wrapped
    <3>2. /\ path' = [path EXCEPT ![pos] = Repaired(path[pos])]
          /\ pos' = pos - 1 /\ path_pc' = path_pc
      <4>1. path' = (IF path_pc = "fix_backslashes" THEN Fixed("\\", "/", pos)
                                                    ELSE Fixed("/", "\\", pos))
            /\ pos' = pos - 1 /\ path_pc' = path_pc
        BY <2>3 DEF FixStep
      <4>2. CASE path_pc = "fix_backslashes"
        <5>1. Repaired(path[pos]) = IF path[pos] = "\\" THEN "/" ELSE path[pos]
          BY <1>1, <4>2 DEF Repaired, Slashes
        <5> QED
          BY <4>1, <4>2, <5>1 DEF Fixed
      <4>3. CASE path_pc # "fix_backslashes"
        <5>1. Repaired(path[pos]) = IF path[pos] = "/" THEN "\\" ELSE path[pos]
          BY <1>1, <4>3 DEF Repaired, Slashes
        <5> QED
          BY <4>1, <4>3, <5>1 DEF Fixed
      <4> QED
        BY <4>2, <4>3
    <3>3. DOMAIN path' = DOMAIN path /\ path'[Len(given)] = "nul"
      BY <1>1, <1>2, <3>1, <3>2 DEF Memory
    <3>4. \A i \in DOMAIN given :
            path'[i - 1] = IF i - 1 > pos' THEN Repaired(given[i]) ELSE given[i]
      <4> SUFFICES ASSUME NEW i \in DOMAIN given
                   PROVE  path'[i - 1] = IF i - 1 > pos' THEN Repaired(given[i]) ELSE given[i]
        OBVIOUS
      <4>1. i \in 1 .. Len(given) /\ i - 1 \in DOMAIN path
        BY <1>1, <1>2 DEF Memory
      <4>2. path[i - 1] = IF i - 1 > pos THEN Repaired(given[i]) ELSE given[i]
        BY <1>2
      <4>3. path'[i - 1] = IF i - 1 = pos THEN Repaired(path[pos]) ELSE path[i - 1]
        BY <3>2, <4>1
      <4> QED
        BY <3>1, <3>2, <4>1, <4>2, <4>3
    <3>5. \A c : Repaired(c)' = Repaired(c)
      BY <1>1 DEF Repaired
    <3>6. pos' \in 0 .. Len(given') - 1
      BY <1>1, <3>1, <3>2
    <3>7. Memory'
      BY <1>1, <1>2, <3>3 DEF Memory
    <3> QED
      BY <1>1, <3>1, <3>2, <3>3, <3>4, <3>5, <3>6, <3>7 DEF FixInv, Repaired, Fixes
  <2> QED
    BY <2>1, <2>2, <2>3
<1>5. HasSlashesInv' /\ FilenameInv' /\ TruncateInv'
  BY <1>1 DEF Fixes, HasSlashesInv, FilenameInv, TruncateInv
<1> QED
  BY <1>1, <1>4, <1>5 DEF PathInv

LEMMA HasSlashesStepInv ==
  ASSUME PathInv, HasSlashesStep
  PROVE  PathInv'
<1>1. /\ asked = "has_slashes" /\ path_pc = asked /\ given \in Seq(Chars)
      /\ Len(given) \in Nat /\ Len(given) <= MaxPath
      /\ given' = given /\ asked' = asked /\ path' = path
  BY DEF PathInv, HasSlashesStep, Fixes, FixInv, HasSlashesInv, FilenameInv, TruncateInv
<1>2. /\ Memory /\ Kept(Len(given)) /\ pos \in -1 .. Len(given) - 1
      /\ Passed(pos, Len(given))
  BY <1>1 DEF PathInv, HasSlashesInv
<1>3. pos >= 0 => pos + 1 \in DOMAIN given /\ path[pos] = given[pos + 1]
  BY <1>1, <1>2 DEF Memory, Kept
<1>4. HasSlashesInv'
  <2>1. CASE pos < 0 \/ path[pos] \in Slashes
    <3>1. path_pc' = "return" /\ result' = (pos >= 0)
      BY <2>1 DEF HasSlashesStep
    <3>2. pos >= 0 => SlashesOf(given) # {}
      BY <1>2, <1>3, <2>1 DEF SlashesOf
    <3>3. ~(pos >= 0) => SlashesOf(given) = {}
      <4> SUFFICES ASSUME ~(pos >= 0)
                   PROVE  SlashesOf(given) = {}
        OBVIOUS
      <4>1. \A j \in DOMAIN given : j > pos + 1 /\ j <= Len(given)
        BY <1>1, <1>2
      <4> QED
        BY <1>2, <4>1 DEF SlashesOf, Passed
    <3>4. result' = (SlashesOf(given) # {})
      <4>1. (pos >= 0) = (SlashesOf(given) # {})
        BY <3>2, <3>3
      <4> QED
        BY <3>1, <4>1, Zenon
    <3> QED
      BY <1>1, <3>1, <3>4, Zenon DEF HasSlashesInv
  <2>2. CASE ~(pos < 0 \/ path[pos] \in Slashes)
    <3>1. path_pc' = path_pc /\ pos' = pos - 1
      BY <2>2 DEF HasSlashesStep
    <3>2. pos' \in -1 .. Len(given') - 1
      BY <1>1, <1>2, <2>2, <3>1
    <3>3. Passed(pos, Len(given))'
      BY <1>1, <1>2, <1>3, <2>2, <3>1 DEF Passed
    <3>4. Memory' /\ Kept(Len(given))'
      BY <1>1, <1>2 DEF Memory, Kept
    <3> QED
      BY <1>1, <3>1, <3>2, <3>3, <3>4 DEF HasSlashesInv
  <2> QED
    BY <2>1, <2>2
<1>5. FixInv' /\ FilenameInv' /\ TruncateInv'
  BY <1>1 DEF Fixes, FixInv, FilenameInv, TruncateInv
<1> QED
  BY <1>1, <1>4, <1>5 DEF PathInv

LEMMA GetFilenameStepInv ==
  ASSUME PathInv, GetFilenameStep
  PROVE  PathInv'
<1>1. /\ asked = "get_filename" /\ path_pc = asked /\ given \in Seq(Chars)
      /\ Len(given) \in Nat /\ Len(given) <= MaxPath
      /\ given' = given /\ asked' = asked
  BY DEF PathInv, GetFilenameStep, Fixes, FixInv, HasSlashesInv, FilenameInv, TruncateInv
<1>2. /\ Memory /\ Kept(Len(given))
      /\ \/ pos \in 0 .. Len(given) /\ Passed(pos, Len(given))
         \/ Wrapped /\ SlashesOf(given) = {}
  BY <1>1 DEF PathInv, FilenameInv
<1>3. FilenameInv'
  <2>1. CASE pos \notin DOMAIN path
    <3>1. path_pc' = "fault"
      BY <2>1 DEF GetFilenameStep, Fault
    <3>2. SlashesOf(given) = {}
      BY <1>2, <2>1 DEF Memory
    <3> QED
      BY <1>1, <3>1, <3>2 DEF FilenameInv
  <2>2. CASE pos \in DOMAIN path
    <3>1. pos \in 0 .. Len(given) /\ Passed(pos, Len(given))
      BY <1>1, <1>2, <2>2, PathTypes DEF Memory, Wrapped
    <3>2. CASE path[pos] \in Slashes
      <4>1. path_pc' = "return" /\ result' = SubSeq(given, pos + 2, Len(given))
        BY <2>2, <3>2 DEF GetFilenameStep
      <4>2. pos < Len(given)
        BY <1>1, <1>2, <2>2, <3>1, <3>2, PathTypes DEF Kept
      <4>3. pos + 1 \in SlashesOf(given)
        BY <1>1, <1>2, <2>2, <3>1, <3>2, <4>2 DEF Kept, SlashesOf
      <4>4. (pos + 1) - 1 = pos /\ (pos + 1) + 1 = pos + 2
        BY <3>1
      <4>5. \E k \in SlashesOf(given) :
              Passed(k - 1, Len(given)) /\ result' = SubSeq(given, k + 1, Len(given))
        <5>1. Passed((pos + 1) - 1, Len(given)) /\ result' = SubSeq(given, (pos + 1) + 1, Len(given))
          BY <3>1, <4>1, <4>4
        <5> QED
          BY <4>3, <5>1
      <4>6. (\E k \in SlashesOf(given) :
              Passed(k - 1, Len(given)) /\ result = SubSeq(given, k + 1, Len(given)))'
        BY <1>1, <4>5 DEF Passed
      <4> QED
        BY <1>1, <4>1, <4>6 DEF FilenameInv
    <3>3. CASE path[pos] \notin Slashes
      <4>1. pos' = (pos - 1) % U16 /\ path_pc' = path_pc /\ path' = path
        BY <2>2, <3>3 DEF GetFilenameStep
      <4>2. pos < Len(given) => given[pos + 1] \notin Slashes
        BY <1>2, <2>2, <3>1, <3>3 DEF Kept
      <4>3. \/ pos' \in 0 .. Len(given') /\ Passed(pos, Len(given))'
            \/ Wrapped' /\ SlashesOf(given') = {}
        <5>1. CASE pos = 0
          <6>1. (-1) % U16 = U16 - 1 /\ pos - 1 = -1
            BY <5>1, PathTypes
          <6>2. Wrapped'
            BY <4>1, <6>1 DEF Wrapped
          <6>3. SlashesOf(given) = {}
            BY <1>1, <3>1, <4>2, <5>1 DEF SlashesOf, Passed
          <6> QED
            BY <1>1, <6>2, <6>3
        <5>2. CASE pos # 0
          <6>1. pos - 1 \in 0 .. U16 - 1
            BY <1>1, <3>1, <5>2, PathTypes
          <6>2. pos' = pos - 1
            BY <4>1, <6>1, PathTypes
          <6>3. pos' \in 0 .. Len(given')
            BY <1>1, <3>1, <5>2, <6>2
          <6>4. Passed(pos, Len(given))'
            BY <1>1, <3>1, <4>2, <6>2 DEF Passed
          <6> QED
            BY <6>3, <6>4
        <5> QED
          BY <5>1, <5>2
      <4>4. Memory' /\ Kept(Len(given))'
        BY <1>1, <1>2, <4>1 DEF Memory, Kept
      <4> QED
        BY <1>1, <4>1, <4>3, <4>4 DEF FilenameInv
    <3> QED
      BY <3>2, <3>3
  <2> QED
    BY <2>1, <2>2
<1>4. FixInv' /\ HasSlashesInv' /\ TruncateInv'
  BY <1>1 DEF Fixes, FixInv, HasSlashesInv, TruncateInv
<1> QED
  BY <1>1, <1>3, <1>4 DEF PathInv

LEMMA CutLastInv ==
  ASSUME PathInv, CutLast
  PROVE  PathInv'
<1> DEFINE last == (pos - 1) % U16
<1>1. /\ asked \in {"cut_last", "get_self_path"} /\ given \in Seq(Chars)
      /\ path_pc = (IF asked = "cut_last" THEN "cut_last" ELSE "self_cut_last")
      /\ Len(given) \in Nat /\ Len(given) <= MaxPath
      /\ given' = given /\ asked' = asked /\ start' = start
  BY DEF PathInv, CutLast, Fixes, FixInv, HasSlashesInv, FilenameInv, TruncateInv
<1>2. /\ start \in 0 .. Len(given) + 1 /\ pos = start
      /\ asked = "get_self_path" => \E k \in SlashesOf(given) : k <= start - 1
      /\ Kept(IF start <= Len(given) THEN start ELSE Len(given))
  BY <1>1 DEF PathInv, TruncateInv
<1>3. PICK size \in 0 .. U16 - 1 : DOMAIN path = 0 .. size - 1 /\ start <= size
  BY <1>1 DEF PathInv, TruncateInv
<1>4. /\ start = 0 => last = U16 - 1 /\ last \notin DOMAIN path
      /\ start > 0 => last = start - 1 /\ last \in DOMAIN path
  <2>1. CASE start = 0
    <3>1. pos - 1 = -1 /\ (-1) % U16 = U16 - 1
      BY <1>2, <2>1, PathTypes
    <3> QED
      BY <1>3, <2>1, <3>1, PathTypes
  <2>2. CASE start # 0
    <3>1. start - 1 \in 0 .. U16 - 1 /\ pos - 1 = start - 1 /\ start > 0
      BY <1>1, <1>2, <2>2, PathTypes
    <3>2. last = start - 1
      BY <3>1, PathTypes
    <3> QED
      BY <1>2, <1>3, <3>1, <3>2
  <2> QED
    BY <2>1, <2>2
<1>5. TruncateInv'
  <2>1. CASE start = 0
    <3>1. path_pc' = "fault"
      BY <1>4, <2>1 DEF CutLast, Fault
    <3>2. asked = "cut_last"
      <4>1. \A k \in SlashesOf(given) : k \in Nat
        BY <1>1 DEF SlashesOf
      <4> QED
        BY <1>1, <1>2, <2>1, <4>1
    <3>3. Passed(-1, start - 1)'
      BY <1>1, <2>1 DEF Passed
    <3> QED
      BY <1>1, <1>2, <3>1, <3>2, <3>3 DEF TruncateInv
  <2>2. CASE start > 0
    <3>1. /\ path' = [path EXCEPT ![start - 1] = "nul"] /\ pos' = start - 1
          /\ path_pc' = (IF asked = "cut_last" THEN "truncate" ELSE "self_truncate")
      BY <1>1, <1>4, <2>2 DEF CutLast
    <3>2. Kept(Left(pos))'
      <4>1. Left(pos)' = start - 1
        BY <1>1, <3>1 DEF Left
      <4>2. \A i \in DOMAIN path : path'[i] = IF i < start - 1 THEN given[i + 1] ELSE "nul"
        BY <1>2, <1>3, <2>2, <3>1 DEF Kept
      <4>3. DOMAIN path' = DOMAIN path
        BY <3>1
      <4> QED
        BY <1>1, <4>1, <4>2, <4>3 DEF Kept
    <3>3. Passed(pos, start - 1)'
      BY <1>1, <1>2, <3>1 DEF Passed
    <3>4. \E n \in 0 .. U16 - 1 : DOMAIN path' = 0 .. n - 1 /\ start' <= n
      BY <1>1, <1>3, <3>1
    <3>5. pos' \in 0 .. start' - 1
      BY <1>1, <1>2, <2>2, <3>1
    <3>6. asked' = "get_self_path" => (\E k \in SlashesOf(given') : k <= start' - 1)
      BY <1>1, <1>2
    <3>7. start' \in 0 .. Len(given') + 1
      BY <1>1, <1>2
    <3> QED
      BY <1>1, <3>1, <3>2, <3>3, <3>4, <3>5, <3>6, <3>7 DEF TruncateInv
  <2> QED
    BY <1>2, <2>1, <2>2
<1>6. FixInv' /\ HasSlashesInv' /\ FilenameInv'
  BY <1>1 DEF Fixes, FixInv, HasSlashesInv, FilenameInv
<1> QED
  BY <1>1, <1>5, <1>6 DEF PathInv

(* At a slash the scan stops, and the path ends with it.                   *)
LEMMA TruncateStops ==
  ASSUME PathInv, TruncateStep, pos \in DOMAIN path, path[pos] \in Slashes
  PROVE  /\ pos \in 0 .. start - 2
         /\ pos + 1 \in SlashesOf(given) /\ pos + 1 <= start - 1
         /\ Passed(pos, start - 1) /\ Kept(pos + 1)
         /\ path_pc' = (IF asked = "cut_last" THEN "return" ELSE "self_slash")
         /\ path' = path /\ pos' = pos
<1>1. /\ asked \in {"cut_last", "get_self_path"} /\ given \in Seq(Chars)
      /\ path_pc = (IF asked = "cut_last" THEN "truncate" ELSE "self_truncate")
      /\ Len(given) \in Nat /\ Len(given) <= MaxPath
  BY DEF PathInv, TruncateStep, Fixes, FixInv, HasSlashesInv, FilenameInv, TruncateInv
<1>2. /\ start \in 0 .. Len(given) + 1
      /\ \/ pos \in 0 .. start - 1 /\ Kept(Left(pos)) /\ Passed(pos, start - 1)
         \/ Wrapped /\ Passed(-1, start - 1)
  BY <1>1 DEF PathInv, TruncateInv
<1>3. PICK size \in 0 .. U16 - 1 : DOMAIN path = 0 .. size - 1 /\ start <= size
  BY <1>1 DEF PathInv, TruncateInv
<1>4. pos \in 0 .. start - 1 /\ Kept(Left(pos)) /\ Passed(pos, start - 1)
  BY <1>2, <1>3, PathTypes DEF Wrapped
<1>5. pos # start - 1
  <2> SUFFICES ASSUME pos = start - 1
               PROVE  FALSE
    OBVIOUS
  <2>1. Left(pos) = pos
    BY DEF Left
  <2>2. path[pos] = "nul"
    BY <1>3, <1>4, <2>1 DEF Kept
  <2> QED
    BY <2>2, PathTypes
<1>6. Left(pos) = pos + 1 /\ pos \in 0 .. start - 2 /\ pos < pos + 1
  BY <1>2, <1>4, <1>5 DEF Left
<1>7. Kept(pos + 1) /\ path[pos] = given[pos + 1]
  <2>1. Kept(pos + 1)
    BY <1>4, <1>6
  <2> QED
    BY <1>6, <2>1 DEF Kept
<1>8. pos + 1 \in SlashesOf(given) /\ pos + 1 <= start - 1
  BY <1>1, <1>2, <1>6, <1>7 DEF SlashesOf
<1>9. /\ path_pc' = (IF asked = "cut_last" THEN "return" ELSE "self_slash")
      /\ path' = path /\ pos' = pos
  BY <1>1 DEF TruncateStep
<1> QED
  BY <1>4, <1>6, <1>7, <1>8, <1>9

(* Any other character goes, and the scan moves on below it.               *)
LEMMA TruncateGoesOn ==
  ASSUME PathInv, TruncateStep, pos \in DOMAIN path, path[pos] \notin Slashes
  PROVE  /\ path_pc' = path_pc /\ DOMAIN path' = DOMAIN path
         /\ \/ pos' \in 0 .. start - 1 /\ Kept(Left(pos))' /\ Passed(pos, start - 1)'
            \/ Wrapped' /\ Passed(-1, start - 1)'
<1>1. /\ asked \in {"cut_last", "get_self_path"} /\ given \in Seq(Chars)
      /\ path_pc = (IF asked = "cut_last" THEN "truncate" ELSE "self_truncate")
      /\ Len(given) \in Nat /\ Len(given) <= MaxPath
      /\ given' = given /\ start' = start
  BY DEF PathInv, TruncateStep, Fixes, FixInv, HasSlashesInv, FilenameInv, TruncateInv
<1>2. /\ start \in 0 .. Len(given) + 1
      /\ \/ pos \in 0 .. start - 1 /\ Kept(Left(pos)) /\ Passed(pos, start - 1)
         \/ Wrapped /\ Passed(-1, start - 1)
  BY <1>1 DEF PathInv, TruncateInv
<1>3. PICK size \in 0 .. U16 - 1 : DOMAIN path = 0 .. size - 1 /\ start <= size
  BY <1>1 DEF PathInv, TruncateInv
<1>4. pos \in 0 .. start - 1 /\ Kept(Left(pos)) /\ Passed(pos, start - 1)
  BY <1>2, <1>3, PathTypes DEF Wrapped
<1>5. path' = [path EXCEPT ![pos] = "nul"] /\ pos' = (pos - 1) % U16 /\ path_pc' = path_pc
  BY DEF TruncateStep
<1>6. \A j \in DOMAIN given : j > pos /\ j <= start - 1 => given[j] \notin Slashes
  <2> SUFFICES ASSUME NEW j \in DOMAIN given, j > pos, j <= start - 1
               PROVE  given[j] \notin Slashes
    OBVIOUS
  <2>1. CASE j > pos + 1
    BY <1>4, <2>1 DEF Passed
  <2>2. CASE ~(j > pos + 1)
    <3>1. j = pos + 1
      BY <1>1, <1>4, <2>2
    <3>2. Left(pos) = pos + 1
      BY <1>2, <1>4, <3>1 DEF Left
    <3>3. path[pos] = given[pos + 1]
      <4>1. Kept(pos + 1) /\ pos < pos + 1
        BY <1>4, <3>2
      <4> QED
        BY <4>1 DEF Kept
    <3> QED
      BY <3>1, <3>3
  <2> QED
    BY <2>1, <2>2
<1>7. CASE pos = 0
  <2>1. pos - 1 = -1 /\ (-1) % U16 = U16 - 1
    BY <1>7, PathTypes
  <2>2. Wrapped'
    BY <1>5, <2>1 DEF Wrapped
  <2>3. Passed(-1, start - 1)'
    BY <1>1, <1>6, <1>7 DEF Passed
  <2> QED
    BY <1>5, <2>2, <2>3
<1>8. CASE pos # 0
  <2>1. pos - 1 \in 0 .. U16 - 1
    BY <1>1, <1>2, <1>4, <1>8, PathTypes
  <2>2. pos' = pos - 1
    BY <1>5, <2>1, PathTypes
  <2>3. pos' \in 0 .. start - 1 /\ pos' + 1 = pos
    BY <1>2, <1>4, <1>8, <2>2
  <2>4. Passed(pos, start - 1)'
    BY <1>1, <1>6, <2>3 DEF Passed
  <2>5. Left(pos)' = pos
    BY <1>1, <1>2, <1>4, <2>2 DEF Left
  <2>6. \A i \in DOMAIN path : path'[i] = IF i < pos THEN given[i + 1] ELSE "nul"
    <3>1. Left(pos) \in {pos, pos + 1}
      BY DEF Left
    <3>2. \A i \in DOMAIN path : path[i] = IF i < Left(pos) THEN given[i + 1] ELSE "nul"
      BY <1>4 DEF Kept
    <3> QED
      BY <1>3, <1>4, <1>5, <3>1, <3>2
  <2>7. Kept(Left(pos))'
    BY <1>1, <1>5, <2>5, <2>6 DEF Kept
  <2> QED
    BY <1>5, <2>3, <2>4, <2>7
<1> QED
  BY <1>7, <1>8

LEMMA TruncateStepInv ==
  ASSUME PathInv, TruncateStep
  PROVE  PathInv'
<1>1. /\ asked \in {"cut_last", "get_self_path"} /\ given \in Seq(Chars)
      /\ path_pc = (IF asked = "cut_last" THEN "truncate" ELSE "self_truncate")
      /\ Len(given) \in Nat /\ Len(given) <= MaxPath
      /\ given' = given /\ asked' = asked /\ start' = start
  BY DEF PathInv, TruncateStep, Fixes, FixInv, HasSlashesInv, FilenameInv, TruncateInv
<1>2. /\ start \in 0 .. Len(given) + 1
      /\ asked = "get_self_path" => \E k \in SlashesOf(given) : k <= start - 1
      /\ \/ pos \in 0 .. start - 1 /\ Kept(Left(pos)) /\ Passed(pos, start - 1)
         \/ Wrapped /\ Passed(-1, start - 1)
  BY <1>1 DEF PathInv, TruncateInv
<1>3. PICK size \in 0 .. U16 - 1 : DOMAIN path = 0 .. size - 1 /\ start <= size
  BY <1>1 DEF PathInv, TruncateInv
<1>4. /\ start' \in 0 .. Len(given') + 1
      /\ asked' = "get_self_path" => (\E k \in SlashesOf(given') : k <= start' - 1)
  BY <1>1, <1>2
<1>5. DOMAIN path' = DOMAIN path =>
        \E n \in 0 .. U16 - 1 : DOMAIN path' = 0 .. n - 1 /\ start' <= n
  BY <1>1, <1>3
<1>6. TruncateInv'
  <2>1. CASE pos \notin DOMAIN path
    <3>1. path_pc' = "fault"
      BY <2>1 DEF TruncateStep, Fault
    <3>2. Passed(-1, start - 1)
      <4>1. pos \notin 0 .. start - 1
        BY <1>2, <1>3, <2>1
      <4> QED
        BY <1>2, <4>1
    <3>3. asked = "cut_last"
      <4>1. \A k \in SlashesOf(given) : k \in DOMAIN given /\ k > -1 + 1 /\ given[k] \in Slashes
        BY <1>1 DEF SlashesOf
      <4>2. \A k \in SlashesOf(given) : ~(k <= start - 1)
        BY <3>2, <4>1 DEF Passed
      <4> QED
        BY <1>1, <1>2, <4>2
    <3>4. Passed(-1, start - 1)'
      BY <1>1, <3>2 DEF Passed
    <3> QED
      BY <1>1, <1>4, <3>1, <3>3, <3>4 DEF TruncateInv
  <2>2. CASE pos \in DOMAIN path /\ path[pos] \in Slashes
    <3>1. /\ pos \in 0 .. start - 2
          /\ pos + 1 \in SlashesOf(given) /\ pos + 1 <= start - 1
          /\ Passed(pos, start - 1) /\ Kept(pos + 1)
          /\ path_pc' = (IF asked = "cut_last" THEN "return" ELSE "self_slash")
          /\ path' = path /\ pos' = pos
      BY <2>2, TruncateStops
    <3>2. Kept(pos + 1)' /\ Passed(pos, start - 1)'
      BY <1>1, <3>1 DEF Kept, Passed
    <3>3. CASE asked = "cut_last"
      <4>1. (pos + 1) - 1 = pos
        BY <3>1
      <4>2. Passed((pos + 1) - 1, start - 1) /\ Kept(pos + 1)
        BY <3>1, <4>1
      <4>3. \E k \in SlashesOf(given) : k <= start - 1 /\ Passed(k - 1, start - 1) /\ Kept(k)
        BY <3>1, <4>2
      <4>4. (\E k \in SlashesOf(given) : k <= start - 1 /\ Passed(k - 1, start - 1) /\ Kept(k))'
        BY <1>1, <3>1, <4>3 DEF Passed, Kept
      <4> QED
        BY <1>1, <1>4, <1>5, <3>1, <3>3, <4>4 DEF TruncateInv
    <3>4. CASE asked = "get_self_path"
      <4>1. pos' + 1 \in SlashesOf(given') /\ pos' + 1 <= start' - 1
        BY <1>1, <3>1
      <4> QED
        BY <1>1, <1>4, <1>5, <3>1, <3>2, <3>4, <4>1 DEF TruncateInv
    <3> QED
      BY <1>1, <3>3, <3>4
  <2>3. CASE pos \in DOMAIN path /\ path[pos] \notin Slashes
    <3>1. /\ path_pc' = path_pc /\ DOMAIN path' = DOMAIN path
          /\ \/ pos' \in 0 .. start - 1 /\ Kept(Left(pos))' /\ Passed(pos, start - 1)'
             \/ Wrapped' /\ Passed(-1, start - 1)'
      BY <2>3, TruncateGoesOn
    <3> QED
      BY <1>1, <1>4, <1>5, <3>1 DEF TruncateInv
  <2> QED
    BY <2>1, <2>2, <2>3
<1>7. FixInv' /\ HasSlashesInv' /\ FilenameInv'
  BY <1>1 DEF Fixes, FixInv, HasSlashesInv, FilenameInv
<1> QED
  BY <1>1, <1>6, <1>7 DEF PathInv

LEMMA SelfSlashInv ==
  ASSUME PathInv, SelfSlash
  PROVE  PathInv'
<1>1. /\ asked = "get_self_path" /\ path_pc = "self_slash" /\ given \in Seq(Chars)
      /\ Len(given) \in Nat /\ Len(given) <= MaxPath
      /\ given' = given /\ asked' = asked /\ start' = start /\ path_pc' = "return"
  BY DEF PathInv, SelfSlash, Fixes, FixInv, HasSlashesInv, FilenameInv, TruncateInv
<1>2. /\ start \in 0 .. Len(given) + 1
      /\ \E k \in SlashesOf(given) : k <= start - 1
      /\ pos + 1 \in SlashesOf(given) /\ pos + 1 <= start - 1
      /\ Kept(pos + 1) /\ Passed(pos, start - 1)
  BY <1>1 DEF PathInv, TruncateInv
<1>3. PICK size \in 0 .. U16 - 1 : DOMAIN path = 0 .. size - 1 /\ start <= size
  BY <1>1 DEF PathInv, TruncateInv
<1> DEFINE k == pos + 1
<1>4. k \in 1 .. Len(given) /\ k <= start - 1 /\ Kept(k) /\ k \in SlashesOf(given)
  BY <1>1, <1>2 DEF SlashesOf
<1>5. Passed(k - 1, start - 1)
  <2> DEFINE p == k - 1
  <2>1. \A j \in DOMAIN given : j > k /\ j <= start - 1 => given[j] \notin Slashes
    BY <1>2 DEF Passed
  <2>2. (k - 1) + 1 = k
    BY <1>4
  <2> HIDE DEF k
  <2> QED
    BY <2>1, <2>2 DEF Passed
<1> HIDE DEF k
<1>6. strlen(path) = k
  <2>1. size \in Nat /\ k \in 0 .. Len(given) /\ k < size
    BY <1>2, <1>3, <1>4, PathTypes
  <2> QED
    BY <1>1, <1>3, <1>4, <2>1, StringKept
<1>7. path' = [path EXCEPT ![k - 1] = "nul"]
  BY <1>6 DEF SelfSlash
<1>8. Kept(k - 1)'
  <2>1. DOMAIN path' = DOMAIN path
    BY <1>7
  <2>2. \A i \in DOMAIN path : path'[i] = IF i < k - 1 THEN given[i + 1] ELSE "nul"
    BY <1>3, <1>4, <1>7 DEF Kept
  <2>3. k' = k
    BY DEF SelfSlash, k
  <2> QED
    BY <1>1, <2>1, <2>2, <2>3 DEF Kept
<1>9. TruncateInv'
  <2>1. \E n \in 0 .. U16 - 1 : DOMAIN path' = 0 .. n - 1 /\ start' <= n
    BY <1>1, <1>3, <1>7
  <2>2. pos' = pos
    BY DEF SelfSlash
  <2>3. \E m \in SlashesOf(given') : m <= start' - 1 /\ Passed(m - 1, start - 1)' /\ Kept(m - 1)'
    <3>1. k \in SlashesOf(given') /\ k <= start' - 1
      BY <1>1, <1>4
    <3>2. Passed(k - 1, start - 1)'
      BY <1>1, <1>5, <2>2 DEF Passed, k
    <3>3. \A m : m = k => Passed(m - 1, start - 1)' /\ Kept(m - 1)'
      BY <1>8, <3>2, <2>2 DEF k
    <3> QED
      BY <3>1, <3>3
  <2>4. \E m \in SlashesOf(given') : m <= start' - 1
    BY <1>1, <1>2
  <2>5. start' \in 0 .. Len(given') + 1
    BY <1>1, <1>2
  <2> QED
    BY <1>1, <2>1, <2>3, <2>4, <2>5 DEF TruncateInv
<1>10. FixInv' /\ HasSlashesInv' /\ FilenameInv'
  BY <1>1 DEF Fixes, FixInv, HasSlashesInv, FilenameInv
<1> QED
  BY <1>1, <1>9, <1>10 DEF PathInv

LEMMA PathNextInv ==
  ASSUME PathInv, [PathNext]_pathVars
  PROVE  PathInv'
<1>1. ASSUME NEW s \in Strings,
             \/ path_fix_backslashes(s)
             \/ path_fix_forward_slashes(s)
             \/ path_has_slashes(s)
             \/ \E n \in {Len(s), Len(s) + 1} : path_truncate(s, n)
             \/ path_get_filename(s)
      PROVE  PathInv'
  BY <1>1, FixCallInv, HasSlashesCallInv, TruncateCallInv, FilenameCallInv
<1>2. ASSUME NEW s \in Programs, (s[1] = "/" /\ SelfFromLink(s)) \/ SelfFromArgv(s)
      PROVE  PathInv'
  BY <1>2, SelfFromLinkInv, SelfFromArgvInv
<1>3. CASE SelfUnknown
  BY <1>3, SelfUnknownInv
<1>4. CASE PathStep
  BY <1>4, FixStepInv, HasSlashesStepInv, CutLastInv, TruncateStepInv, GetFilenameStepInv,
     SelfSlashInv DEF PathStep
<1>5. CASE UNCHANGED pathVars
  BY <1>5 DEF pathVars, PathInv, FixInv, HasSlashesInv, FilenameInv, TruncateInv,
     Memory, Kept, Passed, Wrapped, Left, Repaired
<1> QED
  BY <1>1, <1>2, <1>3, <1>4, <1>5 DEF PathNext

LEMMA PathInitInv ==
  ASSUME PathInit
  PROVE  PathInv
<1>1. given \in Seq(Chars) /\ Len(given) <= MaxPath
  BY PathTypes DEF PathInit
<1> QED
  BY <1>1 DEF PathInit, PathInv, Fixes, FixInv, HasSlashesInv, FilenameInv, TruncateInv

LEMMA StartNextInv ==
  ASSUME StartInv, [PathNext]_pathVars
  PROVE  StartInv'
<1>1. ASSUME NEW s \in Strings, NEW n \in {Len(s), Len(s) + 1}, path_truncate(s, n)
      PROVE  StartInv'
  BY <1>1 DEF path_truncate, CallPath, StartInv
<1>2. ASSUME NEW s, path_fix_backslashes(s) \/ path_fix_forward_slashes(s) \/ path_has_slashes(s)
                      \/ path_get_filename(s) \/ SelfFromLink(s) \/ SelfFromArgv(s) \/ SelfUnknown
      PROVE  StartInv'
  <2>1. asked' # "cut_last"
    BY <1>2 DEF path_fix_backslashes, path_fix_forward_slashes, path_has_slashes,
                path_get_filename, CallPath, SelfFromLink, SelfFromArgv, SelfUnknown
  <2> QED
    BY <2>1 DEF StartInv
<1>3. CASE PathStep \/ UNCHANGED pathVars
  <2>1. given' = given /\ asked' = asked /\ start' = start
    BY <1>3 DEF PathStep, FixStep, HasSlashesStep, CutLast, TruncateStep, GetFilenameStep,
                SelfSlash, pathVars
  <2> QED
    BY <2>1 DEF StartInv
<1> QED
  BY <1>1, <1>2, <1>3 DEF PathNext

-----------------------------------------------------------------------------
(* What the invariant says of a function that returned.                    *)
LEMMA FixRight ==
  ASSUME PathInv, path_pc = "return", asked \in Fixes
  PROVE  /\ given # <<>>
         /\ asked = "fix_backslashes" => FixedRight("\\", "/")
         /\ asked = "fix_forward_slashes" => FixedRight("/", "\\")
<1>1. /\ given \in Seq(Chars) /\ Len(given) \in Nat /\ Len(given) > 0 /\ Memory
      /\ \A i \in DOMAIN given :
           path[i - 1] = IF i - 1 > 0 THEN Repaired(given[i]) ELSE given[i]
      /\ path[Len(given)] = "nul"
  BY DEF PathInv, FixInv, Fixes
<1>2. \A i \in DOMAIN given : given[i] \in Chars /\ Repaired(given[i]) \in Chars
  BY <1>1, PathTypes DEF Repaired, Slashes
<1>3. \A i \in 0 .. Len(given) - 1 : path[i] # "nul"
  <2> SUFFICES ASSUME NEW i \in 0 .. Len(given) - 1
               PROVE  path[i] # "nul"
    OBVIOUS
  <2>1. i + 1 \in DOMAIN given /\ (i + 1) - 1 = i
    BY <1>1
  <2>2. path[i] = given[i + 1] \/ path[i] = Repaired(given[i + 1])
    BY <1>1, <2>1
  <2> QED
    BY <1>2, <2>1, <2>2, PathTypes
<1>4. strlen(path) = Len(given)
  <2>1. Len(given) \in DOMAIN path /\ DOMAIN path = 0 .. Len(given)
    BY <1>1 DEF Memory
  <2>2. \A m \in DOMAIN path :
          path[m] = "nul" /\ (\A i \in 0 .. m - 1 : path[i] # "nul") => m = Len(given)
    BY <1>1, <1>3, <2>1
  <2> QED
    BY <1>1, <1>3, <2>1, <2>2 DEF strlen
<1>5. /\ StringOf(path) = [i \in 1 .. Len(given) |-> path[i - 1]]
      /\ Len(StringOf(path)) = Len(given)
  BY <1>1, <1>4 DEF StringOf
<1>6. \A i \in DOMAIN given : i \in 1 .. Len(given) /\ StringOf(path)[i] = path[i - 1]
  BY <1>1, <1>5
<1> DEFINE now == StringOf(path)
           rest(from, to) ==
             /\ now[1] = given[1]
             /\ \A i \in DOMAIN given \ {1} : now[i] = IF given[i] = from THEN to ELSE given[i]
<1>7. ASSUME NEW from, NEW to, from # to, rest(from, to)
      PROVE  FixedRight(from, to)
  <2> DEFINE all == AllReplaced(given, from, to)
  <2>1. \A i \in DOMAIN given : all[i] = IF given[i] = from THEN to ELSE given[i]
    BY DEF AllReplaced
  <2>2. DOMAIN all = DOMAIN given /\ DOMAIN now = DOMAIN given /\ 1 \in DOMAIN given
    BY <1>1, <1>5 DEF AllReplaced
  <2>3. /\ all = [i \in DOMAIN given |-> all[i]]
        /\ now = [i \in DOMAIN given |-> now[i]]
    BY <1>1, <1>5, <2>2 DEF AllReplaced
  <2> HIDE DEF all, now
  <2>4. given[1] # from => now = all
    <3> SUFFICES ASSUME given[1] # from
                 PROVE  \A i \in DOMAIN given : now[i] = all[i]
      BY <2>3, Zenon
    <3> QED
      BY <1>7, <2>1
  <2>5. given[1] = from => now # all
    BY <1>7, <2>1, <2>2
  <2>6. Len(now) = Len(given)
    BY <1>5 DEF now
  <2> QED
    BY <1>7, <2>1, <2>4, <2>5, <2>6, Zenon DEF FixedRight, all, now
<1>8. CASE asked = "fix_backslashes"
  <2>1. \A i \in DOMAIN given : Repaired(given[i]) = IF given[i] = "\\" THEN "/" ELSE given[i]
    BY <1>8 DEF Repaired, Slashes
  <2>2. rest("\\", "/")
    BY <1>1, <1>6, <2>1
  <2> HIDE DEF rest, now
  <2> QED
    BY <1>1, <1>7, <1>8, <2>2
<1>9. CASE asked = "fix_forward_slashes"
  <2>1. \A i \in DOMAIN given : Repaired(given[i]) = IF given[i] = "/" THEN "\\" ELSE given[i]
    BY <1>9 DEF Repaired, Slashes
  <2>2. rest("/", "\\")
    BY <1>1, <1>6, <2>1
  <2> HIDE DEF rest, now
  <2> QED
    BY <1>1, <1>7, <1>9, <2>2
<1> QED
  BY <1>8, <1>9 DEF Fixes

LEMMA FilenameRight ==
  ASSUME PathInv, path_pc = "return", asked = "get_filename"
  PROVE  /\ SlashesOf(given) # {} /\ SlashesOf(result) = {}
         /\ SubSeq(given, 1, LastSlash(given, Len(given))) \o result = given
<1>1. given \in Seq(Chars) /\ Len(given) \in Nat
  BY DEF PathInv
<1>2. PICK k \in SlashesOf(given) :
        Passed(k - 1, Len(given)) /\ result = SubSeq(given, k + 1, Len(given))
  BY DEF PathInv, FilenameInv
<1>3. k \in 1 .. Len(given)
  BY <1>1, <1>2 DEF SlashesOf
<1>4. \A j \in DOMAIN given : j > k /\ j <= Len(given) => given[j] \notin Slashes
  <2>1. (k - 1) + 1 = k
    BY <1>3
  <2> QED
    BY <1>2, <2>1 DEF Passed
<1>5. LastSlash(given, Len(given)) = k
  BY <1>1, <1>2, <1>3, <1>4, LastSlashIs
<1>6. /\ result \in Seq(Chars) /\ Len(result) = Len(given) - k
      /\ \A i \in 1 .. Len(given) - k : result[i] = given[k + i]
  <2>1. \A i \in k + 1 .. Len(given) : given[i] \in Chars
    BY <1>1, <1>3
  <2>2. /\ result \in Seq(Chars)
        /\ Len(result) = IF k + 1 <= Len(given) THEN Len(given) - (k + 1) + 1 ELSE 0
        /\ \A i \in 1 .. Len(given) - (k + 1) + 1 : result[i] = given[(k + 1) + i - 1]
    BY <1>1, <1>2, <1>3, <2>1, SubSeqProperties
  <2>3. \A i \in 1 .. Len(given) - k : i \in 1 .. Len(given) - (k + 1) + 1 /\ (k + 1) + i - 1 = k + i
    BY <1>1, <1>3
  <2> QED
    BY <1>1, <1>3, <2>2, <2>3
<1>7. SlashesOf(result) = {}
  <2>1. DOMAIN result = 1 .. Len(given) - k
    BY <1>6
  <2>2. \A i \in 1 .. Len(given) - k : k + i \in DOMAIN given /\ k + i > k /\ k + i <= Len(given)
    BY <1>1, <1>3
  <2> QED
    BY <1>4, <1>6, <2>1, <2>2 DEF SlashesOf
<1>8. SubSeq(given, 1, k) \o result = given
  <2> DEFINE front == SubSeq(given, 1, k)
             whole == front \o result
  <2>1. /\ front \in Seq(Chars) /\ Len(front) = k
        /\ \A i \in 1 .. k : front[i] = given[i]
    BY <1>1, <1>3, SubSeqProperties
  <2> HIDE DEF front
  <2>2. /\ whole \in Seq(Chars) /\ Len(whole) = Len(front) + Len(result)
        /\ \A i \in 1 .. Len(front) + Len(result) :
             whole[i] = IF i <= Len(front) THEN front[i] ELSE result[i - Len(front)]
    BY <1>6, <2>1, ConcatProperties
  <2> HIDE DEF whole
  <2>3. Len(whole) = Len(given)
    BY <1>1, <1>3, <1>6, <2>1, <2>2
  <2>4. \A i \in 1 .. Len(given) : whole[i] = given[i]
    <3> SUFFICES ASSUME NEW i \in 1 .. Len(given)
                 PROVE  whole[i] = given[i]
      OBVIOUS
    <3>1. i \in 1 .. Len(front) + Len(result)
      BY <2>2, <2>3
    <3>2. CASE i <= k
      BY <2>1, <2>2, <3>1, <3>2
    <3>3. CASE ~(i <= k)
      <4>1. i - k \in 1 .. Len(given) - k /\ k + (i - k) = i
        BY <1>1, <1>3, <3>3
      <4> QED
        BY <1>6, <2>1, <2>2, <3>1, <3>3, <4>1
    <3> QED
      BY <3>2, <3>3
  <2>5. whole = given
    BY <1>1, <2>2, <2>3, <2>4, SeqEqual
  <2> QED
    BY <2>5 DEF whole, front
<1> QED
  BY <1>2, <1>5, <1>7, <1>8

(* Where the scan of a truncation ended.                                   *)
LEMMA TruncateEnds ==
  ASSUME PathInv, path_pc = "return", asked \in {"cut_last", "get_self_path"}
  PROVE  \E k \in SlashesOf(given) :
           /\ LastSlash(given, start - 1) = k /\ k <= start - 1 /\ k \in 1 .. Len(given)
           /\ StringOf(path) = SubSeq(given, 1, IF asked = "cut_last" THEN k ELSE k - 1)
           /\ Kept(IF asked = "cut_last" THEN k ELSE k - 1)
<1>1. given \in Seq(Chars) /\ Len(given) \in Nat /\ start \in 0 .. Len(given) + 1
  BY DEF PathInv, TruncateInv
<1>2. PICK k \in SlashesOf(given) :
         /\ k <= start - 1 /\ Passed(k - 1, start - 1)
         /\ Kept(IF asked = "cut_last" THEN k ELSE k - 1)
  BY DEF PathInv, TruncateInv
<1>3. PICK size \in 0 .. U16 - 1 : DOMAIN path = 0 .. size - 1 /\ start <= size
  BY DEF PathInv, TruncateInv
<1>4. k \in 1 .. Len(given)
  BY <1>1, <1>2 DEF SlashesOf
<1>5. LastSlash(given, start - 1) = k
  <2>1. (k - 1) + 1 = k /\ start - 1 \in Int
    BY <1>1, <1>4
  <2>2. \A j \in DOMAIN given : j > k /\ j <= start - 1 => given[j] \notin Slashes
    BY <1>2, <2>1 DEF Passed
  <2> QED
    BY <1>1, <1>2, <2>1, <2>2, LastSlashIs
<1> DEFINE n == IF asked = "cut_last" THEN k ELSE k - 1
<1>6. n \in 0 .. Len(given) /\ n < size /\ size \in Nat /\ Kept(n)
  BY <1>1, <1>2, <1>3, <1>4, PathTypes
<1>7. StringOf(path) = SubSeq(given, 1, n)
  <2> HIDE DEF n
  <2> QED
    BY <1>1, <1>3, <1>6, StringKept
<1> QED
  BY <1>2, <1>4, <1>5, <1>6, <1>7

LEMMA TruncateRight ==
  ASSUME PathInv, StartInv, path_pc = "return", asked = "cut_last"
  PROVE  LastSlash(given, start - 1) # 0 /\ TruncatedRight
<1> DEFINE n == Len(given)
           now == StringOf(path)
<1>1. given \in Seq(Chars) /\ n \in Nat /\ start \in n .. n + 1
  BY DEF PathInv, TruncateInv, StartInv
<1>2. PICK k \in SlashesOf(given) :
         /\ LastSlash(given, start - 1) = k /\ k <= start - 1 /\ k \in 1 .. n
         /\ now = SubSeq(given, 1, k) /\ Kept(k)
  BY TruncateEnds
<1> DEFINE m == LastSlash(given, n - 1)
<1>3. Len(now) = k
  BY <1>1, <1>2, FrontIs
<1>4. \A i \in DOMAIN path : i >= Len(now) => path[i] = "nul"
  <2>1. PICK size \in Nat : DOMAIN path = 0 .. size - 1
    BY DEF PathInv, TruncateInv
  <2> HIDE DEF now
  <2> QED
    BY <1>2, <1>3, <2>1 DEF Kept
<1>5. /\ m \in 0 .. n /\ (m = 0 \/ m <= n - 1)
      /\ \A j \in SlashesOf(given) : j <= n - 1 => m # 0 /\ j <= m
      /\ m # 0 => m \in SlashesOf(given)
  BY <1>1, LastSlashBounds DEF SlashesOf
<1>6. Len(NameTruncated(given)) = m
  <2> HIDE DEF m, n
  <2>1. Len(SubSeq(given, 1, m)) = m
    BY <1>1, <1>5, FrontIs DEF n
  <2> QED
    BY <2>1 DEF NameTruncated, m, n
<1>7. /\ \A j \in SlashesOf(given) : j <= start - 1 => j <= k
      /\ given[n] \in Slashes <=> n \in SlashesOf(given)
  <2>1. \A j \in SlashesOf(given) : j <= start - 1 => j <= LastSlash(given, start - 1)
    BY <1>1, LastSlashBounds DEF SlashesOf
  <2> QED
    BY <1>1, <1>2, <2>1 DEF SlashesOf
<1>8. k = m <=> ~(start > n /\ given[n] \in Slashes)
  <2> HIDE DEF m, n
  <2>1. \A j \in SlashesOf(given) : j \in 1 .. n
    BY <1>1 DEF SlashesOf, n
  <2> QED
    BY <1>1, <1>2, <1>5, <1>7, <2>1
<1>9. now = NameTruncated(given) <=> k = m
  <2>1. now = SubSeq(given, 1, k) /\ NameTruncated(given) = SubSeq(given, 1, m)
    BY <1>2 DEF NameTruncated
  <2> HIDE DEF m, n, now
  <2> QED
    BY <1>3, <1>6, <2>1
<1> QED
  BY <1>2, <1>4, <1>8, <1>9 DEF TruncatedRight

LEMMA SelfRight ==
  ASSUME PathInv, path_pc = "return", asked = "get_self_path"
  PROVE  SelfPathRight
<1> DEFINE n == Len(given)
           now == StringOf(path)
           last == LastSlash(given, n)
           parent == IF last = 1 THEN 1 ELSE last - 1
<1>1. given \in Seq(Chars) /\ n \in Nat /\ start \in 0 .. n + 1
  BY DEF PathInv, TruncateInv
<1>2. PICK k \in SlashesOf(given) :
         /\ LastSlash(given, start - 1) = k /\ k <= start - 1 /\ k \in 1 .. n
         /\ now = SubSeq(given, 1, k - 1)
  BY TruncateEnds
<1>3. Len(now) = k - 1
  BY <1>1, <1>2, FrontIs
<1>4. last \in 1 .. n /\ k <= last
  <2>1. /\ last = 0 => \A j \in SlashesOf(given) : j > n
        /\ last # 0 => last \in 1 .. n /\ \A j \in SlashesOf(given) : j <= n => j <= last
    BY <1>1, LastSlashBounds DEF SlashesOf
  <2>2. k \in Nat /\ k <= n /\ n \in Nat
    BY <1>1, <1>2
  <2> HIDE DEF last, n
  <2> QED
    BY <1>2, <2>1, <2>2
<1>5. last < start => k = last
  <2>1. last \in SlashesOf(given)
    BY <1>1, <1>4, LastSlashBounds
  <2>2. \A j \in SlashesOf(given) : j <= start - 1 => j <= LastSlash(given, start - 1)
    BY <1>1, LastSlashBounds DEF SlashesOf
  <2> HIDE DEF last, n
  <2> QED
    BY <1>1, <1>2, <1>4, <2>1, <2>2
<1>6. ParentDirectory(given) = SubSeq(given, 1, parent) /\ Len(SubSeq(given, 1, parent)) = parent
  <2>1. parent \in 0 .. n
    <3> HIDE DEF last, n
    <3> QED
      BY <1>1, <1>4
  <2> HIDE DEF parent, n
  <2>2. Len(SubSeq(given, 1, parent)) = parent
    BY <1>1, <2>1, FrontIs DEF n
  <2> QED
    BY <2>2, Zenon DEF ParentDirectory, parent, last, n
<1>7. now = ParentDirectory(given) <=> 1 < last /\ last < start
  <2>1. now = ParentDirectory(given) <=> k - 1 = parent
    <3> HIDE DEF now, parent
    <3> QED
      BY <1>2, <1>3, <1>6
  <2>2. k - 1 = parent <=> 1 < last /\ last < start
    <3> HIDE DEF last, n
    <3> QED
      BY <1>1, <1>2, <1>4, <1>5
  <2> QED
    BY <2>1, <2>2
<1> QED
  BY <1>2, <1>7 DEF SelfPathRight

LEMMA FaultRight ==
  ASSUME PathInv, path_pc = "fault"
  PROVE  NowhereToStop
<1>1. CASE asked \in Fixes
  BY <1>1 DEF PathInv, FixInv, NowhereToStop, Fixes
<1>2. CASE asked = "cut_last"
  <2>1. /\ given \in Seq(Chars) /\ start \in 0 .. Len(given) + 1 /\ Passed(-1, start - 1)
    BY <1>2 DEF PathInv, TruncateInv
  <2>2. \A j \in DOMAIN given : j <= start - 1 => given[j] \notin Slashes
    BY <2>1 DEF Passed
  <2>3. LastSlash(given, start - 1) = 0
    BY <2>2, LastSlashNone
  <2> QED
    BY <1>2, <2>3 DEF NowhereToStop
<1>3. CASE asked = "get_filename"
  BY <1>3 DEF PathInv, FilenameInv, NowhereToStop
<1>4. asked \in Fixes \cup {"cut_last", "get_filename"}
  BY DEF PathInv, HasSlashesInv, TruncateInv
<1> QED
  BY <1>1, <1>2, <1>3, <1>4

LEMMA PathInvRight ==
  ASSUME PathInv, StartInv
  PROVE  PathsRight
<1>1. CASE path_pc = "fault"
  BY <1>1, FaultRight DEF PathsRight
<1>2. CASE path_pc \notin {"return", "fault"}
  BY <1>2 DEF PathsRight
<1>3. CASE path_pc = "return"
  <2>1. asked \in Fixes \cup {"has_slashes", "get_filename", "cut_last", "get_self_path",
                              "no_self_path"}
    BY <1>3 DEF PathInv
  <2>2. CASE asked \in Fixes
    BY <1>3, <2>2, FixRight DEF PathsRight, NowhereToStop, Fixes
  <2>3. CASE asked = "cut_last"
    BY <1>3, <2>3, TruncateRight DEF PathsRight, NowhereToStop
  <2>4. CASE asked = "get_self_path"
    BY <1>3, <2>4, SelfRight DEF PathsRight, NowhereToStop
  <2>5. CASE asked = "get_filename"
    BY <1>3, <2>5, FilenameRight DEF PathsRight, NowhereToStop
  <2>6. CASE asked = "has_slashes"
    <3>1. result = (SlashesOf(given) # {})
      BY <1>3, <2>6, Zenon DEF PathInv, HasSlashesInv
    <3>2. ~NowhereToStop
      BY <2>6 DEF NowhereToStop
    <3> QED
      BY <1>3, <2>6, <3>1, <3>2, Zenon DEF PathsRight
  <2>7. CASE asked = "no_self_path"
    BY <1>3, <2>7 DEF PathsRight, NowhereToStop
  <2> QED
    BY <2>1, <2>2, <2>3, <2>4, <2>5, <2>6, <2>7
<1> QED
  BY <1>1, <1>2, <1>3

(* For every path and every word that can count it: what the functions of  *)
(* path.c return, exactly when that is what path.h says, and that they     *)
(* leave the memory of the path exactly when there is no slash to stop at, *)
(* or nothing to fix.                                                      *)
THEOREM PathsAreRight == PathSpec => []PathsRight
<1>1. PathInit => PathInv /\ StartInv
  BY PathInitInv DEF PathInit, StartInv
<1>2. PathInv /\ StartInv /\ [PathNext]_pathVars => PathInv' /\ StartInv'
  BY PathNextInv, StartNextInv
<1>3. PathInv /\ StartInv => PathsRight
  BY PathInvRight
<1> QED
  BY <1>1, <1>2, <1>3, PTL DEF PathSpec

-----------------------------------------------------------------------------
(***************************************************************************)
(* Input.                                                                  *)
(***************************************************************************)
Plain == (PrintableKeys \cup FunctionKeys) \ {"caps_lock", "num_lock"}

MouseFlags == {MouseFlag[b] : b \in DOMAIN MouseFlag}

KeysAgree == keys \cap Plain = input \cap Plain

InputInv == KeysAgree /\ MouseAgrees /\ ModsAgree /\ PadsAgree

LEMMA InputInvAgrees ==
  ASSUME InputInv
  PROVE  InputAgrees
BY DEF InputInv, InputAgrees, Plain, KeysAgree

(* No name stands for two flags of different kinds.                        *)
LEMMA Names ==
  /\ DOMAIN MOD = {"shift", "control", "alt", "super", "caps_lock", "num_lock"}
  /\ DOMAIN MouseFlag = {"left", "right", "middle", "four", "five"}
  /\ MouseFlags = {"click_left", "click_right", "click_middle", "mouse_button_4", "mouse_button_5"}
BY DEF MOD, MouseFlag, MouseFlags

LEMMA PlainNames ==
  /\ Plain \cap DOMAIN MOD = {}
  /\ Plain \cap MouseFlags = {}
  /\ Plain \cap (Shifts \cup Controls \cup Alts) = {}
BY Names DEF Plain, PrintableKeys, FunctionKeys, Shifts, Controls, Alts

LEMMA OtherNames ==
  /\ MouseFlags \cap DOMAIN MOD = {}
  /\ MouseFlags \cap (PrintableKeys \cup FunctionKeys) = {}
  /\ MouseFlags \cap (Shifts \cup Controls) = {}
  /\ DOMAIN MOD \cap (Shifts \cup Controls) = {}
  /\ \A b, c \in DOMAIN MouseFlag : MouseFlag[b] = MouseFlag[c] => b = c
  /\ \A b \in DOMAIN MouseFlag : MouseFlag[b] \in MouseFlags
<1>1. MouseFlags \cap DOMAIN MOD = {}
  BY Names
<1>2. MouseFlags \cap (PrintableKeys \cup FunctionKeys) = {}
  BY Names DEF PrintableKeys, FunctionKeys
<1>3. MouseFlags \cap (Shifts \cup Controls) = {} /\ DOMAIN MOD \cap (Shifts \cup Controls) = {}
  BY Names DEF Shifts, Controls
<1>4. \A b, c \in DOMAIN MouseFlag : MouseFlag[b] = MouseFlag[c] => b = c
  BY DEF MouseFlag
<1>5. \A b \in DOMAIN MouseFlag : MouseFlag[b] \in MouseFlags
  BY DEF MouseFlags
<1> QED
  BY <1>1, <1>2, <1>3, <1>4, <1>5

LEMMA InputInitInv ==
  ASSUME InputInit
  PROVE  InputInv
<1>1. KeysAgree /\ MouseAgrees /\ ModsAgree
  BY DEF InputInit, KeysAgree, MouseAgrees, ModsAgree
<1>2. DOMAIN pads = {} /\ gp = {}
  BY DEF InputInit
<1>3. PadsAgree
  BY <1>2 DEF PadsAgree
<1> QED
  BY <1>1, <1>3 DEF InputInv

(* A key event: the switch assigns the flag of the key alone, and what     *)
(* follows it touches the flags of modifiers only.                         *)
LEMMA KeyInv ==
  ASSUME InputInv, NEW key \in Keys, NEW action \in 0 .. 2, NEW mods \in SUBSET Mods,
         input_update(key, action, mods)
  PROVE  InputInv'
<1> DEFINE down == IF action = 0 THEN keys \ {key} ELSE keys \cup {key}
           switched == Switched(input, key, action # 0)
<1>1. /\ keys' = down /\ input' = Toggled(switched, mods) /\ polled' = FALSE
      /\ shifted' = ("shift" \in mods)
      /\ UNCHANGED <<buttons, pads, gp, axes, clicked>>
  BY DEF input_update, set_input_by_glfw_code
<1>2. \A k : k \in PrintableKeys \cup FunctionKeys \cup MouseFlags =>
               (k \in switched <=> IF k = key /\ k \notin MouseFlags THEN action # 0 ELSE k \in input)
  BY OtherNames DEF Switched, Assigned
<1>3. \A k : k \notin DOMAIN MOD => (k \in input' <=> k \in switched)
  BY <1>1, ModsAssumption DEF Toggled
<1>4. KeysAgree'
  <2>1. \A k \in Plain : k \in keys' <=> k \in input'
    <3> SUFFICES ASSUME NEW k \in Plain
                 PROVE  k \in keys' <=> k \in input'
      OBVIOUS
    <3>1. k \notin DOMAIN MOD /\ k \notin MouseFlags /\ k \in PrintableKeys \cup FunctionKeys
      BY PlainNames DEF Plain
    <3>2. k \in keys <=> k \in input
      BY DEF InputInv, KeysAgree
    <3>3. k \in keys' <=> IF k = key THEN action # 0 ELSE k \in keys
      BY <1>1
    <3> QED
      BY <1>2, <1>3, <3>1, <3>2, <3>3
  <2> QED
    BY <2>1 DEF KeysAgree
<1>5. MouseAgrees'
  <2>1. \A k \in MouseFlags : k \in input' <=> k \in input
    BY <1>2, <1>3, OtherNames
  <2> QED
    BY <1>1, <2>1, OtherNames DEF InputInv, MouseAgrees
<1>6. ModsAgree'
  <2>1. \A m \in DOMAIN MOD : m \in input' => m = "shift" /\ m \in mods
    <3>1. \A m \in DOMAIN MOD : MOD[m] % 2 = 1 => m = "shift"
      <4>1. /\ MOD["control"] = 2 /\ MOD["alt"] = 4 /\ MOD["super"] = 8
            /\ MOD["caps_lock"] = 16 /\ MOD["num_lock"] = 32
        BY DEF MOD
      <4> QED
        BY <4>1, Names
    <3> QED
      BY <1>1, <3>1 DEF Toggled
  <2> QED
    BY <1>1, <2>1, Names DEF ModsAgree
<1>7. PadsAgree'
  BY <1>1 DEF InputInv, PadsAgree
<1> QED
  BY <1>4, <1>5, <1>6, <1>7 DEF InputInv

LEMMA MouseInv ==
  ASSUME InputInv, NEW button \in Buttons, NEW action \in {0, 1},
         mouse_button_update(button, action)
  PROVE  InputInv'
<1>1. /\ buttons' = Assigned(buttons, button, action = 1)
      /\ input' = (input \ MouseFlags)
           \cup {MouseFlag[b] : b \in {b \in DOMAIN MouseFlag : action = 1 /\ b = button}}
      /\ clicked' = button
      /\ UNCHANGED <<keys, pads, gp, axes, polled, shifted>>
  BY DEF mouse_button_update, MouseFlags
<1>2. \A k : k \notin MouseFlags => (k \in input' <=> k \in input)
  BY <1>1, OtherNames
<1>3. KeysAgree'
  BY <1>1, <1>2, PlainNames DEF InputInv, KeysAgree
<1>4. MouseAgrees'
  <2>1. \A b \in DOMAIN MouseFlag : MouseFlag[b] \in input' <=> action = 1 /\ b = button
    BY <1>1, OtherNames
  <2>2. button \in buttons' <=> action = 1
    BY <1>1 DEF Assigned
  <2> QED
    BY <1>1, <2>1, <2>2 DEF MouseAgrees
<1>5. ModsAgree'
  <2>1. \A m \in DOMAIN MOD : m \in input' <=> m \in input
    BY <1>2, OtherNames
  <2>2. input' \cap DOMAIN MOD = input \cap DOMAIN MOD
    BY <2>1
  <2> QED
    BY <1>1, <2>1, <2>2, Names DEF InputInv, ModsAgree
<1>6. PadsAgree'
  BY <1>1 DEF InputInv, PadsAgree
<1> QED
  BY <1>3, <1>4, <1>5, <1>6 DEF InputInv

LEMMA UpdateModsInv ==
  ASSUME InputInv, update_mods
  PROVE  InputInv'
<1> DEFINE halves(m) == CASE m = "shift" -> Shifts [] m = "control" -> Controls [] OTHER -> Alts
           three == {"shift", "control", "alt"}
<1>1. /\ input' = (input \ (Shifts \cup Controls \cup {"shift", "control", "alt"}))
                     \cup (keys \cap (Shifts \cup Controls))
                     \cup {m \in three : keys \cap halves(m) # {}}
      /\ polled' = TRUE
      /\ UNCHANGED <<keys, buttons, pads, gp, axes, shifted, clicked>>
  BY DEF update_mods
<1>2. \A k : k \notin Shifts \cup Controls \cup three => (k \in input' <=> k \in input)
  BY <1>1
<1>3. three \subseteq DOMAIN MOD
  BY Names
<1>4. KeysAgree'
  <2>1. \A k \in Plain : k \notin Shifts \cup Controls \cup three
    BY <1>3, PlainNames
  <2> QED
    BY <1>1, <1>2, <2>1 DEF InputInv, KeysAgree
<1>5. MouseAgrees'
  <2>1. \A k \in MouseFlags : k \notin Shifts \cup Controls \cup three
    BY <1>3, OtherNames
  <2> QED
    BY <1>1, <1>2, <2>1, OtherNames DEF InputInv, MouseAgrees
<1>6. ModsAgree'
  <2>1. \A m \in three : m \in input' <=> keys \cap halves(m) # {}
    BY <1>1, <1>3, OtherNames
  <2>2. halves("shift") = Shifts /\ halves("control") = Controls /\ halves("alt") = Alts
    OBVIOUS
  <2>3. /\ "shift" \in input' <=> keys \cap halves("shift") # {}
        /\ "control" \in input' <=> keys \cap halves("control") # {}
        /\ "alt" \in input' <=> keys \cap halves("alt") # {}
    BY <2>1
  <2>4. \A m \in {"super", "caps_lock", "num_lock"} : m \notin input'
    <3>1. \A m \in {"super", "caps_lock", "num_lock"} : m \in DOMAIN MOD /\ m \notin three
      BY Names
    <3>2. \A m \in {"super", "caps_lock", "num_lock"} : m \notin input
      BY DEF InputInv, ModsAgree
    <3> QED
      BY <1>2, <3>1, <3>2, OtherNames
  <2> QED
    BY <1>1, <2>2, <2>3, <2>4 DEF ModsAgree
<1>7. PadsAgree'
  BY <1>1 DEF InputInv, PadsAgree
<1> QED
  BY <1>4, <1>5, <1>6, <1>7 DEF InputInv

(* The gamepads are summed up from nothing.                                *)
LEMMA GamepadInv ==
  ASSUME InputInv, NEW plugged \in SUBSET Joysticks, NEW state \in [plugged -> PadStates],
         gamepad_update(state)
  PROVE  InputInv'
<1> DEFINE count(a, v) == Cardinality({i \in Polled(state) : state[i].axes[a] = v})
<1>1. /\ pads' = state
      /\ gp' = UNION {state[i].buttons : i \in Polled(state)}
      /\ axes' = [a \in Axes |-> Clamped(count(a, 1) - count(a, -1))]
      /\ UNCHANGED <<keys, buttons, input, polled, shifted, clicked>>
  BY DEF gamepad_update
<1> DEFINE pressing(b) == {i \in DOMAIN state : b \in state[i].buttons}
           moving(a) == {i \in DOMAIN state : state[i].axes[a] # 0}
<1>2. \A i \in DOMAIN state : i \in Polled(state) <=> i # JOYSTICK_LAST
  BY InputAssumption DEF Polled
<1>3. Polled(state) \subseteq DOMAIN state
  BY DEF Polled
<1>4. \A b \in PadButtons : (b \in gp' <=> pressing(b) # {}) <=> pressing(b) # {JOYSTICK_LAST}
  <2> SUFFICES ASSUME NEW b \in PadButtons
               PROVE  (b \in gp' <=> pressing(b) # {}) <=> pressing(b) # {JOYSTICK_LAST}
    OBVIOUS
  <2>1. b \in gp' <=> \E i \in pressing(b) : i # JOYSTICK_LAST
    BY <1>1, <1>2, <1>3
  <2> HIDE DEF pressing
  <2> QED
    BY <2>1
<1>5. ASSUME NEW a \in Axes, moving(a) = {JOYSTICK_LAST}
      PROVE  axes'[a] = 0
  <2> DEFINE valued(v) == {j \in Polled(state) : state[j].axes[a] = v}
  <2>1. \A j \in Polled(state) : j \in DOMAIN state /\ j # JOYSTICK_LAST
    BY <1>2, <1>3
  <2>2. \A j \in Polled(state) : state[j].axes[a] = 0
    BY <1>5, <2>1
  <2>3. valued(1) = {} /\ valued(-1) = {}
    BY <2>2
  <2>4. Cardinality(valued(1)) = 0 /\ Cardinality(valued(-1)) = 0
    BY <2>3, FS_EmptySet
  <2> HIDE DEF valued
  <2>5. count(a, 1) = 0 /\ count(a, -1) = 0
    BY <2>4 DEF valued
  <2> HIDE DEF count
  <2> QED
    BY <1>1, <2>5 DEF Clamped
<1>6. ASSUME NEW a \in Axes, NEW i \in DOMAIN state,
             moving(a) \ {JOYSTICK_LAST} = {i}
      PROVE  axes'[a] = state[i].axes[a]
  <2> DEFINE valued(v) == {j \in Polled(state) : state[j].axes[a] = v}
  <2>1. \A j : j \in Polled(state) /\ state[j].axes[a] # 0 <=> j = i
    <3>1. \A j : j \in Polled(state) <=> j \in DOMAIN state /\ j # JOYSTICK_LAST
      BY <1>2, <1>3
    <3> QED
      BY <1>6, <3>1
  <2>2. i \in Polled(state) /\ state[i].axes[a] # 0
    BY <2>1
  <2>3. state[i].axes[a] \in -1 .. 1
    BY InputAssumption
  <2>4. CASE state[i].axes[a] = 1
    <3>1. valued(1) = {i} /\ valued(-1) = {}
      BY <2>2, <2>4, <2>1
    <3>2. Cardinality(valued(1)) = 1 /\ Cardinality(valued(-1)) = 0
      BY <3>1, FS_Singleton, FS_EmptySet
    <3> HIDE DEF valued
    <3>3. count(a, 1) = 1 /\ count(a, -1) = 0
      BY <3>2 DEF valued
    <3> HIDE DEF count
    <3> QED
      BY <1>1, <2>4, <3>3 DEF Clamped
  <2>5. CASE state[i].axes[a] = -1
    <3>1. valued(-1) = {i} /\ valued(1) = {}
      BY <2>2, <2>5, <2>1
    <3>2. Cardinality(valued(-1)) = 1 /\ Cardinality(valued(1)) = 0
      BY <3>1, FS_Singleton, FS_EmptySet
    <3> HIDE DEF valued
    <3>3. count(a, 1) = 0 /\ count(a, -1) = 1
      BY <3>2 DEF valued
    <3> HIDE DEF count
    <3> QED
      BY <1>1, <2>5, <3>3 DEF Clamped
  <2> QED
    BY <2>2, <2>3, <2>4, <2>5
<1>7. PadsAgree'
  <2> HIDE DEF count
  <2> QED
    BY <1>1, <1>4, <1>6, <1>5, Zenon DEF PadsAgree
<1>8. KeysAgree' /\ MouseAgrees' /\ ModsAgree'
  BY <1>1 DEF InputInv, KeysAgree, MouseAgrees, ModsAgree
<1> QED
  BY <1>7, <1>8 DEF InputInv

LEMMA InputNextInv ==
  ASSUME InputInv, [InputNext]_inputVars
  PROVE  InputInv'
<1>1. CASE UNCHANGED inputVars
  BY <1>1 DEF inputVars, InputInv, KeysAgree, MouseAgrees, ModsAgree, PadsAgree, Polled
<1> QED
  BY <1>1, KeyInv, MouseInv, UpdateModsInv, GamepadInv DEF InputNext

(* After any sequence of events the flags agree with the hardware in       *)
(* exactly the cases that InputAgrees names: not for the locks, for the    *)
(* mouse buttons that a later event hid, for the modifiers between a key   *)
(* event and update_mods, and for what the last joystick does alone.       *)
THEOREM InputIsRight == InputSpec => []InputAgrees
<1>1. InputInit => InputInv
  BY InputInitInv
<1>2. InputInv /\ [InputNext]_inputVars => InputInv'
  BY InputNextInv
<1>3. InputInv => InputAgrees
  BY InputInvAgrees
<1> QED
  BY <1>1, <1>2, <1>3, PTL DEF InputSpec

(***************************************************************************)
(* UTF-8.  Every codepoint is read back from its standard bytes, the bytes *)
(* of every character are at its place in the text, and the walker is in   *)
(* what is left of a first character, before a whole one, or past the end. *)
(***************************************************************************)
Scalars == {c \in Nat : 1 <= c /\ c <= UNICODE_MAX}

LEMMA CharacterBytes ==
  ASSUME NEW c \in Scalars
  PROVE  /\ c \in Nat /\ StandardLen(c) \in 1 .. 4
         /\ DOMAIN StandardBytes(c) = 1 .. StandardLen(c)
         /\ c > 0
         /\ StandardLen(c) = 1 => c < 128 /\ StandardBytes(c)[1] = c
         /\ StandardLen(c) = 2 =>
              /\ c >= 128 /\ c < 2048
              /\ StandardBytes(c)[1] = 192 + (c \div 64)
              /\ StandardBytes(c)[2] = 128 + (c % 64)
         /\ StandardLen(c) = 3 =>
              /\ c >= 2048 /\ c < 65536
              /\ StandardBytes(c)[1] = 224 + (c \div 4096)
              /\ StandardBytes(c)[2] = 128 + ((c \div 64) % 64)
              /\ StandardBytes(c)[3] = 128 + (c % 64)
         /\ StandardLen(c) = 4 =>
              /\ c >= 65536 /\ c <= UNICODE_MAX
              /\ StandardBytes(c)[1] = 240 + (c \div 262144)
              /\ StandardBytes(c)[2] = 128 + ((c \div 4096) % 64)
              /\ StandardBytes(c)[3] = 128 + ((c \div 64) % 64)
              /\ StandardBytes(c)[4] = 128 + (c % 64)
<1>0. c \in Nat /\ 1 <= c /\ c <= UNICODE_MAX
  BY DEF Scalars
<1>1. /\ StandardLen(c) \in 1 .. 4
      /\ StandardLen(c) = 1 => c < 128
      /\ StandardLen(c) = 2 => c >= 128 /\ c < 2048
      /\ StandardLen(c) = 3 => c >= 2048 /\ c < 65536
      /\ StandardLen(c) = 4 => c >= 65536 /\ c <= UNICODE_MAX
  BY <1>0, SMT DEF StandardLen
<1>2. DOMAIN StandardBytes(c) = 1 .. StandardLen(c)
  BY DEF StandardBytes
<1>3. 64 ^ 0 = 1 /\ 64 ^ 1 = 64 /\ 64 ^ 2 = 4096 /\ 64 ^ 3 = 262144
  BY SMT
<1>4. ASSUME StandardLen(c) = 1
      PROVE  StandardBytes(c)[1] = c
  BY <1>0, <1>3, <1>4, SMT DEF StandardBytes
<1>5. ASSUME StandardLen(c) = 2
      PROVE  /\ StandardBytes(c)[1] = 192 + (c \div 64)
             /\ StandardBytes(c)[2] = 128 + (c % 64)
  BY <1>0, <1>3, <1>5, SMT DEF StandardBytes
<1>6. ASSUME StandardLen(c) = 3
      PROVE  /\ StandardBytes(c)[1] = 224 + (c \div 4096)
             /\ StandardBytes(c)[2] = 128 + ((c \div 64) % 64)
             /\ StandardBytes(c)[3] = 128 + (c % 64)
  BY <1>0, <1>3, <1>6, SMT DEF StandardBytes
<1>7. ASSUME StandardLen(c) = 4
      PROVE  /\ StandardBytes(c)[1] = 240 + (c \div 262144)
             /\ StandardBytes(c)[2] = 128 + ((c \div 4096) % 64)
             /\ StandardBytes(c)[3] = 128 + ((c \div 64) % 64)
             /\ StandardBytes(c)[4] = 128 + (c % 64)
  BY <1>0, <1>3, <1>7, SMT DEF StandardBytes
<1> QED
  BY <1>0, <1>1, <1>2, <1>4, <1>5, <1>6, <1>7, SMT

LEMMA FirstBytes ==
  /\ \A b \in 0 .. 127 : utf8_byte_len(b) = 1
  /\ \A b \in 192 .. 223 : utf8_byte_len(b) = 2
  /\ \A b \in 224 .. 239 : utf8_byte_len(b) = 3
  /\ \A b \in 240 .. 247 : utf8_byte_len(b) = 4
  /\ \A b \in 128 .. 191 : utf8_byte_len(b) = 0
BY DEF utf8_byte_len

(* The ranges of the bytes of a character.                                 *)
LEMMA CharacterRanges ==
  ASSUME NEW c \in Scalars
  PROVE  /\ StandardLen(c) = 1 => StandardBytes(c)[1] \in 1 .. 127
         /\ StandardLen(c) = 2 =>
              StandardBytes(c)[1] \in 192 .. 223 /\ StandardBytes(c)[2] \in 128 .. 191
         /\ StandardLen(c) = 3 =>
              /\ StandardBytes(c)[1] \in 224 .. 239
              /\ \A k \in 2 .. 3 : StandardBytes(c)[k] \in 128 .. 191
         /\ StandardLen(c) = 4 =>
              /\ StandardBytes(c)[1] \in 240 .. 247
              /\ \A k \in 2 .. 4 : StandardBytes(c)[k] \in 128 .. 191
<1> DEFINE n == StandardLen(c)
           b == StandardBytes(c)
<1>1. n \in 1 .. 4 /\ DOMAIN b = 1 .. n /\ c \in Nat /\ c > 0
  BY CharacterBytes
<1>2. \A x \in Nat : x % 64 \in 0 .. 63
  OBVIOUS
<1>3. ASSUME n = 1
      PROVE  b[1] \in 1 .. 127
  <2>1. b[1] = c /\ c < 128
    BY <1>3, CharacterBytes
  <2> QED
    BY <1>1, <2>1
<1>4. ASSUME n = 2
      PROVE  b[1] \in 192 .. 223 /\ b[2] \in 128 .. 191
  <2>1. b[1] = 192 + (c \div 64) /\ b[2] = 128 + (c % 64) /\ c < 2048
    BY <1>4, CharacterBytes
  <2>2. c \div 64 \in 0 .. 31
    BY <1>1, <2>1
  <2> QED
    BY <1>1, <1>2, <2>1, <2>2
<1>5. ASSUME n = 3
      PROVE  b[1] \in 224 .. 239 /\ \A k \in 2 .. 3 : b[k] \in 128 .. 191
  <2>1. /\ b[1] = 224 + (c \div 4096) /\ b[2] = 128 + ((c \div 64) % 64)
        /\ b[3] = 128 + (c % 64) /\ c < 65536
    BY <1>5, CharacterBytes
  <2>2. c \div 4096 >= 0 /\ c \div 4096 < 16 /\ c \div 64 \in Nat /\ c \div 4096 \in Nat
    BY <1>1, <2>1, SMT
  <2>3. c % 64 \in 0 .. 63 /\ (c \div 64) % 64 \in 0 .. 63
    BY <1>1, <1>2, <2>2
  <2> HIDE DEF b, n
  <2> QED
    BY <2>1, <2>2, <2>3, SMT
<1>6. ASSUME n = 4
      PROVE  b[1] \in 240 .. 247 /\ \A k \in 2 .. 4 : b[k] \in 128 .. 191
  <2>1. /\ b[1] = 240 + (c \div 262144) /\ b[2] = 128 + ((c \div 4096) % 64)
        /\ b[3] = 128 + ((c \div 64) % 64) /\ b[4] = 128 + (c % 64) /\ c <= UNICODE_MAX
    BY <1>6, CharacterBytes
  <2>2. /\ c \div 262144 < 8
        /\ c \div 64 \in Nat /\ c \div 4096 \in Nat /\ c \div 262144 \in Nat
    BY <1>1, <2>1, SMT DEF UNICODE_MAX
  <2>3. c % 64 \in 0 .. 63 /\ (c \div 64) % 64 \in 0 .. 63 /\ (c \div 4096) % 64 \in 0 .. 63
    BY <1>1, <1>2, <2>2, SMT
  <2> HIDE DEF b, n
  <2> QED
    BY <2>1, <2>2, <2>3, SMT
<1> QED
  BY <1>3, <1>4, <1>5, <1>6

(* In the encoding of the standard the first byte says how long the        *)
(* character is, no other byte can be taken for a first one, and none is   *)
(* the NUL.                                                                *)
LEMMA CharacterShape ==
  ASSUME NEW c \in Scalars
  PROVE  /\ StandardBytes(c) \in Seq(1 .. 255)
         /\ Len(StandardBytes(c)) = StandardLen(c)
         /\ utf8_byte_len(StandardBytes(c)[1]) = StandardLen(c)
         /\ \A k \in 2 .. StandardLen(c) : utf8_byte_len(StandardBytes(c)[k]) = 0
<1> DEFINE n == StandardLen(c)
           b == StandardBytes(c)
<1>1. n \in 1 .. 4
  BY CharacterBytes
<1>2. b = [k \in 1 .. n |-> b[k]]
  BY DEF StandardBytes
<1>3. /\ n = 1 => b[1] \in 1 .. 127
      /\ n = 2 => b[1] \in 192 .. 223 /\ b[2] \in 128 .. 191
      /\ n = 3 => b[1] \in 224 .. 239 /\ \A k \in 2 .. 3 : b[k] \in 128 .. 191
      /\ n = 4 => b[1] \in 240 .. 247 /\ \A k \in 2 .. 4 : b[k] \in 128 .. 191
  BY CharacterRanges
<1> HIDE DEF n, b
<1>4. \A k \in 1 .. n : b[k] \in 1 .. 255
  BY <1>1, <1>3
<1>5. b \in [1 .. n -> 1 .. 255]
  BY <1>2, <1>4
<1>6. b \in Seq(1 .. 255) /\ Len(b) = n
  BY <1>1, <1>5
<1>7. utf8_byte_len(b[1]) = n
  BY <1>1, <1>3, FirstBytes
<1>8. \A k \in 2 .. n : utf8_byte_len(b[k]) = 0
  BY <1>1, <1>3, FirstBytes
<1> QED
  BY <1>6, <1>7, <1>8 DEF n, b

(* A codepoint is its digits to the base 64.                               *)
LEMMA Digits ==
  ASSUME NEW c \in Nat
  PROVE  /\ c \div 64 \in Nat /\ c \div 4096 \in Nat /\ c \div 262144 \in Nat
         /\ c % 64 \in 0 .. 63 /\ (c \div 64) % 64 \in 0 .. 63 /\ (c \div 4096) % 64 \in 0 .. 63
         /\ c = (c \div 64) * 64 + (c % 64)
         /\ c \div 64 = (c \div 4096) * 64 + ((c \div 64) % 64)
         /\ c \div 4096 = (c \div 262144) * 64 + ((c \div 4096) % 64)
<1>1. \A x \in Nat : x \div 64 \in Nat /\ x % 64 \in 0 .. 63 /\ x = (x \div 64) * 64 + (x % 64)
  OBVIOUS
<1>2. c \div 4096 = (c \div 64) \div 64
  BY SMT
<1>3. c \div 262144 = (c \div 4096) \div 64
  BY SMT
<1> QED
  BY <1>1, <1>2, <1>3, SMT

(* The decoder gets back what the standard encoded.                        *)
LEMMA ReadsBack ==
  ASSUME NEW c \in Scalars, NEW b \in Seq(Nat), NEW from \in Nat,
         \A i \in 0 .. StandardLen(c) - 1 :
           from + i < Len(b) /\ b[from + i + 1] = StandardBytes(c)[i + 1]
  PROVE  utf8_codepoint(b, from) = <<c, StandardLen(c)>>
<1> DEFINE n == StandardLen(c)
           e == StandardBytes(c)
           byte(i) == IF from + i < Len(b) THEN b[from + i + 1] ELSE 0
           unread(m, i) == utf8_starting_shift(m) - data_bits(m, 0) - i * data_bits(m, 1)
           cur_shift(m, i) == IF unread(m, i) > 0 THEN unread(m, i) ELSE 0
           part(m, i) ==
             IF i < m THEN (byte(i) % 2 ^ data_bits(m, i)) * 2 ^ cur_shift(m, i) ELSE 0
<1>1. n \in 1 .. 4 /\ c \in Nat /\ \A i \in 0 .. n - 1 : byte(i) = e[i + 1]
  BY CharacterBytes
<1>2. byte(0) = e[1]
  BY <1>1
<1>3. utf8_byte_len(byte(0)) = n
  BY <1>2, CharacterShape
<1>4. utf8_codepoint(b, from) =
        LET m == utf8_byte_len(byte(0)) IN
          CASE m <= 0 -> <<UNICODE_MISSING_CHARACTER, 1>>
            [] m = 1 -> <<byte(0), 1>>
            [] OTHER -> <<part(m, 0) + part(m, 1) + part(m, 2) + part(m, 3), m>>
  BY DEF utf8_codepoint
<1>5. /\ n = 1 => utf8_codepoint(b, from) = <<byte(0), 1>>
      /\ n \in 2 .. 4 => utf8_codepoint(b, from) =
           <<part(n, 0) + part(n, 1) + part(n, 2) + part(n, 3), n>>
  <2> HIDE DEF byte, part, n
  <2> QED
    BY <1>3, <1>4
<1>6. \A x \in Nat : x % 64 \in 0 .. 63 /\ x \div 64 \in Nat
  OBVIOUS
<1>11. /\ n = 2 => e[1] = 192 + (c \div 64) /\ e[2] = 128 + (c % 64) /\ c < 2048
       /\ n = 3 => /\ e[1] = 224 + (c \div 4096) /\ e[2] = 128 + ((c \div 64) % 64)
                   /\ e[3] = 128 + (c % 64) /\ c < 65536
       /\ n = 4 => /\ e[1] = 240 + (c \div 262144) /\ e[2] = 128 + ((c \div 4096) % 64)
                   /\ e[3] = 128 + ((c \div 64) % 64) /\ e[4] = 128 + (c % 64)
                   /\ c <= UNICODE_MAX
  BY CharacterBytes
<1>12. \A m, i \in 0 .. 4 :
         /\ i < m => part(m, i) = (byte(i) % 2 ^ data_bits(m, i)) * 2 ^ cur_shift(m, i)
         /\ ~(i < m) => part(m, i) = 0
  OBVIOUS
<1> HIDE DEF byte, e, n
<1>7. CASE n = 1
  <2>1. byte(0) = c
    BY <1>2, <1>7, CharacterBytes DEF e, n
  <2> QED
    BY <1>5, <1>7, <2>1 DEF n
<1>8. CASE n = 2
  <2>1. byte(0) = 192 + (c \div 64) /\ byte(1) = 128 + (c % 64) /\ c < 2048
    BY <1>1, <1>2, <1>8, CharacterBytes DEF e, n
  <2>2. /\ utf8_starting_shift(2) = 11 /\ data_bits(2, 0) = 5 /\ data_bits(2, 1) = 6
    BY DEF utf8_starting_shift, data_bits
  <2>3. cur_shift(2, 0) = 6 /\ cur_shift(2, 1) = 0
    BY <2>2
  <2> HIDE DEF cur_shift
  <2> HIDE DEF part
  <2>4. part(2, 0) = (byte(0) % 2 ^ 5) * 2 ^ 6 /\ part(2, 1) = (byte(1) % 2 ^ 6) * 2 ^ 0
        /\ part(2, 2) = 0 /\ part(2, 3) = 0
    <3>1. /\ part(2, 0) = (byte(0) % 2 ^ data_bits(2, 0)) * 2 ^ cur_shift(2, 0)
          /\ part(2, 1) = (byte(1) % 2 ^ data_bits(2, 1)) * 2 ^ cur_shift(2, 1)
          /\ part(2, 2) = 0
          /\ part(2, 3) = 0
      BY <1>12
    <3> QED
      BY <3>1, <2>2, <2>3, Zenon
  <2>5. c \div 64 \in 0 .. 31
    <3>1. \A x \in Nat : x < 2048 => x \div 64 \in 0 .. 31
      BY SMT
    <3>2. c \in Nat /\ c < 2048
      BY <1>1, <2>1
    <3> QED
      BY <3>1, <3>2, SMT
  <2>6. part(2, 0) = (c \div 64) * 64
    <3>1. 2 ^ 5 = 32 /\ 2 ^ 6 = 64
      BY SMT
    <3>2. (192 + (c \div 64)) % 32 = (c \div 64)
      BY <1>1, <2>5, SMT
    <3> QED
      BY <2>1, <2>4, <3>1, <3>2
  <2>7. part(2, 1) = c % 64
    BY <1>1, <2>1, <2>4, SMT
  <2>8. part(2, 0) + part(2, 1) + part(2, 2) + part(2, 3) = c
    BY <1>1, <2>4, <2>6, <2>7
  <2> QED
    BY <1>5, <1>8, <2>8 DEF n
<1>9. CASE n = 3
  <2>1. byte(0) = e[1] /\ byte(1) = e[2] /\ byte(2) = e[3]
    BY <1>1, <1>9
  <2>2. /\ byte(0) = 224 + (c \div 4096) /\ byte(1) = 128 + ((c \div 64) % 64)
        /\ byte(2) = 128 + (c % 64) /\ c < 65536
    BY <1>9, <1>11, <2>1
  <2>3. /\ utf8_starting_shift(3) = 16
        /\ data_bits(3, 0) = 4 /\ data_bits(3, 1) = 6 /\ data_bits(3, 2) = 6
    BY DEF utf8_starting_shift, data_bits
  <2>4. cur_shift(3, 0) = 12 /\ cur_shift(3, 1) = 6 /\ cur_shift(3, 2) = 0
    BY <2>3
  <2> HIDE DEF cur_shift
  <2> HIDE DEF part
  <2>5. part(3, 0) = (byte(0) % 2 ^ 4) * 2 ^ 12 /\ part(3, 1) = (byte(1) % 2 ^ 6) * 2 ^ 6
        /\ part(3, 2) = (byte(2) % 2 ^ 6) * 2 ^ 0 /\ part(3, 3) = 0
    <3>1. /\ part(3, 0) = (byte(0) % 2 ^ data_bits(3, 0)) * 2 ^ cur_shift(3, 0)
          /\ part(3, 1) = (byte(1) % 2 ^ data_bits(3, 1)) * 2 ^ cur_shift(3, 1)
          /\ part(3, 2) = (byte(2) % 2 ^ data_bits(3, 2)) * 2 ^ cur_shift(3, 2)
          /\ part(3, 3) = 0
      BY <1>12
    <3> QED
      BY <3>1, <2>3, <2>4, Zenon
  <2>6. c \div 4096 < 16
    BY <1>1, <2>2, SMT
  <2>7. part(3, 0) = (c \div 4096) * 4096
    <3>1. 2 ^ 4 = 16 /\ 2 ^ 12 = 4096
      BY SMT
    <3>2. (224 + (c \div 4096)) % 16 = (c \div 4096)
      BY <1>1, <2>6, Digits, SMT
    <3> QED
      BY <2>2, <2>5, <3>1, <3>2, SMT
  <2>8. part(3, 1) = ((c \div 64) % 64) * 64
    BY <1>1, <2>2, <2>5, SMT
  <2>9. part(3, 2) = c % 64
    BY <1>1, <2>2, <2>5, SMT
  <2>10. part(3, 0) + part(3, 1) + part(3, 2) + part(3, 3) = c
    <3>1. part(3, 3) = 0
      BY <2>5
    <3>2. /\ (c \div 4096) * 4096 + ((c \div 64) % 64) * 64 + (c % 64) = c
          /\ (c \div 4096) * 4096 \in Int /\ ((c \div 64) % 64) * 64 \in Int /\ c % 64 \in Int
      BY <1>1, Digits, SMT
    <3> QED
      BY <2>7, <2>8, <2>9, <3>1, <3>2, SMT
  <2> QED
    BY <1>5, <1>9, <2>10 DEF n
<1>10. CASE n = 4
  <2>1. byte(0) = e[1] /\ byte(1) = e[2] /\ byte(2) = e[3] /\ byte(3) = e[4]
    BY <1>1, <1>10
  <2>2. /\ byte(0) = 240 + (c \div 262144) /\ byte(1) = 128 + ((c \div 4096) % 64)
        /\ byte(2) = 128 + ((c \div 64) % 64) /\ byte(3) = 128 + (c % 64)
        /\ c <= UNICODE_MAX
    BY <1>10, <1>11, <2>1
  <2>3. /\ utf8_starting_shift(4) = 21 /\ data_bits(4, 0) = 3
        /\ data_bits(4, 1) = 6 /\ data_bits(4, 2) = 6 /\ data_bits(4, 3) = 6
    BY DEF utf8_starting_shift, data_bits
  <2>4. cur_shift(4, 0) = 18 /\ cur_shift(4, 1) = 12 /\ cur_shift(4, 2) = 6 /\ cur_shift(4, 3) = 0
    BY <2>3
  <2> HIDE DEF cur_shift
  <2> HIDE DEF part
  <2>5. part(4, 0) = (byte(0) % 2 ^ 3) * 2 ^ 18 /\ part(4, 1) = (byte(1) % 2 ^ 6) * 2 ^ 12
        /\ part(4, 2) = (byte(2) % 2 ^ 6) * 2 ^ 6 /\ part(4, 3) = (byte(3) % 2 ^ 6) * 2 ^ 0
    <3>1. /\ part(4, 0) = (byte(0) % 2 ^ data_bits(4, 0)) * 2 ^ cur_shift(4, 0)
          /\ part(4, 1) = (byte(1) % 2 ^ data_bits(4, 1)) * 2 ^ cur_shift(4, 1)
          /\ part(4, 2) = (byte(2) % 2 ^ data_bits(4, 2)) * 2 ^ cur_shift(4, 2)
          /\ part(4, 3) = (byte(3) % 2 ^ data_bits(4, 3)) * 2 ^ cur_shift(4, 3)
      BY <1>12
    <3> QED
      BY <3>1, <2>3, <2>4, Zenon
  <2>6. c \div 262144 < 8
    BY <1>1, <2>2, SMT DEF UNICODE_MAX
  <2>7. part(4, 0) = (c \div 262144) * 262144
    <3>1. 2 ^ 3 = 8 /\ 2 ^ 18 = 262144
      BY SMT
    <3>2. (240 + (c \div 262144)) % 8 = (c \div 262144)
      BY <1>1, <2>6, Digits, SMT
    <3> QED
      BY <2>2, <2>5, <3>1, <3>2, SMT
  <2>8. part(4, 1) = ((c \div 4096) % 64) * 4096
    BY <1>1, <2>2, <2>5, SMT
  <2>9. part(4, 2) = ((c \div 64) % 64) * 64
    BY <1>1, <2>2, <2>5, SMT
  <2>10. part(4, 3) = c % 64
    BY <1>1, <2>2, <2>5, SMT
  <2>11. part(4, 0) + part(4, 1) + part(4, 2) + part(4, 3) = c
    BY <1>1, <2>7, <2>8, <2>9, <2>10, Digits, SMTT(60)
  <2> QED
    BY <1>5, <1>10, <2>11 DEF n
<1> QED
  BY <1>1, <1>7, <1>8, <1>9, <1>10

(* What the encoder makes of a codepoint, by the length it announces.      *)
LEMMA EncoderBytes ==
  ASSUME NEW c \in Scalars
  PROVE  LET e == codepoint_to_utf8(c) IN
         /\ c <= 128 => e[1] = c % 128 /\ e[2] = 0 /\ e[3] = 0 /\ e[4] = 0
         /\ c > 128 /\ c <= 2048 =>
              /\ e[1] = 192 + (c % 32) /\ e[2] = 128 + ((c \div 32) % 64)
              /\ e[3] = 0 /\ e[4] = 0
         /\ c > 2048 /\ c <= 65536 =>
              /\ e[1] = 224 + (c % 16) /\ e[2] = 128 + ((c \div 16) % 64)
              /\ e[3] = 128 + ((c \div 1024) % 64) /\ e[4] = 0
         /\ c > 65536 =>
              /\ e[1] = 240 + (c % 8) /\ e[2] = 128 + ((c \div 8) % 64)
              /\ e[3] = 128 + ((c \div 512) % 64) /\ e[4] = 128 + ((c \div 32768) % 64)
<1> DEFINE e == codepoint_to_utf8(c)
           high(first) == (30 * 2 ^ first) % 256
           low(first) == c % 2 ^ first
           next(first, k) == 128 + ((c \div 2 ^ (first + 6 * (k - 2))) % 64)
           more(first) == 6 - (IF first < 6 THEN first ELSE 6)
<1>1. c \in Nat /\ ~(c > UNICODE_MAX)
  BY SMT DEF Scalars, UNICODE_MAX
<1>2. \A k \in 1 .. 4 : e[k] = LET first == bits_in_first_byte(c) IN
        IF k > more(first) + 1 THEN 0
        ELSE IF k = 1 THEN high(first) + low(first) ELSE next(first, k)
  BY <1>1, Zenon DEF codepoint_to_utf8
<1>3. /\ c <= 128 => bits_in_first_byte(c) = 7
      /\ c > 128 /\ c <= 2048 => bits_in_first_byte(c) = 5
      /\ c > 2048 /\ c <= 65536 => bits_in_first_byte(c) = 4
      /\ c > 65536 => bits_in_first_byte(c) = 3
  BY <1>1, SMT DEF bits_in_first_byte
<1>4. more(7) = 0 /\ more(5) = 1 /\ more(4) = 2 /\ more(3) = 3
  OBVIOUS
<1>5. high(7) = 0 /\ high(5) = 192 /\ high(4) = 224 /\ high(3) = 240
  BY SMT
<1>6. low(7) = c % 128 /\ low(5) = c % 32 /\ low(4) = c % 16 /\ low(3) = c % 8
  BY SMT
<1>7. /\ next(5, 2) = 128 + ((c \div 32) % 64)
      /\ next(4, 2) = 128 + ((c \div 16) % 64) /\ next(4, 3) = 128 + ((c \div 1024) % 64)
      /\ next(3, 2) = 128 + ((c \div 8) % 64) /\ next(3, 3) = 128 + ((c \div 512) % 64)
      /\ next(3, 4) = 128 + ((c \div 32768) % 64)
  BY SMT
<1> HIDE DEF e, more, high, low, next
<1>8. CASE c <= 128
  <2>1. bits_in_first_byte(c) = 7
    BY <1>3, <1>8, SMT
  <2>2. e[1] = high(7) + low(7) /\ e[2] = 0 /\ e[3] = 0 /\ e[4] = 0
    BY <1>2, <1>4, <2>1, SMT
  <2>3. e[1] = c % 128
    BY <1>1, <1>5, <1>6, <2>2, SMT
  <2> QED
    BY <1>1, <1>8, <2>2, <2>3, SMT DEF e
<1>9. CASE c > 128 /\ c <= 2048
  <2>1. bits_in_first_byte(c) = 5
    BY <1>3, <1>9, SMT
  <2>2. e[1] = high(5) + low(5) /\ e[2] = next(5, 2) /\ e[3] = 0 /\ e[4] = 0
    BY <1>2, <1>4, <2>1, SMT
  <2>3. e[1] = 192 + (c % 32) /\ e[2] = 128 + ((c \div 32) % 64)
    BY <1>5, <1>6, <1>7, <2>2, SMT
  <2> QED
    BY <1>1, <1>9, <2>2, <2>3, SMT DEF e
<1>10. CASE c > 2048 /\ c <= 65536
  <2>1. bits_in_first_byte(c) = 4
    BY <1>3, <1>10, SMT
  <2>2. e[1] = high(4) + low(4) /\ e[2] = next(4, 2) /\ e[3] = next(4, 3) /\ e[4] = 0
    BY <1>2, <1>4, <2>1, SMT
  <2>3. /\ e[1] = 224 + (c % 16) /\ e[2] = 128 + ((c \div 16) % 64)
        /\ e[3] = 128 + ((c \div 1024) % 64)
    BY <1>5, <1>6, <1>7, <2>2, SMT
  <2> QED
    BY <1>1, <1>10, <2>2, <2>3, SMT DEF e
<1>11. CASE c > 65536
  <2>1. bits_in_first_byte(c) = 3
    BY <1>3, <1>11, SMT
  <2>2. e[1] = high(3) + low(3) /\ e[2] = next(3, 2) /\ e[3] = next(3, 3) /\ e[4] = next(3, 4)
    BY <1>2, <1>4, <2>1, SMT
  <2>3. /\ e[1] = 240 + (c % 8) /\ e[2] = 128 + ((c \div 8) % 64)
        /\ e[3] = 128 + ((c \div 512) % 64) /\ e[4] = 128 + ((c \div 32768) % 64)
    BY <1>5, <1>6, <1>7, <2>2, SMT
  <2> QED
    BY <1>1, <1>11, <2>3, SMT DEF e
<1> QED
  BY <1>1, <1>8, <1>9, <1>10, <1>11, SMT

(* The lowest bits come first: as digits of which the first is small.      *)
LEMMA LowDigits ==
  ASSUME NEW c \in Nat
  PROVE  /\ c < 2048 => (c % 32) + ((c \div 32) % 64) * 32 = c
         /\ c < 65536 => (c % 16) + ((c \div 16) % 64) * 16 + ((c \div 1024) % 64) * 1024 = c
         /\ c < 2097152 => (c % 8) + ((c \div 8) % 64) * 8 + ((c \div 512) % 64) * 512
                             + ((c \div 32768) % 64) * 32768 = c
<1>1. ASSUME c < 2048
      PROVE  (c % 32) + ((c \div 32) % 64) * 32 = c
  BY <1>1, SMT
<1>2. ASSUME c < 65536
      PROVE  (c % 16) + ((c \div 16) % 64) * 16 + ((c \div 1024) % 64) * 1024 = c
  <2>1. c \div 1024 = (c \div 16) \div 64
    BY SMT
  <2>2. (c \div 1024) % 64 = c \div 1024
    BY <1>2, SMT
  <2>3. c = (c \div 16) * 16 + (c % 16)
    BY SMT
  <2>4. c \div 16 = ((c \div 16) \div 64) * 64 + ((c \div 16) % 64)
    BY SMT
  <2> QED
    BY <2>1, <2>2, <2>3, <2>4, SMT
<1>3. ASSUME c < 2097152
      PROVE  (c % 8) + ((c \div 8) % 64) * 8 + ((c \div 512) % 64) * 512
               + ((c \div 32768) % 64) * 32768 = c
  <2>1. c \div 512 = (c \div 8) \div 64
    BY SMT
  <2>2. c \div 32768 = (c \div 512) \div 64
    BY SMT
  <2>3. (c \div 32768) % 64 = c \div 32768
    BY <1>3, SMT
  <2>4. c = (c \div 8) * 8 + (c % 8)
    BY SMT
  <2>5. c \div 8 = ((c \div 8) \div 64) * 64 + ((c \div 8) % 64)
    BY SMT
  <2>6. c \div 512 = ((c \div 512) \div 64) * 64 + ((c \div 512) % 64)
    BY SMT
  <2> QED
    BY <2>1, <2>2, <2>3, <2>4, <2>5, <2>6, SMT
<1> QED
  BY <1>1, <1>2, <1>3, SMT

LEMMA ReversedRight ==
  ASSUME NEW c \in Scalars
  PROVE  EncodedReversed(c, codepoint_to_utf8(c))
<1> DEFINE e == codepoint_to_utf8(c)
           n == StandardLen(c)
           bits(m) == IF m = 1 THEN 7 ELSE 7 - m
           part(m, k) == IF k <= m THEN (e[k] % 64) * 2 ^ (bits(m) + 6 * (k - 2)) ELSE 0
           read(m) == (e[1] % 2 ^ bits(m)) + part(m, 2) + part(m, 3) + part(m, 4)
<1>1. c \in Nat /\ c > 0 /\ c < 2097152 /\ n \in 1 .. 4
  BY CharacterBytes, SMT DEF Scalars, UNICODE_MAX
<1>2. /\ c < 128 => n = 1
      /\ c >= 128 /\ c < 2048 => n = 2
      /\ c >= 2048 /\ c < 65536 => n = 3
      /\ c >= 65536 => n = 4
  BY <1>1, SMT DEF StandardLen
<1>3. /\ c <= 128 => e[1] = c % 128
      /\ c > 128 /\ c <= 2048 =>
           e[1] = 192 + (c % 32) /\ e[2] = 128 + ((c \div 32) % 64)
      /\ c > 2048 /\ c <= 65536 =>
           /\ e[1] = 224 + (c % 16) /\ e[2] = 128 + ((c \div 16) % 64)
           /\ e[3] = 128 + ((c \div 1024) % 64)
      /\ c > 65536 =>
           /\ e[1] = 240 + (c % 8) /\ e[2] = 128 + ((c \div 8) % 64)
           /\ e[3] = 128 + ((c \div 512) % 64) /\ e[4] = 128 + ((c \div 32768) % 64)
  BY EncoderBytes
<1>4. \A x \in Nat : (128 + (x % 64)) % 64 = x % 64 /\ x % 64 \in 0 .. 63
  BY SMT
<1>5. /\ bits(1) = 7 /\ bits(2) = 5 /\ bits(3) = 4 /\ bits(4) = 3
      /\ 2 ^ 7 = 128 /\ 2 ^ 5 = 32 /\ 2 ^ 4 = 16 /\ 2 ^ 3 = 8
  BY SMT
<1>6. /\ part(1, 2) = 0 /\ part(1, 3) = 0 /\ part(1, 4) = 0
      /\ part(2, 2) = (e[2] % 64) * 32 /\ part(2, 3) = 0 /\ part(2, 4) = 0
      /\ part(3, 2) = (e[2] % 64) * 16 /\ part(3, 3) = (e[3] % 64) * 1024 /\ part(3, 4) = 0
      /\ part(4, 2) = (e[2] % 64) * 8 /\ part(4, 3) = (e[3] % 64) * 512
      /\ part(4, 4) = (e[4] % 64) * 32768
  BY SMT
<1>7. /\ 2 ^ bits(1) = 128 /\ 2 ^ bits(2) = 32 /\ 2 ^ bits(3) = 16 /\ 2 ^ bits(4) = 8
  <2> HIDE DEF bits
  <2> QED
    BY <1>5, Zenon
<1>8. /\ read(1) = (e[1] % 128) + part(1, 2) + part(1, 3) + part(1, 4)
      /\ read(2) = (e[1] % 32) + part(2, 2) + part(2, 3) + part(2, 4)
      /\ read(3) = (e[1] % 16) + part(3, 2) + part(3, 3) + part(3, 4)
      /\ read(4) = (e[1] % 8) + part(4, 2) + part(4, 3) + part(4, 4)
  <2> HIDE DEF bits, part
  <2> QED
    BY <1>7
<1> HIDE DEF e, n, part, bits, read
<1>9. (utf8_byte_len(e[1]) = n /\ read(n) = c) <=> ~(c = 128 \/ c = 2048 \/ c = 65536)
  <2>1. CASE c < 128
    <3>1. n = 1 /\ e[1] = c
      BY <1>1, <1>2, <1>3, <2>1, SMT
    <3>2. utf8_byte_len(e[1]) = 1
      BY <1>1, <2>1, <3>1, FirstBytes, SMT
    <3>3. read(1) = c
      BY <1>1, <1>6, <1>8, <2>1, <3>1, SMT
    <3> QED
      BY <2>1, <3>1, <3>2, <3>3, SMT
  <2>2. CASE c = 128
    <3>1. n = 2 /\ e[1] = 0
      BY <1>2, <1>3, <2>2, SMT
    <3>2. utf8_byte_len(e[1]) = 1
      BY <3>1, FirstBytes, SMT
    <3> QED
      BY <2>2, <3>1, <3>2, SMT
  <2>3. CASE c > 128 /\ c < 2048
    <3>1. n = 2 /\ e[1] = 192 + (c % 32) /\ e[2] = 128 + ((c \div 32) % 64)
      BY <1>1, <1>2, <1>3, <2>3, SMT
    <3>2. c % 32 \in 0 .. 31 /\ c \div 32 \in Nat
      BY <1>1, SMT
    <3>3. utf8_byte_len(e[1]) = 2
      BY <3>1, <3>2, FirstBytes, SMT
    <3>4. e[1] % 32 = c % 32 /\ e[2] % 64 = (c \div 32) % 64
      BY <1>4, <3>1, <3>2, SMT
    <3>5. read(2) = (c % 32) + ((c \div 32) % 64) * 32
      BY <1>6, <1>8, <3>2, <3>4, SMT
    <3>6. read(2) = c
      BY <1>1, <2>3, <3>5, LowDigits, SMT
    <3> QED
      BY <2>3, <3>1, <3>3, <3>6, SMT
  <2>4. CASE c = 2048
    <3>1. n = 3 /\ e[1] = 192
      BY <1>2, <1>3, <2>4, SMT
    <3>2. utf8_byte_len(e[1]) = 2
      BY <3>1, FirstBytes, SMT
    <3> QED
      BY <2>4, <3>1, <3>2, SMT
  <2>5. CASE c > 2048 /\ c < 65536
    <3>1. /\ n = 3 /\ e[1] = 224 + (c % 16) /\ e[2] = 128 + ((c \div 16) % 64)
          /\ e[3] = 128 + ((c \div 1024) % 64)
      BY <1>1, <1>2, <1>3, <2>5, SMT
    <3>2. c % 16 \in 0 .. 15 /\ c \div 16 \in Nat /\ c \div 1024 \in Nat
      BY <1>1, SMT
    <3>3. utf8_byte_len(e[1]) = 3
      BY <3>1, <3>2, FirstBytes, SMT
    <3>4. /\ e[1] % 16 = c % 16 /\ e[2] % 64 = (c \div 16) % 64
          /\ e[3] % 64 = (c \div 1024) % 64
      BY <1>4, <3>1, <3>2, SMT
    <3>5. read(3) = (c % 16) + ((c \div 16) % 64) * 16 + ((c \div 1024) % 64) * 1024
      BY <1>6, <1>8, <3>2, <3>4, SMT
    <3>6. read(3) = c
      BY <1>1, <2>5, <3>5, LowDigits, SMT
    <3> QED
      BY <2>5, <3>1, <3>3, <3>6, SMT
  <2>6. CASE c = 65536
    <3>1. n = 4 /\ e[1] = 224
      BY <1>2, <1>3, <2>6, SMT
    <3>2. utf8_byte_len(e[1]) = 3
      BY <3>1, FirstBytes, SMT
    <3> QED
      BY <2>6, <3>1, <3>2, SMT
  <2>7. CASE c > 65536
    <3>1. /\ n = 4 /\ e[1] = 240 + (c % 8) /\ e[2] = 128 + ((c \div 8) % 64)
          /\ e[3] = 128 + ((c \div 512) % 64) /\ e[4] = 128 + ((c \div 32768) % 64)
      BY <1>1, <1>2, <1>3, <2>7, SMT
    <3>2. c % 8 \in 0 .. 7 /\ c \div 8 \in Nat /\ c \div 512 \in Nat /\ c \div 32768 \in Nat
      BY <1>1, SMT
    <3>3. utf8_byte_len(e[1]) = 4
      BY <3>1, <3>2, FirstBytes, SMT
    <3>4. /\ e[1] % 8 = c % 8 /\ e[2] % 64 = (c \div 8) % 64
          /\ e[3] % 64 = (c \div 512) % 64 /\ e[4] % 64 = (c \div 32768) % 64
      <4>1. \A x \in 0 .. 7 : (240 + x) % 8 = x
        BY SMT
      <4>2. e[1] % 8 = c % 8
        BY <3>1, <3>2, <4>1, SMT
      <4>3. e[2] % 64 = (c \div 8) % 64
        BY <1>4, <3>1, <3>2, SMT
      <4>4. e[3] % 64 = (c \div 512) % 64
        BY <1>4, <3>1, <3>2, SMT
      <4>5. e[4] % 64 = (c \div 32768) % 64
        BY <1>4, <3>1, <3>2, SMT
      <4> QED
        BY <4>2, <4>3, <4>4, <4>5, SMT
    <3>5. read(4) = (c % 8) + ((c \div 8) % 64) * 8 + ((c \div 512) % 64) * 512
                      + ((c \div 32768) % 64) * 32768
      BY <1>6, <1>8, <3>2, <3>4, SMT
    <3>6. read(4) = c
      BY <1>1, <3>5, LowDigits, SMT
    <3> QED
      BY <2>7, <3>1, <3>3, <3>6, SMT
  <2> QED
    BY <1>1, <2>1, <2>2, <2>3, <2>4, <2>5, <2>6, <2>7, SMT
<1> QED
  BY <1>9, SMT DEF EncodedReversed, e, n, bits, part, read

(* The digits of the standard, highest first, and those of the encoder,    *)
(* lowest first, of a codepoint of two, three and four bytes.              *)
LEMMA TwoDigits ==
  ASSUME NEW c \in Nat, c >= 128, c < 2048
  PROVE  (c \div 64 = c % 32 /\ c % 64 = (c \div 32) % 64) <=> c = 2047
<1>1. PICK a \in 0 .. 31, q \in 0 .. 1, x \in 0 .. 31 : c = a + 32 * q + 64 * x
  <2>1. c = (c % 32) + 32 * (c \div 32) /\ c \div 32 = ((c \div 32) % 2) + 2 * (c \div 64)
    BY SMT
  <2>2. c % 32 \in 0 .. 31 /\ (c \div 32) % 2 \in 0 .. 1 /\ c \div 64 \in 0 .. 31
    BY SMT
  <2> QED
    BY <2>1, <2>2, SMT
<1>2. c \div 64 = x /\ c % 32 = a /\ c % 64 = a + 32 * q /\ (c \div 32) % 64 = q + 2 * x
  BY <1>1, SMT
<1> QED
  BY <1>1, <1>2, SMT

LEMMA ThreeDigits ==
  ASSUME NEW c \in Nat, c >= 2048, c < 65536
  PROVE  (/\ c \div 4096 = c % 16 /\ (c \div 64) % 64 = (c \div 16) % 64
          /\ c % 64 = (c \div 1024) % 64)
         <=> c \in {21845, 43690, 65535}
<1> DEFINE a == c % 16
           b == (c \div 16) % 64
           d == (c \div 1024) % 64
           w == c \div 4096
           y == (c \div 64) % 64
           z == c % 64
<1>1. a \in 0 .. 15 /\ b \in 0 .. 63 /\ d \in 0 .. 63 /\ w \in 0 .. 15 /\ y \in 0 .. 63 /\ z \in 0 .. 63
  BY SMT
<1>2. c = a + 16 * b + 1024 * d
  BY LowDigits, SMT
<1>3. c = 4096 * w + 64 * y + z
  <2>1. c \div 4096 = (c \div 64) \div 64
    BY SMT
  <2>2. c = 64 * (c \div 64) + z /\ c \div 64 = 64 * ((c \div 64) \div 64) + y
    BY SMT
  <2> QED
    BY <2>1, <2>2, SMT
<1>4. c \in {21845, 43690, 65535} => w = a /\ y = b /\ z = d
  BY SMT
<1> HIDE DEF a, b, d, w, y, z
<1>5. ASSUME w = a, y = b, z = d
      PROVE  c \in {21845, 43690, 65535}
  <2>1. 341 * (d - 4 * a) = a + 16 * b
    BY <1>1, <1>2, <1>3, <1>5, SMT
  <2>2. d - 4 * a \in 0 .. 3
    BY <1>1, <2>1, SMT
  <2> QED
    BY <1>1, <1>2, <2>1, <2>2, SMT
<1>6. w = a /\ y = b /\ z = d <=> c \in {21845, 43690, 65535}
  BY <1>4, <1>5
<1> QED
  BY <1>6, SMT DEF a, b, d, w, y, z

LEMMA FourDigits ==
  ASSUME NEW c \in Nat, c >= 65536, c <= UNICODE_MAX
  PROVE  (/\ c \div 262144 = c % 8 /\ (c \div 4096) % 64 = (c \div 8) % 64
          /\ (c \div 64) % 64 = (c \div 512) % 64 /\ c % 64 = (c \div 32768) % 64)
         <=> c \in {299593, 599186, 898779}
<1> DEFINE a == c % 8
           b == (c \div 8) % 64
           d == (c \div 512) % 64
           g == (c \div 32768) % 64
           v == c \div 262144
           w == (c \div 4096) % 64
           y == (c \div 64) % 64
           z == c % 64
<1>1. /\ a \in 0 .. 7 /\ b \in 0 .. 63 /\ d \in 0 .. 63 /\ g \in 0 .. 63
      /\ v \in 0 .. 4 /\ w \in 0 .. 63 /\ y \in 0 .. 63 /\ z \in 0 .. 63
      /\ c < 2097152
  BY SMT DEF UNICODE_MAX
<1>2. c = a + 8 * b + 512 * d + 32768 * g
  BY <1>1, LowDigits, SMT
<1>3. c = 262144 * v + 4096 * w + 64 * y + z
  <2>1. c \div 4096 = (c \div 64) \div 64
    BY SMT
  <2>2. c \div 262144 = (c \div 4096) \div 64
    BY SMT
  <2>3. /\ c = 64 * (c \div 64) + z /\ c \div 64 = 64 * ((c \div 64) \div 64) + y
        /\ c \div 4096 = 64 * ((c \div 4096) \div 64) + w
    BY SMT
  <2> QED
    BY <2>1, <2>2, <2>3, SMT
<1>4. c \in {299593, 599186, 898779} => v = a /\ w = b /\ y = d /\ z = g
  BY SMT
<1> HIDE DEF a, b, d, g, v, w, y, z
<1>5. ASSUME v = a, w = b, y = d, z = g
      PROVE  c \in {299593, 599186, 898779}
  <2>1. 4681 * (g - 8 * a) = a + 8 * (73 * b - 8 * d)
    BY <1>1, <1>2, <1>3, <1>5, SMT
  <2>2. a \in 0 .. 4
    BY <1>1, <1>5
  <2> QED
    BY <1>1, <1>2, <2>1, <2>2, SMT DEF UNICODE_MAX
<1>6. v = a /\ w = b /\ y = d /\ z = g <=> c \in {299593, 599186, 898779}
  BY <1>4, <1>5
<1> QED
  BY <1>6, SMT DEF a, b, d, g, v, w, y, z

LEMMA StandardRight ==
  ASSUME NEW c \in Scalars
  PROVE  EncodedStandard(c, codepoint_to_utf8(c))
<1> DEFINE e == codepoint_to_utf8(c)
           t == StandardBytes(c)
           n == StandardLen(c)
           same == e[1] = Character(t)[1] /\ e[2] = Character(t)[2]
                     /\ e[3] = Character(t)[3] /\ e[4] = Character(t)[4]
<1>1. c \in Nat /\ c > 0 /\ c <= UNICODE_MAX
  BY DEF Scalars
<1>2. e = Character(t) <=> same
  <2>1. e = [k \in 1 .. 4 |-> e[k]]
    BY Zenon DEF codepoint_to_utf8
  <2>2. Character(t) = [k \in 1 .. 4 |-> Character(t)[k]]
    BY Zenon DEF Character
  <2>3. \A k : k \in 1 .. 4 <=> k = 1 \/ k = 2 \/ k = 3 \/ k = 4
    BY SMT
  <2> HIDE DEF e, t
  <2>4. ASSUME same
        PROVE  e = Character(t)
    <3>1. \A k \in 1 .. 4 : e[k] = Character(t)[k]
      BY <2>3, <2>4, Zenon
    <3> QED
      BY <2>1, <2>2, <3>1, Zenon
  <2> QED
    BY <2>4, Zenon
<1>3. Len(t) = n /\ n \in 1 .. 4
  <2>1. DOMAIN t = 1 .. n /\ n \in 1 .. 4
    BY CharacterBytes, SMT
  <2> HIDE DEF t, n
  <2> QED
    BY <2>1
<1>4. \A k \in 1 .. 4 : Character(t)[k] = IF k <= n THEN t[k] ELSE 0
  BY <1>3 DEF Character
<1>5. /\ c < 128 => n = 1
      /\ c >= 128 /\ c < 2048 => n = 2
      /\ c >= 2048 /\ c < 65536 => n = 3
      /\ c >= 65536 => n = 4
  BY <1>1, SMT DEF StandardLen
<1>6. /\ n = 1 => t[1] = c
      /\ n = 2 => t[1] = 192 + (c \div 64) /\ t[2] = 128 + (c % 64)
      /\ n = 3 => /\ t[1] = 224 + (c \div 4096) /\ t[2] = 128 + ((c \div 64) % 64)
                 /\ t[3] = 128 + (c % 64)
      /\ n = 4 => /\ t[1] = 240 + (c \div 262144) /\ t[2] = 128 + ((c \div 4096) % 64)
                 /\ t[3] = 128 + ((c \div 64) % 64) /\ t[4] = 128 + (c % 64)
  BY CharacterBytes
<1>7. /\ c <= 128 => e[1] = c % 128 /\ e[2] = 0 /\ e[3] = 0 /\ e[4] = 0
      /\ c > 128 /\ c <= 2048 =>
           /\ e[1] = 192 + (c % 32) /\ e[2] = 128 + ((c \div 32) % 64)
           /\ e[3] = 0 /\ e[4] = 0
      /\ c > 2048 /\ c <= 65536 =>
           /\ e[1] = 224 + (c % 16) /\ e[2] = 128 + ((c \div 16) % 64)
           /\ e[3] = 128 + ((c \div 1024) % 64) /\ e[4] = 0
      /\ c > 65536 =>
           /\ e[1] = 240 + (c % 8) /\ e[2] = 128 + ((c \div 8) % 64)
           /\ e[3] = 128 + ((c \div 512) % 64) /\ e[4] = 128 + ((c \div 32768) % 64)
  BY EncoderBytes
<1> HIDE DEF e, t, n
<1>8. same <=> c < 128 \/ c \in Palindromes
  <2>1. CASE c < 128
    <3>1. n = 1 /\ c % 128 = c
      BY <1>1, <1>5, <2>1, SMT
    <3> QED
      BY <1>1, <1>4, <1>6, <1>7, <2>1, <3>1, SMT
  <2>2. CASE c = 128
    <3>1. n = 2 /\ e[1] = 0 /\ t[1] = 194
      BY <1>1, <1>5, <1>6, <1>7, <2>2, SMT
    <3> QED
      BY <1>4, <2>2, <3>1, SMT DEF Palindromes
  <2>3. CASE c > 128 /\ c < 2048
    <3>1. same <=> c \div 64 = c % 32 /\ c % 64 = (c \div 32) % 64
      BY <1>1, <1>4, <1>5, <1>6, <1>7, <2>3, SMT
    <3>2. same <=> c = 2047
      <4>1. c \in Nat /\ c >= 128 /\ c < 2048
        BY <1>1, <2>3, SMT
      <4>2. (c \div 64 = c % 32 /\ c % 64 = (c \div 32) % 64)
            <=> c = 2047
        BY <4>1, TwoDigits
      <4> HIDE DEF same
      <4> QED
        BY <3>1, <4>2
    <3> QED
      BY <1>1, <2>3, <3>2, SMT DEF Palindromes
  <2>4. CASE c = 2048
    <3>1. n = 3 /\ e[1] = 192 /\ t[1] = 224
      BY <1>1, <1>5, <1>6, <1>7, <2>4, SMT
    <3> QED
      BY <1>4, <2>4, <3>1, SMT DEF Palindromes
  <2>5. CASE c > 2048 /\ c < 65536
    <3>1. same <=> /\ c \div 4096 = c % 16 /\ (c \div 64) % 64 = (c \div 16) % 64
                   /\ c % 64 = (c \div 1024) % 64
      BY <1>1, <1>4, <1>5, <1>6, <1>7, <2>5, SMT
    <3>2. same <=> c \in {21845, 43690, 65535}
      <4>1. c \in Nat /\ c >= 2048 /\ c < 65536
        BY <1>1, <2>5, SMT
      <4>2. (/\ c \div 4096 = c % 16 /\ (c \div 64) % 64 = (c \div 16) % 64
            /\ c % 64 = (c \div 1024) % 64)
            <=> c \in {21845, 43690, 65535}
        BY <4>1, ThreeDigits
      <4> HIDE DEF same
      <4> QED
        BY <3>1, <4>2
    <3> QED
      BY <1>1, <2>5, <3>2, SMT DEF Palindromes
  <2>6. CASE c = 65536
    <3>1. n = 4 /\ e[1] = 224 /\ t[1] = 240
      BY <1>1, <1>5, <1>6, <1>7, <2>6, SMT
    <3> QED
      BY <1>4, <2>6, <3>1, SMT DEF Palindromes
  <2>7. CASE c > 65536
    <3>1. same <=> /\ c \div 262144 = c % 8 /\ (c \div 4096) % 64 = (c \div 8) % 64
                   /\ (c \div 64) % 64 = (c \div 512) % 64 /\ c % 64 = (c \div 32768) % 64
      BY <1>1, <1>4, <1>5, <1>6, <1>7, <2>7, SMT
    <3>2. same <=> c \in {299593, 599186, 898779}
      <4>1. c \in Nat /\ c >= 65536 /\ c <= UNICODE_MAX
        BY <1>1, <2>7, SMT
      <4>2. (/\ c \div 262144 = c % 8 /\ (c \div 4096) % 64 = (c \div 8) % 64
            /\ (c \div 64) % 64 = (c \div 512) % 64 /\ c % 64 = (c \div 32768) % 64)
            <=> c \in {299593, 599186, 898779}
        BY <4>1, FourDigits
      <4> HIDE DEF same
      <4> QED
        BY <3>1, <4>2
    <3> QED
      BY <1>1, <2>7, <3>2, SMT DEF Palindromes
  <2> QED
    BY <1>1, <2>1, <2>2, <2>3, <2>4, <2>5, <2>6, <2>7, SMT
<1> HIDE DEF same
<1>9. EncodedStandard(c, e) <=> (e = Character(t) <=> c < 128 \/ c \in Palindromes)
  BY Zenon DEF EncodedStandard, t
<1> QED
  BY <1>2, <1>8, <1>9, Zenon DEF e

LEMMA JoinedExists ==
  ASSUME NEW s, NEW n \in Nat
  PROVE  \E f : f = [k \in 0 .. n |-> IF k = 0 THEN <<>> ELSE f[k - 1] \o StandardBytes(s[k])]
<1> DEFINE joins(f, i) ==
             f = [k \in 0 .. i |-> IF k = 0 THEN <<>> ELSE f[k - 1] \o StandardBytes(s[k])]
           bad == {i \in Nat : ~ \E f : joins(f, i)}
<1> SUFFICES ASSUME bad # {}
             PROVE  FALSE
  <2>1. n \notin bad => \E f : joins(f, n)
    BY Zenon
  <2> QED
    BY <2>1, Zenon
<1>1. PICK m \in bad : \A k \in bad : m <= k
  <2> HIDE DEF joins
  <2> QED
    BY LeastOf
<1>2. CASE m = 0
  <2> DEFINE f == [k \in 0 .. 0 |-> <<>>]
  <2>1. joins(f, 0)
    BY SMT
  <2> QED
    BY <1>1, <1>2, <2>1, Zenon
<1>3. CASE m # 0
  <2>1. m - 1 \in Nat /\ m - 1 \notin bad
    <3> HIDE DEF joins
    <3> QED
      BY <1>1, <1>3
  <2>2. PICK g : joins(g, m - 1)
    BY <2>1, Zenon
  <2> DEFINE f == [k \in 0 .. m |-> IF k = m THEN g[m - 1] \o StandardBytes(s[m]) ELSE g[k]]
  <2>3. ASSUME NEW k \in 0 .. m
        PROVE  f[k] = IF k = 0 THEN <<>> ELSE f[k - 1] \o StandardBytes(s[k])
    <3>1. CASE k = m
      <4>1. k - 1 \in 0 .. m /\ k - 1 # m
        BY <1>3, <3>1
      <4>2. f[k] = g[m - 1] \o StandardBytes(s[m]) /\ f[k - 1] = g[k - 1]
        BY <3>1, <4>1
      <4> QED
        BY <1>3, <3>1, <4>2, Zenon
    <3>2. CASE k # m
      <4>1. k \in 0 .. m - 1
        BY <1>3, <3>2
      <4>2. g[k] = IF k = 0 THEN <<>> ELSE g[k - 1] \o StandardBytes(s[k])
        BY <2>2, <4>1, Zenon
      <4>3. f[k] = g[k] /\ (k # 0 => f[k - 1] = g[k - 1])
        BY <3>2, <4>1
      <4> QED
        BY <4>2, <4>3, Zenon
    <3> QED
      BY <3>1, <3>2
  <2>4. joins(f, m)
    <3>1. f = [k \in 0 .. m |-> f[k]]
      OBVIOUS
    <3> HIDE DEF f
    <3> QED
      BY <2>3, <3>1, Zenon
  <2> QED
    BY <1>1, <2>4, Zenon
<1> QED
  BY <1>2, <1>3

(* The bytes of the first k characters.                                    *)
LEMMA JoinedIs ==
  ASSUME NEW s, Len(s) \in Nat
  PROVE  Joined(s) = [k \in 0 .. Len(s) |->
                        IF k = 0 THEN <<>> ELSE Joined(s)[k - 1] \o StandardBytes(s[k])]
<1>1. \E f : f = [k \in 0 .. Len(s) |-> IF k = 0 THEN <<>> ELSE f[k - 1] \o StandardBytes(s[k])]
  BY JoinedExists
<1> QED
  BY <1>1 DEF Joined

(* What is put behind other bytes starts where they end.                   *)
LEMMA Behind ==
  ASSUME NEW S, NEW s \in Seq(S), NEW t \in Seq(S)
  PROVE  /\ s \o t \in Seq(S)
         /\ Len(s \o t) = Len(s) + Len(t)
         /\ \A i \in 1 .. Len(s) : (s \o t)[i] = s[i]
         /\ \A i \in 1 .. Len(t) : (s \o t)[Len(s) + i] = t[i]
BY ConcatProperties

(* Where the bytes of the first k characters end.                          *)
EndOf(s, k) == Len(Joined(s)[k])

LEMMA JoinedStep ==
  ASSUME NEW s \in Seq(Scalars)
  PROVE  /\ Joined(s)[0] = <<>>
         /\ \A k \in 0 .. Len(s) : Joined(s)[k] \in Seq(1 .. 255)
         /\ \A k \in 1 .. Len(s) :
              /\ Joined(s)[k] = Joined(s)[k - 1] \o StandardBytes(s[k])
              /\ EndOf(s, k) = EndOf(s, k - 1) + StandardLen(s[k])
<1> DEFINE J == Joined(s)
<1>2. Len(s) \in Nat
  OBVIOUS
<1>1. J = [k \in 0 .. Len(s) |-> IF k = 0 THEN <<>> ELSE J[k - 1] \o StandardBytes(s[k])]
  BY <1>2, JoinedIs, Zenon
<1> HIDE DEF J
<1>3. J[0] = <<>> /\ \A k \in 1 .. Len(s) : J[k] = J[k - 1] \o StandardBytes(s[k])
  BY <1>1, <1>2
<1>4. \A k \in 1 .. Len(s) :
        StandardBytes(s[k]) \in Seq(1 .. 255) /\ Len(StandardBytes(s[k])) = StandardLen(s[k])
  <2>1. \A k \in 1 .. Len(s) : s[k] \in Scalars
    OBVIOUS
  <2> QED
    BY <2>1, CharacterShape
<1>5. \A k \in 0 .. Len(s) : J[k] \in Seq(1 .. 255)
  <2> DEFINE bad == {k \in 0 .. Len(s) : J[k] \notin Seq(1 .. 255)}
  <2> SUFFICES ASSUME bad # {}
               PROVE  FALSE
    BY Zenon
  <2>1. PICK m \in bad : \A k \in bad : m <= k
    <3>1. bad \in SUBSET Nat
      BY <1>2
    <3> QED
      BY <3>1, LeastOf, Zenon
  <2>2. m # 0
    <3>1. <<>> \in Seq(1 .. 255)
      OBVIOUS
    <3> QED
      BY <1>3, <2>1, <3>1
  <2>3. m - 1 \in 0 .. Len(s) /\ m - 1 \notin bad /\ m \in 1 .. Len(s)
    BY <1>2, <2>1, <2>2
  <2>4. J[m - 1] \in Seq(1 .. 255)
    BY <2>3
  <2>5. J[m] = J[m - 1] \o StandardBytes(s[m])
    BY <1>3, <2>3
  <2>6. J[m] \in Seq(1 .. 255)
    BY <1>4, <2>3, <2>4, <2>5, Behind
  <2> QED
    BY <2>1, <2>6
<1>6. \A k \in 1 .. Len(s) : Len(J[k]) = Len(J[k - 1]) + StandardLen(s[k])
  <2> TAKE k \in 1 .. Len(s)
  <2>1. J[k - 1] \in Seq(1 .. 255) /\ StandardBytes(s[k]) \in Seq(1 .. 255)
    BY <1>2, <1>4, <1>5
  <2>2. Len(J[k - 1] \o StandardBytes(s[k])) = Len(J[k - 1]) + Len(StandardBytes(s[k]))
    <3> DEFINE a == J[k - 1]
               b == StandardBytes(s[k])
    <3>1. a \in Seq(1 .. 255) /\ b \in Seq(1 .. 255)
      BY <2>1
    <3> HIDE DEF a, b
    <3>2. Len(a \o b) = Len(a) + Len(b)
      BY <3>1, Behind
    <3> QED
      BY <3>2, Zenon DEF a, b
  <2> QED
    BY <1>3, <1>4, <2>2
<1> QED
  BY <1>3, <1>5, <1>6 DEF J, EndOf

(* What is joined stays where it is.                                       *)
LEMMA JoinedKeeps ==
  ASSUME NEW s \in Seq(Scalars), NEW k \in 0 .. Len(s), NEW m \in k .. Len(s)
  PROVE  /\ EndOf(s, k) \in Nat /\ EndOf(s, k) <= EndOf(s, m)
         /\ \A i \in 1 .. EndOf(s, k) : Joined(s)[m][i] = Joined(s)[k][i]
<1> DEFINE J == Joined(s)
           keeps(x) == Len(J[k]) <= Len(J[x]) /\ \A i \in 1 .. Len(J[k]) : J[x][i] = J[k][i]
           bad == {x \in k .. Len(s) : ~keeps(x)}
<1>1. \A x \in 0 .. Len(s) : J[x] \in Seq(1 .. 255) /\ Len(J[x]) \in Nat
  <2>1. \A x \in 0 .. Len(s) : J[x] \in Seq(1 .. 255)
    BY JoinedStep
  <2> HIDE DEF J
  <2> QED
    BY <2>1
<1>2. \A x \in 1 .. Len(s) : J[x] = J[x - 1] \o StandardBytes(s[x])
  BY JoinedStep
<1>3. \A x \in 1 .. Len(s) :
        StandardBytes(s[x]) \in Seq(1 .. 255) /\ Len(StandardBytes(s[x])) \in Nat
  <2>1. \A x \in 1 .. Len(s) : s[x] \in Scalars
    OBVIOUS
  <2>2. \A x \in 1 .. Len(s) : StandardBytes(s[x]) \in Seq(1 .. 255)
    BY <2>1, CharacterShape
  <2> QED
    BY <2>2
<1>4. bad = {}
  <2> SUFFICES ASSUME bad # {}
               PROVE  FALSE
    OBVIOUS
  <2> HIDE DEF keeps
  <2>1. PICK x \in bad : \A y \in bad : x <= y
    <3>1. bad \in SUBSET Nat
      OBVIOUS
    <3> QED
      BY <3>1, LeastOf, Zenon
  <2> USE DEF keeps
  <2>2. x # k
    <3> HIDE DEF J
    <3>1. keeps(k)
      BY <1>1
    <3> QED
      BY <2>1, <3>1
  <2>3. x - 1 \in k .. Len(s) /\ x \in 1 .. Len(s) /\ x - 1 \in 0 .. Len(s)
    BY <2>1, <2>2
  <2>4. keeps(x - 1)
    <3> HIDE DEF keeps
    <3> QED
      BY <2>1, <2>3
  <2> HIDE DEF J
  <2>5. J[x] = J[x - 1] \o StandardBytes(s[x])
    BY <1>2, <2>3
  <2>6. /\ Len(J[x]) = Len(J[x - 1]) + Len(StandardBytes(s[x]))
        /\ \A i \in 1 .. Len(J[x - 1]) : J[x][i] = J[x - 1][i]
    <3> DEFINE a == J[x - 1]
               b == StandardBytes(s[x])
    <3>1. a \in Seq(1 .. 255) /\ b \in Seq(1 .. 255)
      BY <1>1, <1>3, <2>3
    <3> HIDE DEF a, b
    <3>2. Len(a \o b) = Len(a) + Len(b) /\ \A i \in 1 .. Len(a) : (a \o b)[i] = a[i]
      BY <3>1, Behind
    <3> QED
      BY <2>5, <3>2, Zenon DEF a, b
  <2>7. keeps(x)
    <3>1. k \in 0 .. Len(s) /\ x \in 0 .. Len(s)
      BY <2>3
    <3>2. Len(J[k]) \in Nat /\ Len(J[x]) \in Nat /\ Len(J[x - 1]) \in Nat
      BY <1>1, <2>3, <3>1
    <3>3. Len(J[x - 1]) <= Len(J[x])
      <4>1. Len(StandardBytes(s[x])) \in Nat
        BY <1>3, <2>3
      <4>2. Len(J[x]) = Len(J[x - 1]) + Len(StandardBytes(s[x]))
        BY <2>6
      <4>3. \A a, b, c \in Nat : c = a + b => a <= c
        OBVIOUS
      <4> QED
        BY <3>2, <4>1, <4>2, <4>3, Zenon
    <3>4. Len(J[k]) <= Len(J[x - 1]) /\ \A i \in 1 .. Len(J[k]) : J[x - 1][i] = J[k][i]
      BY <2>4
    <3>5. \A i \in 1 .. Len(J[x - 1]) : J[x][i] = J[x - 1][i]
      BY <2>6
    <3>6. ASSUME NEW i \in 1 .. Len(J[k])
          PROVE  J[x][i] = J[k][i]
      <4>1. i \in 1 .. Len(J[x - 1])
        BY <3>2, <3>4
      <4> QED
        BY <3>4, <3>5, <4>1
    <3> QED
      BY <3>2, <3>3, <3>4, <3>6
  <2> QED
    BY <2>1, <2>7
<1>5. keeps(m)
  BY <1>4
<1> QED
  BY <1>1, <1>5 DEF EndOf

(* The bytes of every character are at its place in the text.              *)
LEMMA TextBytes ==
  ASSUME NEW s \in Seq(Scalars)
  PROVE  /\ StandardText(s) \in Seq(1 .. 255) /\ Len(StandardText(s)) = EndOf(s, Len(s))
         /\ EndOf(s, 0) = 0
         /\ \A k \in 0 .. Len(s) : EndOf(s, k) \in 0 .. Len(StandardText(s))
         /\ \A k \in 1 .. Len(s) :
              /\ EndOf(s, k) = EndOf(s, k - 1) + StandardLen(s[k])
              /\ StandardLen(s[k]) \in 1 .. 4
              /\ \A i \in 1 .. StandardLen(s[k]) :
                   StandardText(s)[EndOf(s, k - 1) + i] = StandardBytes(s[k])[i]
<1> DEFINE J == Joined(s)
           n == Len(s)
<1>1. n \in Nat /\ StandardText(s) = J[n]
  BY DEF StandardText
<1>2. /\ J[0] = <<>>
      /\ \A k \in 0 .. n : J[k] \in Seq(1 .. 255)
      /\ \A k \in 1 .. n : /\ J[k] = J[k - 1] \o StandardBytes(s[k])
                           /\ EndOf(s, k) = EndOf(s, k - 1) + StandardLen(s[k])
  BY JoinedStep
<1>3. \A k \in 0 .. n : EndOf(s, k) = Len(J[k])
  BY DEF EndOf
<1>4. \A k \in 0 .. n : /\ EndOf(s, k) \in Nat /\ EndOf(s, k) <= EndOf(s, n)
                        /\ \A i \in 1 .. EndOf(s, k) : J[n][i] = J[k][i]
  BY <1>1, JoinedKeeps
<1>5. \A k \in 1 .. n : /\ StandardLen(s[k]) \in 1 .. 4
                        /\ StandardBytes(s[k]) \in Seq(1 .. 255)
                        /\ Len(StandardBytes(s[k])) = StandardLen(s[k])
  <2>1. \A k \in 1 .. n : s[k] \in Scalars
    OBVIOUS
  <2> QED
    BY <2>1, CharacterBytes, CharacterShape
<1> HIDE DEF J, n
<1>6. ASSUME NEW k \in 1 .. n, NEW i \in 1 .. StandardLen(s[k])
      PROVE  J[n][EndOf(s, k - 1) + i] = StandardBytes(s[k])[i]
  <2>1. k - 1 \in 0 .. n /\ k \in 0 .. n
    BY <1>1
  <2>2. J[k][Len(J[k - 1]) + i] = StandardBytes(s[k])[i]
    <3> DEFINE a == J[k - 1]
               b == StandardBytes(s[k])
    <3>1. a \in Seq(1 .. 255) /\ b \in Seq(1 .. 255) /\ i \in 1 .. Len(b)
      BY <1>2, <1>5, <2>1
    <3> HIDE DEF a, b
    <3>2. (a \o b)[Len(a) + i] = b[i]
      BY <3>1, Behind
    <3>3. J[k] = a \o b
      BY <1>2 DEF a, b
    <3> QED
      BY <3>2, <3>3 DEF a, b
  <2>3. EndOf(s, k - 1) + i \in 1 .. EndOf(s, k)
    <3>1. /\ EndOf(s, k) = EndOf(s, k - 1) + StandardLen(s[k])
          /\ EndOf(s, k - 1) \in Nat /\ StandardLen(s[k]) \in 1 .. 4
      BY <1>2, <1>4, <1>5, <2>1
    <3> QED
      BY <3>1
  <2> QED
    BY <1>3, <1>4, <2>1, <2>2, <2>3
<1>7. EndOf(s, 0) = 0 /\ Len(J[n]) = EndOf(s, n)
  BY <1>1, <1>2, <1>3
<1>8. \A k \in 0 .. n : EndOf(s, k) \in 0 .. Len(J[n])
  BY <1>1, <1>4, <1>7
<1>9. J[n] \in Seq(1 .. 255)
  BY <1>1, <1>2
<1> QED
  BY <1>1, <1>2, <1>5, <1>6, <1>7, <1>8, <1>9 DEF n

(* How many bytes are left of a first character that lost its start, and   *)
(* how many characters did.                                                *)
Lost ==
  IF skip = 0 THEN 0
  ELSE StandardLen(text[1]) - skip - (IF Len(text) = 1 THEN cut ELSE 0)

Headless == IF skip = 0 THEN 0 ELSE 1

(* What the walker should get with its i-th call.                          *)
Want(i) == IF i <= Lost THEN UNICODE_MISSING_CHARACTER ELSE text[Headless + i - Lost]

StringIs ==
  /\ text \in Seq(Scalars) /\ Len(text) >= 1
  /\ skip \in 0 .. 3 /\ cut \in 0 .. 3
  /\ skip < StandardLen(text[1]) /\ cut < StandardLen(text[Len(text)])
  /\ skip + cut < Len(StandardText(text))
  /\ bytes = SubSeq(StandardText(text), skip + 1, Len(StandardText(text)) - cut) \o <<0>>

LEMMA Numbers ==
  ASSUME NEW s \in Seq(1 .. 255)
  PROVE  /\ s \in Seq(Nat) /\ Len(s) \in Nat
         /\ \A i \in 1 .. Len(s) : s[i] \in 1 .. 255
<1>1. Len(s) \in Nat
  OBVIOUS
<1>2. \A i \in 1 .. Len(s) : s[i] \in 1 .. 255
  <2> TAKE i \in 1 .. Len(s)
  <2> QED
    BY ElementOfSeq, Zenon
<1>3. s \in Seq(Nat)
  <2>1. 1 .. 255 \subseteq Nat
    OBVIOUS
  <2> QED
    BY <2>1, SeqMonotonic, Zenon
<1> QED
  BY <1>1, <1>2, <1>3

(* The string, byte by byte, and where its characters end.                 *)
LEMMA StringBytes ==
  ASSUME StringIs
  PROVE  /\ bytes \in Seq(Nat)
         /\ Len(bytes) = EndOf(text, Len(text)) - skip - cut + 1
         /\ Len(bytes) \in Nat /\ Len(bytes) > 1
         /\ \A p \in 1 .. Len(bytes) - 1 :
              bytes[p] = StandardText(text)[skip + p] /\ bytes[p] # 0
         /\ bytes[Len(bytes)] = 0
<1> DEFINE all == StandardText(text)
           part == SubSeq(all, skip + 1, Len(all) - cut)
<1>1. /\ all \in Seq(1 .. 255) /\ Len(all) = EndOf(text, Len(text)) /\ Len(all) \in Nat
      /\ skip \in 0 .. 3 /\ cut \in 0 .. 3 /\ skip + cut < Len(all)
      /\ bytes = part \o <<0>>
  BY TextBytes DEF StringIs
<1> HIDE DEF all
<1>2. \A i \in skip + 1 .. Len(all) - cut : all[i] \in 1 .. 255
  <2>1. \A i \in skip + 1 .. Len(all) - cut : i \in 1 .. Len(all)
    <3> DEFINE whole == Len(all)
    <3>1. skip \in 0 .. 3 /\ cut \in 0 .. 3 /\ whole \in Nat
      BY <1>1, Zenon
    <3> HIDE DEF whole
    <3>2. \A i \in skip + 1 .. whole - cut : i \in 1 .. whole
      BY <3>1
    <3> QED
      BY <3>2 DEF whole
  <2>2. \A i \in 1 .. Len(all) : all[i] \in 1 .. 255
    BY <1>1, Numbers
  <2> QED
    BY <2>1, <2>2
<1>3. /\ part \in Seq(1 .. 255) /\ Len(part) = Len(all) - cut - skip
      /\ \A p \in 1 .. Len(part) : part[p] = all[skip + p]
  <2>1. Len(all) - cut \in Int /\ skip + 1 \in Int /\ skip + 1 <= Len(all) - cut + 1
    BY <1>1
  <2>2. /\ part \in Seq(1 .. 255)
        /\ Len(part) = (Len(all) - cut) - (skip + 1) + 1
        /\ \A p \in 1 .. (Len(all) - cut) - (skip + 1) + 1 : part[p] = all[(skip + 1) + p - 1]
    <3> DEFINE m == skip + 1
               n == Len(all) - cut
    <3>1. m \in Int /\ n \in Int /\ m <= n + 1 /\ \A i \in m .. n : all[i] \in 1 .. 255
      BY <1>2, <2>1
    <3> HIDE DEF m, n
    <3>2. /\ SubSeq(all, m, n) \in Seq(1 .. 255)
          /\ Len(SubSeq(all, m, n)) = IF m <= n THEN n - m + 1 ELSE 0
          /\ \A p \in 1 .. n - m + 1 : SubSeq(all, m, n)[p] = all[m + p - 1]
      BY <3>1, SubSeqProperties
    <3>3. (IF m <= n THEN n - m + 1 ELSE 0) = n - m + 1
      BY <3>1
    <3> QED
      BY <3>2, <3>3, Zenon DEF m, n
  <2>3. (Len(all) - cut) - (skip + 1) + 1 = Len(all) - cut - skip
    BY <1>1
  <2> HIDE DEF part
  <2>4. \A p \in 1 .. Len(part) : (skip + 1) + p - 1 = skip + p
    BY <1>1, <2>2
  <2> QED
    BY <2>2, <2>3, <2>4
<1> HIDE DEF part
<1>4. Len(part) \in Nat /\ Len(part) >= 1
  BY <1>1, <1>3
<1> DEFINE nul == <<0>>
<1>5. part \in Seq(Nat) /\ nul \in Seq(Nat) /\ Len(nul) = 1 /\ nul[1] = 0
  <2>1. part \in Seq(Nat)
    BY <1>3, Numbers
  <2> QED
    BY <2>1
<1>6. /\ bytes \in Seq(Nat) /\ Len(bytes) = Len(part) + 1
      /\ \A p \in 1 .. Len(part) : bytes[p] = part[p]
      /\ bytes[Len(part) + 1] = 0
  <2>1. bytes = part \o nul
    BY <1>1
  <2> HIDE DEF nul
  <2>2. /\ part \o nul \in Seq(Nat) /\ Len(part \o nul) = Len(part) + Len(nul)
        /\ \A i \in 1 .. Len(part) : (part \o nul)[i] = part[i]
        /\ \A i \in 1 .. Len(nul) : (part \o nul)[Len(part) + i] = nul[i]
    <3>1. part \in Seq(Nat) /\ nul \in Seq(Nat)
      BY <1>5
    <3> QED
      BY <3>1, Behind
  <2> QED
    BY <1>5, <2>1, <2>2
<1>7. \A p \in 1 .. Len(part) : part[p] \in 1 .. 255
  BY <1>3, Numbers
<1>8. Len(bytes) - 1 = Len(part)
  BY <1>4, <1>6
<1>9. Len(bytes) = EndOf(text, Len(text)) - skip - cut + 1
  BY <1>1, <1>3, <1>6
<1>10. \A p \in 1 .. Len(bytes) - 1 : bytes[p] = all[skip + p] /\ bytes[p] # 0
  <2>1. \A b \in 1 .. 255 : b # 0
    OBVIOUS
  <2> QED
    BY <1>3, <1>6, <1>7, <1>8, <2>1, Zenon
<1>11. Len(bytes) \in Nat /\ Len(bytes) > 1 /\ bytes[Len(bytes)] = 0
  BY <1>4, <1>6
<1> QED
  BY <1>6, <1>9, <1>10, <1>11 DEF all

(* The place of each character in the string.                              *)
LEMMA Places ==
  ASSUME StringIs
  PROVE  /\ EndOf(text, 0) = 0 /\ Lost \in Nat /\ Headless \in 0 .. 1
         /\ \A k \in 0 .. Len(text) : EndOf(text, k) \in Nat
         /\ \A k \in 1 .. Len(text) :
              /\ text[k] \in Scalars /\ StandardLen(text[k]) \in 1 .. 4
              /\ EndOf(text, k) = EndOf(text, k - 1) + StandardLen(text[k])
              /\ \A i \in 1 .. StandardLen(text[k]) :
                   StandardText(text)[EndOf(text, k - 1) + i] = StandardBytes(text[k])[i]
         /\ EndOf(text, 1) = StandardLen(text[1])
         /\ \A k \in 0 .. Len(text) - 1 :
              EndOf(text, k) <= EndOf(text, Len(text)) - StandardLen(text[Len(text)])
         /\ skip > 0 /\ Len(text) = 1 => Lost = Len(bytes) - 1
         /\ skip > 0 /\ Len(text) > 1 => Lost = EndOf(text, 1) - skip /\ Lost > 0
<1>1. /\ text \in Seq(Scalars) /\ Len(text) \in Nat /\ Len(text) >= 1
      /\ skip \in 0 .. 3 /\ cut \in 0 .. 3
      /\ skip < StandardLen(text[1]) /\ cut < StandardLen(text[Len(text)])
      /\ skip + cut < Len(StandardText(text))
  BY DEF StringIs
<1>2. /\ EndOf(text, 0) = 0 /\ Len(StandardText(text)) = EndOf(text, Len(text))
      /\ \A k \in 0 .. Len(text) : EndOf(text, k) \in 0 .. Len(StandardText(text))
      /\ \A k \in 1 .. Len(text) :
           /\ EndOf(text, k) = EndOf(text, k - 1) + StandardLen(text[k])
           /\ StandardLen(text[k]) \in 1 .. 4
           /\ \A i \in 1 .. StandardLen(text[k]) :
                StandardText(text)[EndOf(text, k - 1) + i] = StandardBytes(text[k])[i]
  BY <1>1, TextBytes
<1>3. \A k \in 1 .. Len(text) : text[k] \in Scalars
  BY <1>1
<1>4. EndOf(text, 1) = StandardLen(text[1]) /\ StandardLen(text[1]) \in 1 .. 4
  <2>1. 1 \in 1 .. Len(text) /\ 1 - 1 = 0
    BY <1>1
  <2>2. EndOf(text, 1) = EndOf(text, 0) + StandardLen(text[1]) /\ StandardLen(text[1]) \in 1 .. 4
    BY <1>2, <2>1
  <2> QED
    BY <1>2, <2>2
<1>5. ASSUME NEW k \in 0 .. Len(text) - 1
      PROVE  EndOf(text, k) <= EndOf(text, Len(text)) - StandardLen(text[Len(text)])
  <2>1. k \in 0 .. Len(text) /\ Len(text) - 1 \in k .. Len(text) /\ Len(text) \in 1 .. Len(text)
        /\ Len(text) - 1 \in 0 .. Len(text)
    BY <1>1
  <2>2. EndOf(text, k) \in Nat /\ EndOf(text, k) <= EndOf(text, Len(text) - 1)
    BY <1>1, <2>1, JoinedKeeps, Zenon
  <2>3. /\ EndOf(text, Len(text)) = EndOf(text, Len(text) - 1) + StandardLen(text[Len(text)])
        /\ StandardLen(text[Len(text)]) \in 1 .. 4
        /\ EndOf(text, Len(text) - 1) \in 0 .. Len(StandardText(text))
    BY <1>2, <2>1
  <2> QED
    BY <2>2, <2>3
<1>6. skip > 0 /\ Len(text) = 1 => Lost = Len(bytes) - 1 /\ Lost \in Nat
  <2> SUFFICES ASSUME skip > 0, Len(text) = 1
               PROVE  Lost = Len(bytes) - 1 /\ Lost \in Nat
    OBVIOUS
  <2>1. Lost = EndOf(text, 1) - skip - cut
    BY <1>1, <1>4 DEF Lost
  <2>2. Len(bytes) = EndOf(text, 1) - skip - cut + 1 /\ Len(bytes) > 1
    BY StringBytes
  <2> QED
    BY <1>1, <1>4, <2>1, <2>2
<1>7. skip > 0 /\ Len(text) > 1 => Lost = EndOf(text, 1) - skip /\ Lost > 0 /\ Lost \in Nat
  BY <1>1, <1>4 DEF Lost
<1>8. skip = 0 => Lost = 0
  BY DEF Lost
<1>9. Lost \in Nat
  <2>1. \A x, y \in Nat : y >= 1 => x = 0 \/ (x > 0 /\ y = 1) \/ (x > 0 /\ y > 1)
    OBVIOUS
  <2>2. skip \in Nat /\ Len(text) \in Nat /\ Len(text) >= 1
    BY <1>1
  <2>3. 0 \in Nat
    OBVIOUS
  <2> QED
    BY <1>6, <1>7, <1>8, <2>1, <2>2, <2>3, Zenon
<1>10. \A k \in 0 .. Len(text) : EndOf(text, k) \in Nat
  BY <1>1, <1>2
<1>11. Headless \in 0 .. 1
  BY DEF Headless
<1> QED
  BY <1>2, <1>3, <1>4, <1>5, <1>6, <1>7, <1>9, <1>10, <1>11

(* Before a character of which the walker gets all, it has seen no less    *)
(* than the string has lost.                                               *)
LEMMA PlaceOf ==
  ASSUME StringIs, skip > 0 => Len(text) > 1, NEW j \in Headless .. Len(text)
  PROVE  /\ j \in 0 .. Len(text) /\ EndOf(text, j) - skip \in Nat
         /\ j < Len(text) => EndOf(text, j) - skip < Len(bytes) - 1
<1>1. /\ text \in Seq(Scalars) /\ Len(text) \in Nat /\ Len(text) >= 1
      /\ skip \in 0 .. 3 /\ cut \in 0 .. 3 /\ cut < StandardLen(text[Len(text)])
  BY DEF StringIs
<1>2. j \in 0 .. Len(text) /\ (skip > 0 => j >= 1)
  BY <1>1 DEF Headless
<1>3. EndOf(text, j) \in Nat
  BY <1>2, Places
<1>4. skip > 0 => EndOf(text, j) - skip \in Nat
  <2> SUFFICES ASSUME skip > 0
               PROVE  EndOf(text, j) - skip \in Nat
    OBVIOUS
  <2>1. 1 \in 0 .. Len(text) /\ j \in 1 .. Len(text)
    BY <1>1, <1>2
  <2>2. EndOf(text, 1) \in Nat /\ EndOf(text, 1) <= EndOf(text, j)
    BY <1>1, <2>1, JoinedKeeps, Zenon
  <2>3. Lost = EndOf(text, 1) - skip /\ Lost > 0
    BY Places
  <2> QED
    BY <1>1, <1>3, <2>2, <2>3
<1>5. EndOf(text, j) - skip \in Nat
  BY <1>1, <1>3, <1>4
<1>6. j < Len(text) => EndOf(text, j) - skip < Len(bytes) - 1
  <2> SUFFICES ASSUME j < Len(text)
               PROVE  EndOf(text, j) - skip < Len(bytes) - 1
    OBVIOUS
  <2>1. j \in 0 .. Len(text) - 1 /\ Len(text) \in 1 .. Len(text)
    BY <1>1, <1>2
  <2>2. EndOf(text, j) <= EndOf(text, Len(text)) - StandardLen(text[Len(text)])
    BY <2>1, Places
  <2>3. EndOf(text, Len(text)) \in Nat /\ StandardLen(text[Len(text)]) \in 1 .. 4
    BY <1>1, <2>1, Places
  <2>4. Len(bytes) = EndOf(text, Len(text)) - skip - cut + 1
    BY StringBytes
  <2>5. \A x, y \in Nat : \A m \in 1 .. 4 : \A h, t \in 0 .. 3 :
          x <= y - m /\ t < m => x - h < (y - h - t + 1) - 1
    OBVIOUS
  <2> QED
    BY <1>1, <1>3, <2>2, <2>3, <2>4, <2>5, Zenon
<1> QED
  BY <1>2, <1>5, <1>6

(* What the walker reads where a character lost its start.                 *)
LEMMA MissingByte ==
  ASSUME StringIs, skip > 0, NEW q \in Nat, q < Lost
  PROVE  /\ q + 1 \in 1 .. Len(bytes) - 1
         /\ utf8_codepoint(bytes, q) = <<UNICODE_MISSING_CHARACTER, 1>>
<1>1. /\ text \in Seq(Scalars) /\ Len(text) \in Nat /\ Len(text) >= 1
      /\ skip \in 0 .. 3 /\ cut \in 0 .. 3 /\ skip < StandardLen(text[1])
  BY DEF StringIs
<1>2. 1 \in 1 .. Len(text) /\ 1 - 1 = 0
  BY <1>1
<1>3. Len(bytes) \in Nat /\ Len(bytes) > 1
  BY StringBytes
<1>4. Lost <= Len(bytes) - 1 /\ Lost <= StandardLen(text[1]) - skip /\ Lost \in Nat
      /\ StandardLen(text[1]) \in 1 .. 4
  <2>1. StandardLen(text[1]) \in 1 .. 4 /\ Lost \in Nat
    BY <1>2, Places
  <2>2. Lost <= StandardLen(text[1]) - skip
    BY <1>1, <2>1 DEF Lost
  <2>3. ASSUME Len(text) = 1
        PROVE  Lost <= Len(bytes) - 1
    <3>1. Lost = Len(bytes) - 1
      BY <2>3, Places
    <3> QED
      BY <1>3, <2>1, <2>2, <3>1
  <2>4. ASSUME Len(text) > 1
        PROVE  Lost <= Len(bytes) - 1
    <3>1. Lost = EndOf(text, 1) - skip /\ 1 < Len(text)
      BY <2>4, Places
    <3>2. 1 \in Headless .. Len(text)
      BY <1>1 DEF Headless
    <3>3. EndOf(text, 1) - skip \in Nat
          /\ EndOf(text, 1) - skip < Len(bytes) - 1
      BY <2>4, <3>1, <3>2, PlaceOf
    <3> QED
      BY <1>1, <1>3, <2>1, <2>2, <3>1, <3>3
  <2>5. Lost <= Len(bytes) - 1
    <3>1. Len(text) = 1 \/ Len(text) > 1
      <4>1. \A y \in Nat : y >= 1 => y = 1 \/ y > 1
        OBVIOUS
      <4> QED
        BY <1>1, <4>1, Zenon
    <3> QED
      BY <2>3, <2>4, <3>1
  <2> QED
    BY <2>1, <2>2, <2>5
<1>5. q + 1 \in 1 .. Len(bytes) - 1
  BY <1>3, <1>4
<1>6. utf8_byte_len(bytes[q + 1]) = 0
  <2> DEFINE k == skip + q + 1
  <2>1. k \in 2 .. StandardLen(text[1]) /\ k \in 1 .. StandardLen(text[1]) /\ k = skip + (q + 1)
    BY <1>1, <1>4
  <2>2. bytes[q + 1] = StandardText(text)[skip + (q + 1)]
    BY <1>5, StringBytes
  <2>3. StandardText(text)[EndOf(text, 0) + k] = StandardBytes(text[1])[k]
    BY <1>2, <2>1, Places
  <2>4. EndOf(text, 0) = 0 /\ text[1] \in Scalars
    BY <1>2, Places
  <2>5. 0 + k = k
    BY <2>1
  <2>6. utf8_byte_len(StandardBytes(text[1])[k]) = 0
    BY <2>1, <2>4, CharacterShape
  <2> HIDE DEF k
  <2> QED
    BY <2>1, <2>2, <2>3, <2>4, <2>5, <2>6, Zenon
<1>7. q + 0 < Len(bytes) /\ q + 0 + 1 = q + 1
  BY <1>3, <1>5
<1> QED
  BY <1>5, <1>6, <1>7 DEF utf8_codepoint

(* What it reads of a character that is there, and where it goes.          *)
LEMMA WholeCharacter ==
  ASSUME StringIs, skip > 0 => Len(text) > 1, NEW j \in Headless .. Len(text) - 1,
         j + 1 = Len(text) => cut = 0
  PROVE  /\ EndOf(text, j) - skip + 1 \in 1 .. Len(bytes) - 1
         /\ utf8_codepoint(bytes, EndOf(text, j) - skip)
              = <<text[j + 1], StandardLen(text[j + 1])>>
         /\ EndOf(text, j) - skip + StandardLen(text[j + 1]) = EndOf(text, j + 1) - skip
<1> DEFINE p == EndOf(text, j) - skip
           c == text[j + 1]
<1>1. /\ text \in Seq(Scalars) /\ Len(text) \in Nat /\ Len(text) >= 1
      /\ skip \in 0 .. 3 /\ cut \in 0 .. 3
  BY DEF StringIs
<1>2. j \in Headless .. Len(text) /\ j < Len(text) /\ j + 1 \in 1 .. Len(text)
      /\ (j + 1) - 1 = j /\ j + 1 \in Headless .. Len(text)
  BY <1>1 DEF Headless
<1>3. p \in Nat /\ p < Len(bytes) - 1
  BY <1>2, PlaceOf
<1>4. Len(bytes) \in Nat /\ bytes \in Seq(Nat)
      /\ Len(bytes) = EndOf(text, Len(text)) - skip - cut + 1
  BY StringBytes
<1>5. /\ c \in Scalars /\ StandardLen(c) \in 1 .. 4
      /\ EndOf(text, j + 1) = EndOf(text, j) + StandardLen(c)
      /\ \A i \in 1 .. StandardLen(c) :
           StandardText(text)[EndOf(text, j) + i] = StandardBytes(c)[i]
  <2>1. /\ c \in Scalars /\ StandardLen(c) \in 1 .. 4
        /\ EndOf(text, j + 1) = EndOf(text, (j + 1) - 1) + StandardLen(c)
        /\ \A i \in 1 .. StandardLen(c) :
             StandardText(text)[EndOf(text, (j + 1) - 1) + i] = StandardBytes(c)[i]
    BY <1>2, Places
  <2> QED
    BY <1>2, <2>1, Zenon
<1>6. EndOf(text, j) \in Nat /\ EndOf(text, j + 1) \in Nat
  BY <1>1, <1>2, <1>3, <1>5, Places
<1>7. EndOf(text, j + 1) - skip <= Len(bytes) - 1
  <2>1. CASE j + 1 = Len(text)
    BY <1>1, <1>4, <1>6, <2>1
  <2>2. CASE j + 1 < Len(text)
    <3>1. EndOf(text, j + 1) - skip < Len(bytes) - 1
      BY <1>2, <2>2, PlaceOf
    <3> QED
      BY <1>1, <1>4, <1>6, <3>1
  <2> QED
    BY <1>1, <1>2, <2>1, <2>2
<1>11. p + StandardLen(c) = EndOf(text, j + 1) - skip
  BY <1>1, <1>5, <1>6
<1>8. \A i \in 0 .. StandardLen(c) - 1 :
        p + i < Len(bytes) /\ bytes[p + i + 1] = StandardBytes(c)[i + 1]
  <2> TAKE i \in 0 .. StandardLen(c) - 1
  <2>1. p + i + 1 \in 1 .. Len(bytes) - 1
    <3>1. StandardLen(c) \in 1 .. 4 /\ p + StandardLen(c) <= Len(bytes) - 1
      BY <1>5, <1>7, <1>11
    <3> HIDE DEF p, c
    <3> QED
      BY <1>3, <1>4, <3>1
  <2>2. bytes[p + i + 1] = StandardText(text)[skip + (p + i + 1)]
    BY <2>1, StringBytes
  <2>3. skip + (p + i + 1) = EndOf(text, j) + (i + 1) /\ i + 1 \in 1 .. StandardLen(c)
    <3>1. \A x, y \in Nat : \A k \in Nat : y + ((x - y) + k + 1) = x + (k + 1)
      OBVIOUS
    <3>2. \A m \in 1 .. 4 : \A k \in 0 .. m - 1 : k \in Nat /\ k + 1 \in 1 .. m
      OBVIOUS
    <3>3. skip \in Nat /\ EndOf(text, j) \in Nat /\ StandardLen(c) \in 1 .. 4
      BY <1>1, <1>5, <1>6
    <3>4. i \in Nat /\ i + 1 \in 1 .. StandardLen(c)
      BY <3>2, <3>3, Zenon
    <3> QED
      BY <3>1, <3>3, <3>4, Zenon
  <2>4. p + i < Len(bytes)
    BY <1>3, <1>4, <2>1
  <2> HIDE DEF p, c
  <2> QED
    BY <1>5, <2>2, <2>3, <2>4
<1>9. utf8_codepoint(bytes, p) = <<c, StandardLen(c)>>
  <2> HIDE DEF p, c
  <2> QED
    BY <1>3, <1>4, <1>5, <1>8, ReadsBack
<1>10. p + 1 \in 1 .. Len(bytes) - 1
  BY <1>1, <1>3, <1>4
<1> QED
  BY <1>9, <1>10, <1>11

(* Whatever is there, the decoder returns a number, and a length that is   *)
(* the one that the first byte announces.                                  *)
LEMMA ReadsNumber ==
  ASSUME NEW b \in Seq(Nat), NEW from \in Nat, NEW n \in 2 .. 4,
         from + 1 \in 1 .. Len(b), utf8_byte_len(b[from + 1]) = n
  PROVE  utf8_codepoint(b, from)[1] \in Nat /\ utf8_codepoint(b, from)[2] = n
<1> DEFINE byte(i) == IF from + i < Len(b) THEN b[from + i + 1] ELSE 0
           unread(m, i) == utf8_starting_shift(m) - data_bits(m, 0) - i * data_bits(m, 1)
           cur_shift(m, i) == IF unread(m, i) > 0 THEN unread(m, i) ELSE 0
           part(m, i) ==
             IF i < m THEN (byte(i) % 2 ^ data_bits(m, i)) * 2 ^ cur_shift(m, i) ELSE 0
<1>1. Len(b) \in Nat /\ from + 0 < Len(b) /\ from + 0 + 1 = from + 1
  OBVIOUS
<1>2. utf8_byte_len(byte(0)) = n
  BY <1>1
<1>3. \A i \in 0 .. 3 : byte(i) \in Nat
  <2> TAKE i \in 0 .. 3
  <2>1. from + i < Len(b) => b[from + i + 1] \in Nat
    <3> HAVE from + i < Len(b)
    <3>1. from + i + 1 \in 1 .. Len(b)
      BY <1>1
    <3> QED
      BY <3>1, ElementOfSeq, Zenon
  <2>2. 0 \in Nat
    OBVIOUS
  <2> QED
    BY <2>1, <2>2, Zenon
<1>4. utf8_codepoint(b, from) = <<part(n, 0) + part(n, 1) + part(n, 2) + part(n, 3), n>>
  <2>1. utf8_codepoint(b, from) =
          LET m == utf8_byte_len(byte(0)) IN
            CASE m <= 0 -> <<UNICODE_MISSING_CHARACTER, 1>>
              [] m = 1 -> <<byte(0), 1>>
              [] OTHER -> <<part(m, 0) + part(m, 1) + part(m, 2) + part(m, 3), m>>
    BY DEF utf8_codepoint
  <2> DEFINE m == utf8_byte_len(byte(0))
  <2>2. m \in 2 .. 4 =>
          utf8_codepoint(b, from) = <<part(m, 0) + part(m, 1) + part(m, 2) + part(m, 3), m>>
    <3> HIDE DEF byte, part
    <3> QED
      BY <2>1
  <2>3. m = n /\ m \in 2 .. 4
    BY <1>2
  <2> HIDE DEF part, byte, m
  <2> QED
    BY <2>2, <2>3, Zenon
<1>5. \A i \in 0 .. 3 : part(n, i) \in Nat
  <2> TAKE i \in 0 .. 3
  <2> HIDE DEF byte, part, cur_shift
  <2>1. i < n => data_bits(n, i) \in {3, 4, 5, 6} /\ cur_shift(n, i) \in {0, 6, 12, 18}
    BY DEF data_bits, utf8_starting_shift, cur_shift
  <2>2. /\ 2 ^ 3 \in Nat /\ 2 ^ 4 \in Nat /\ 2 ^ 5 \in Nat /\ 2 ^ 6 \in Nat
        /\ 2 ^ 3 > 0 /\ 2 ^ 4 > 0 /\ 2 ^ 5 > 0 /\ 2 ^ 6 > 0
        /\ 2 ^ 0 \in Nat /\ 2 ^ 12 \in Nat /\ 2 ^ 18 \in Nat
    BY SMT
  <2>3. \A x \in {3, 4, 5, 6} : 2 ^ x \in Nat /\ 2 ^ x > 0
    BY <2>2, Zenon
  <2>4. \A x \in {0, 6, 12, 18} : 2 ^ x \in Nat
    BY <2>2, Zenon
  <2>5. \A x, y, z \in Nat : y > 0 => (x % y) * z \in Nat
    BY SMT
  <2>6. CASE i < n
    <3>1. part(n, i) = (byte(i) % 2 ^ data_bits(n, i)) * 2 ^ cur_shift(n, i)
      BY <2>6 DEF part
    <3>2. 2 ^ data_bits(n, i) \in Nat /\ 2 ^ data_bits(n, i) > 0 /\ 2 ^ cur_shift(n, i) \in Nat
      BY <2>1, <2>3, <2>4, <2>6, Zenon
    <3>3. byte(i) \in Nat
      BY <1>3, Zenon
    <3> HIDE DEF part, byte, cur_shift
    <3>4. (byte(i) % 2 ^ data_bits(n, i)) * 2 ^ cur_shift(n, i) \in Nat
      BY <2>5, <3>2, <3>3, Zenon
    <3> QED
      BY <3>1, <3>4, Zenon
  <2>7. CASE ~(i < n)
    BY <2>7, SMT DEF part
  <2> QED
    BY <2>6, <2>7
<1> HIDE DEF part
<1> QED
  BY <1>4, <1>5

(* A character that is cut off leads the walker behind the end.            *)
LEMMA CutCharacter ==
  ASSUME StringIs, skip > 0 => Len(text) > 1, cut > 0
  PROVE  LET p == EndOf(text, Len(text) - 1) - skip
             read == utf8_codepoint(bytes, p)
         IN  /\ p \in Nat /\ p + 1 \in 1 .. Len(bytes) - 1
             /\ read[1] \in Nat /\ read[2] \in Nat /\ p + read[2] >= Len(bytes)
<1> DEFINE n == Len(text)
           p == EndOf(text, n - 1) - skip
           c == text[n]
           read == utf8_codepoint(bytes, p)
<1>1. /\ text \in Seq(Scalars) /\ n \in Nat /\ n >= 1
      /\ skip \in 0 .. 3 /\ cut \in 0 .. 3 /\ cut < StandardLen(c)
  BY DEF StringIs
<1>2. n - 1 \in Headless .. n /\ n - 1 < n /\ n \in 1 .. n
  BY <1>1 DEF Headless
<1>3. p \in Nat /\ p < Len(bytes) - 1
  BY <1>2, PlaceOf
<1>4. /\ Len(bytes) \in Nat /\ bytes \in Seq(Nat)
      /\ Len(bytes) = EndOf(text, n) - skip - cut + 1
  BY StringBytes
<1>5. /\ c \in Scalars /\ StandardLen(c) \in 1 .. 4
      /\ EndOf(text, n) = EndOf(text, n - 1) + StandardLen(c)
      /\ \A i \in 1 .. StandardLen(c) :
           StandardText(text)[EndOf(text, n - 1) + i] = StandardBytes(c)[i]
  BY <1>2, Places
<1>6. EndOf(text, n - 1) \in Nat
  <2>1. n - 1 \in 0 .. n
    BY <1>1
  <2> QED
    BY <2>1, Places
<1>7. utf8_byte_len(bytes[p + 1]) = StandardLen(c)
  <2>1. p + 1 \in 1 .. Len(bytes) - 1
    BY <1>3, <1>4
  <2>2. bytes[p + 1] = StandardText(text)[skip + (p + 1)]
    BY <2>1, StringBytes
  <2>3. skip + (p + 1) = EndOf(text, n - 1) + 1 /\ 1 \in 1 .. StandardLen(c)
    BY <1>1, <1>5, <1>6
  <2>4. utf8_byte_len(StandardBytes(c)[1]) = StandardLen(c)
    BY <1>5, CharacterShape
  <2> HIDE DEF p, c, n
  <2> QED
    BY <1>5, <2>2, <2>3, <2>4
<1>8. StandardLen(c) \in 2 .. 4
  BY <1>1, <1>5
<1>9. p + 1 \in 1 .. Len(bytes) - 1 /\ p + StandardLen(c) >= Len(bytes)
  <2>1. p + 1 \in 1 .. Len(bytes) - 1
    BY <1>3, <1>4
  <2>2. skip \in Nat /\ cut \in Nat /\ cut >= 1 /\ StandardLen(c) \in Nat
    BY <1>1, <1>5
  <2>3. /\ p = EndOf(text, n - 1) - skip
        /\ EndOf(text, n) = EndOf(text, n - 1) + StandardLen(c)
        /\ Len(bytes) = EndOf(text, n) - skip - cut + 1
    BY <1>4, <1>5
  <2> HIDE DEF p, n, c
  <2>4. p + StandardLen(c) >= Len(bytes)
    BY <1>6, <2>2, <2>3
  <2> QED
    BY <2>1, <2>4
<1> HIDE DEF p, c, n
<1>10. read[1] \in Nat /\ read[2] = StandardLen(c)
  <2>1. p + 1 \in 1 .. Len(bytes)
    BY <1>3, <1>4
  <2> QED
    BY <1>3, <1>4, <1>7, <1>8, <2>1, ReadsNumber
<1> QED
  BY <1>3, <1>8, <1>9, <1>10 DEF n, p

(* The first n codepoints that the walker got are the ones it should get.  *)
AsWanted(n) == \A i \in 1 .. n : decoded[i] = Want(i)

(* The walker is in a first character that lost its start, before the next *)
(* whole one, or behind a last one that lost its end.                      *)
InLost ==
  /\ utf8_pc \in {"walk", "end"} /\ skip > 0 /\ at \in 0 .. Lost
  /\ Len(text) > 1 => at < Lost
  /\ utf8_pc = "end" => Len(text) = 1 /\ at = Lost
  /\ Len(decoded) = at /\ AsWanted(at)

AtCharacter(j) ==
  /\ utf8_pc \in {"walk", "end"}
  /\ skip > 0 => Len(text) > 1
  /\ j = Len(text) => cut = 0
  /\ utf8_pc = "end" => j = Len(text)
  /\ at = EndOf(text, j) - skip
  /\ Len(decoded) = Lost + j - Headless /\ AsWanted(Len(decoded))

Past ==
  /\ utf8_pc \in {"walk", "overrun"} /\ cut > 0
  /\ skip > 0 => Len(text) > 1
  /\ at >= Len(bytes)
  /\ Len(decoded) = Lost + Len(text) - Headless

WalkInv ==
  /\ StringIs /\ at \in Nat /\ decoded \in Seq(Nat)
  /\ InLost \/ (\E j \in Headless .. Len(text) : AtCharacter(j)) \/ Past

Utf8Inv ==
  /\ utf8_pc \in {"idle", "encoded", "walk", "end", "overrun"}
  /\ utf8_pc = "encoded" =>
       \E c \in Codepoints : text = <<c>> /\ encoded = codepoint_to_utf8(c)
  /\ utf8_pc \in {"walk", "end", "overrun"} => WalkInv

LEMMA Appended ==
  ASSUME NEW d \in Seq(Nat), NEW x \in Nat
  PROVE  /\ Append(d, x) \in Seq(Nat) /\ Len(Append(d, x)) = Len(d) + 1
         /\ Len(d) \in Nat
         /\ \A i \in 1 .. Len(d) : Append(d, x)[i] = d[i]
         /\ Append(d, x)[Len(d) + 1] = x
OBVIOUS

LEMMA CodepointsAreScalars ==
  \A c \in Codepoints : c \in Scalars
<1>1. UNICODE_MAX \in Int
  BY DEF UNICODE_MAX
<1>2. \A c \in 1 .. UNICODE_MAX : c \in Nat /\ 1 <= c /\ c <= UNICODE_MAX
  BY <1>1
<1> QED
  BY <1>2, Utf8Assumption DEF Scalars

LEMMA WalkStarts ==
  ASSUME NEW n \in 1 .. MaxText, MaxText \in Nat, NEW s \in [1 .. n -> Codepoints],
         NEW first \in 0 .. 3, NEW last \in 0 .. 3, Walk(s, first, last)
  PROVE  Utf8Inv'
<1>1. s \in Seq(Scalars) /\ Len(s) = n /\ n >= 1 /\ n \in Nat
  <2>1. \A c \in Codepoints : c \in Scalars
    BY CodepointsAreScalars
  <2>2. \A i \in 1 .. n : s[i] \in Scalars
    BY <2>1, Zenon
  <2>3. n \in Nat /\ n >= 1
    OBVIOUS
  <2>4. s = [i \in 1 .. n |-> s[i]]
    BY Zenon
  <2>5. [i \in 1 .. n |-> s[i]] \in Seq(Scalars) /\ Len([i \in 1 .. n |-> s[i]]) = n
    BY <2>2, <2>3
  <2> QED
    BY <2>3, <2>4, <2>5, Zenon
<1>2. /\ utf8_pc' = "walk" /\ text' = s /\ skip' = first /\ cut' = last
      /\ at' = 0 /\ decoded' = <<>>
      /\ bytes' = SubSeq(StandardText(s), first + 1, Len(StandardText(s)) - last) \o <<0>>
      /\ first < StandardLen(s[1]) /\ last < StandardLen(s[Len(s)])
      /\ first + last < Len(StandardText(s))
  BY DEF Walk
<1>3. StringIs'
  BY <1>1, <1>2 DEF StringIs
<1>4. /\ EndOf(s, 0) = 0 /\ Len(StandardText(s)) = EndOf(s, Len(s))
      /\ EndOf(s, 1) = EndOf(s, 0) + StandardLen(s[1]) /\ StandardLen(s[1]) \in 1 .. 4
  <2>1. 1 \in 1 .. Len(s) /\ 1 - 1 = 0
    BY <1>1
  <2>2. /\ EndOf(s, 0) = 0 /\ Len(StandardText(s)) = EndOf(s, Len(s))
        /\ EndOf(s, 1) = EndOf(s, 1 - 1) + StandardLen(s[1]) /\ StandardLen(s[1]) \in 1 .. 4
    BY <1>1, <2>1, TextBytes
  <2> QED
    BY <2>1, <2>2, Zenon
<1>5. at' \in Nat /\ decoded' \in Seq(Nat) /\ Len(decoded)' = 0
  BY <1>2
<1>6. CASE first = 0
  <2>1. Headless' = 0 /\ Lost' = 0
    BY <1>2, <1>6 DEF Headless, Lost
  <2>2. AtCharacter(0)'
    <3>1. EndOf(text', 0) = 0
      BY <1>2, <1>4
    <3>2. at' = EndOf(text', 0) - skip'
      BY <1>2, <1>6, <3>1
    <3>3. AsWanted(Len(decoded))'
      BY <1>5 DEF AsWanted
    <3>4. (skip > 0 => Len(text) > 1)' /\ (0 = Len(text) => cut = 0)'
      BY <1>1, <1>2, <1>6
    <3>5. (Len(decoded) = Lost + 0 - Headless)'
      BY <1>5, <2>1
    <3>6. (utf8_pc \in {"walk", "end"})' /\ (utf8_pc = "end" => 0 = Len(text))'
      BY <1>2
    <3> QED
      BY <3>2, <3>3, <3>4, <3>5, <3>6, Zenon DEF AtCharacter
  <2>3. 0 \in (Headless .. Len(text))'
    BY <1>1, <1>2, <2>1
  <2> QED
    BY <1>2, <1>3, <1>5, <2>2, <2>3 DEF Utf8Inv, WalkInv
<1>7. CASE first > 0
  <2>1. Lost' = StandardLen(s[1]) - first - (IF Len(s) = 1 THEN last ELSE 0)
    BY <1>2, <1>7 DEF Lost
  <2>2. Lost' \in Nat /\ (Len(s) > 1 => 0 < Lost')
    <3>1. CASE Len(s) = 1
      <4>1. Lost' = EndOf(s, 1) - first - last /\ first + last < EndOf(s, 1)
        BY <1>2, <1>4, <2>1, <3>1
      <4> QED
        BY <1>4, <3>1, <4>1
    <3>2. CASE Len(s) # 1
      <4>1. Lost' = StandardLen(s[1]) - first - 0
        BY <2>1, <3>2, Zenon
      <4>2. \A m \in 1 .. 4 : \A f \in 0 .. 3 : f < m => m - f - 0 \in Nat /\ 0 < m - f - 0
        OBVIOUS
      <4> QED
        BY <1>2, <1>4, <4>1, <4>2, Zenon
    <3> QED
      BY <3>1, <3>2
  <2>3. InLost'
    BY <1>2, <1>5, <1>7, <2>2 DEF InLost, AsWanted
  <2> QED
    BY <1>2, <1>3, <1>5, <2>3 DEF Utf8Inv, WalkInv
<1> QED
  BY <1>6, <1>7

(* A step of the walker changes nothing about the string.                  *)
LEMMA WalkKeepsString ==
  ASSUME StringIs, WalkStep
  PROVE  /\ StringIs' /\ text' = text /\ skip' = skip /\ cut' = cut /\ bytes' = bytes
         /\ Lost' = Lost /\ Headless' = Headless
         /\ \A i : Want(i)' = Want(i)
<1>1. text' = text /\ skip' = skip /\ cut' = cut /\ bytes' = bytes
  BY DEF WalkStep
<1>2. Lost' = Lost /\ Headless' = Headless
  BY <1>1 DEF Lost, Headless
<1> QED
  BY <1>1, <1>2, Zenon DEF StringIs, Want

(* The walker reads what it should read next.                              *)
LEMMA ReadNext ==
  ASSUME StringIs, WalkStep, at \in Nat, decoded \in Seq(Nat), NEW x \in Nat,
         at < Len(bytes), bytes[at + 1] # 0, utf8_codepoint(bytes, at)[1] = x,
         AsWanted(Len(decoded))
  PROVE  /\ utf8_pc' = "walk" /\ at' = at + utf8_codepoint(bytes, at)[2]
         /\ decoded' \in Seq(Nat) /\ Len(decoded') = Len(decoded) + 1 /\ Len(decoded) \in Nat
         /\ \A i \in 1 .. Len(decoded) : decoded'[i] = Want(i)'
         /\ decoded'[Len(decoded) + 1] = x
<1>1. Len(bytes) \in Nat /\ ~(at >= Len(bytes))
  <2>1. Len(bytes) \in Nat
    BY StringBytes
  <2> QED
    BY <2>1
<1>2. /\ utf8_pc = "walk" /\ utf8_pc' = utf8_pc
      /\ decoded' = Append(decoded, x) /\ at' = at + utf8_codepoint(bytes, at)[2]
  BY <1>1 DEF WalkStep
<1>3. /\ Append(decoded, x) \in Seq(Nat) /\ Len(Append(decoded, x)) = Len(decoded) + 1
      /\ Len(decoded) \in Nat
      /\ \A i \in 1 .. Len(decoded) : Append(decoded, x)[i] = decoded[i]
      /\ Append(decoded, x)[Len(decoded) + 1] = x
  BY Appended
<1>4. \A i \in 1 .. Len(decoded) : decoded[i] = Want(i)'
  BY WalkKeepsString, Zenon DEF AsWanted
<1> QED
  BY <1>2, <1>3, <1>4, Zenon

LEMMA OneMore ==
  \A a \in Nat : \A i \in 1 .. a + 1 : i \in 1 .. a \/ i = a + 1
OBVIOUS

LEMMA StepInLost ==
  ASSUME StringIs, at \in Nat, decoded \in Seq(Nat), InLost, WalkStep
  PROVE  Utf8Inv'
<1>1. /\ StringIs' /\ text' = text /\ skip' = skip /\ cut' = cut /\ bytes' = bytes
      /\ Lost' = Lost /\ Headless' = Headless
  BY WalkKeepsString
<1>2. /\ utf8_pc = "walk" /\ skip > 0 /\ at \in 0 .. Lost
      /\ Len(text) > 1 => at < Lost
      /\ Len(decoded) = at /\ AsWanted(Len(decoded))
  BY DEF InLost, WalkStep
<1>3. /\ Len(bytes) \in Nat /\ Len(bytes) > 1 /\ bytes[Len(bytes)] = 0
      /\ \A p \in 1 .. Len(bytes) - 1 : bytes[p] # 0
  BY StringBytes
<1>4. /\ Lost \in Nat
      /\ Len(text) = 1 => Lost = Len(bytes) - 1
      /\ Len(text) > 1 => Lost = EndOf(text, 1) - skip /\ Lost > 0
  BY <1>2, Places
<1>5. Len(text) \in Nat /\ Len(text) >= 1
  BY DEF StringIs
<1>6. CASE at < Lost
  <2>1. at + 1 \in 1 .. Len(bytes) - 1
        /\ utf8_codepoint(bytes, at) = <<UNICODE_MISSING_CHARACTER, 1>>
    BY <1>2, <1>6, MissingByte
  <2>2. at < Len(bytes) /\ UNICODE_MISSING_CHARACTER \in Nat
    BY <1>3, <2>1, SMT DEF UNICODE_MISSING_CHARACTER
  <2>3. /\ utf8_codepoint(bytes, at)[1] = UNICODE_MISSING_CHARACTER
        /\ utf8_codepoint(bytes, at)[2] = 1
    BY <2>1
  <2>4. bytes[at + 1] # 0
    BY <1>3, <2>1, Zenon
  <2>5. /\ utf8_pc' = "walk" /\ at' = at + utf8_codepoint(bytes, at)[2]
        /\ decoded' \in Seq(Nat) /\ Len(decoded') = Len(decoded) + 1 /\ Len(decoded) \in Nat
        /\ \A i \in 1 .. Len(decoded) : decoded'[i] = Want(i)'
        /\ decoded'[Len(decoded) + 1] = UNICODE_MISSING_CHARACTER
    BY <1>2, <2>2, <2>3, <2>4, ReadNext
  <2>6. at' = at + 1 /\ at' \in Nat /\ Len(decoded') = at' /\ at' <= Lost
    BY <1>2, <1>4, <1>6, <2>3, <2>5
  <2>7. \A i : i = at + 1 => Want(i)' = UNICODE_MISSING_CHARACTER
    <3>1. at + 1 <= Lost'
      BY <1>1, <2>6, Zenon
    <3> QED
      BY <3>1, Zenon DEF Want
  <2>8. AsWanted(Len(decoded))'
    <3>1. \A i \in 1 .. at + 1 : i \in 1 .. at \/ i = at + 1
      BY OneMore
    <3>2. \A i \in 1 .. at + 1 : decoded'[i] = Want(i)'
      BY <1>2, <2>5, <2>7, <3>1, Zenon
    <3> QED
      BY <2>6, <3>2, Zenon DEF AsWanted
  <2>9. CASE Len(text) > 1 /\ ~(at + 1 < Lost)
    <3>1. at + 1 = Lost /\ 1 \in Headless .. Len(text) /\ Headless = 1 /\ Len(text) # 1
      <4>1. Headless = 1
        BY <1>2 DEF Headless
      <4>2. at + 1 <= Lost
        BY <2>6, Zenon
      <4>3. at + 1 = Lost
        BY <1>4, <2>9, <4>2
      <4>4. 1 \in 1 .. Len(text) /\ Len(text) # 1
        <5>1. \A y \in Nat : y > 1 => 1 \in 1 .. y /\ y # 1
          OBVIOUS
        <5> QED
          BY <1>5, <2>9, <5>1, Zenon
      <4> QED
        BY <4>1, <4>3, <4>4, Zenon
    <3>2. EndOf(text', 1) = EndOf(text, 1)
      BY <1>1
    <3>3. (at = EndOf(text, 1) - skip)'
      BY <1>1, <1>4, <2>6, <2>9, <3>1, <3>2
    <3>4. (Len(decoded) = Lost + 1 - Headless)'
      BY <1>1, <1>4, <2>6, <3>1
    <3>5. AtCharacter(1)'
      <4>1. (skip > 0 => Len(text) > 1)' /\ (1 = Len(text) => cut = 0)'
        BY <1>1, <2>9, <3>1
      <4>2. (utf8_pc \in {"walk", "end"})' /\ (utf8_pc = "end" => 1 = Len(text))'
        BY <2>5
      <4> QED
        BY <2>8, <3>3, <3>4, <4>1, <4>2, Zenon DEF AtCharacter
    <3>6. (\E j \in Headless .. Len(text) : AtCharacter(j))'
      BY <1>1, <3>1, <3>5
    <3> QED
      BY <1>1, <2>5, <2>6, <3>6 DEF Utf8Inv, WalkInv
  <2>10. CASE Len(text) > 1 => at + 1 < Lost
    <3>1. InLost'
      <4>1. (skip > 0 /\ at \in 0 .. Lost /\ (Len(text) > 1 => at < Lost))'
        BY <1>1, <1>2, <1>4, <2>6, <2>10
      <4>2. (Len(decoded) = at /\ AsWanted(at))'
        BY <2>6, <2>8, Zenon DEF AsWanted
      <4>3. (utf8_pc \in {"walk", "end"})' /\ (utf8_pc = "end" => Len(text) = 1 /\ at = Lost)'
        BY <2>5
      <4> QED
        BY <4>1, <4>2, <4>3, Zenon DEF InLost
    <3> QED
      BY <1>1, <2>5, <2>6, <3>1 DEF Utf8Inv, WalkInv
  <2> QED
    BY <2>9, <2>10, Zenon
<1>7. CASE at = Lost
  <2>1. Len(text) = 1 /\ at = Len(bytes) - 1
    <3>1. ~(at < Lost)
      BY <1>4, <1>7
    <3>2. \A y \in Nat : y >= 1 => y = 1 \/ y > 1
      OBVIOUS
    <3>3. Len(text) = 1
      BY <1>2, <1>5, <3>1, <3>2, Zenon
    <3> QED
      BY <1>4, <1>7, <3>3, Zenon
  <2>2. ~(at >= Len(bytes)) /\ at + 1 = Len(bytes)
    BY <1>3, <2>1
  <2>3. utf8_pc' = "end" /\ at' = at /\ decoded' = decoded
    BY <1>3, <2>2 DEF WalkStep
  <2>4. InLost'
    <3>1. \A i \in 1 .. at : decoded[i] = Want(i)'
      BY <1>2, WalkKeepsString, Zenon DEF AsWanted
    <3>2. AsWanted(at)'
      BY <2>3, <3>1, Zenon DEF AsWanted
    <3>3. (skip > 0 /\ at \in 0 .. Lost /\ (Len(text) > 1 => at < Lost))'
      BY <1>1, <1>2, <2>3
    <3>4. (utf8_pc \in {"walk", "end"})' /\ (Len(text) = 1 /\ at = Lost)'
      BY <1>1, <1>7, <2>1, <2>3
    <3>5. (Len(decoded) = at)'
      BY <1>2, <2>3
    <3> QED
      BY <3>2, <3>3, <3>4, <3>5, Zenon DEF InLost
  <2> QED
    BY <1>1, <2>3, <2>4 DEF Utf8Inv, WalkInv
<1> QED
  BY <1>2, <1>4, <1>6, <1>7

LEMMA StepAtCharacter ==
  ASSUME StringIs, at \in Nat, decoded \in Seq(Nat), WalkStep,
         NEW j \in Headless .. Len(text), AtCharacter(j)
  PROVE  Utf8Inv'
<1>1. /\ StringIs' /\ text' = text /\ skip' = skip /\ cut' = cut /\ bytes' = bytes
      /\ Lost' = Lost /\ Headless' = Headless
  BY WalkKeepsString
<1>2. /\ utf8_pc = "walk"
      /\ skip > 0 => Len(text) > 1
      /\ j = Len(text) => cut = 0
      /\ at = EndOf(text, j) - skip
      /\ Len(decoded) = Lost + j - Headless /\ AsWanted(Len(decoded))
  BY Zenon DEF AtCharacter, WalkStep
<1>3. /\ Len(bytes) \in Nat /\ Len(bytes) > 1 /\ bytes[Len(bytes)] = 0
      /\ \A p \in 1 .. Len(bytes) - 1 : bytes[p] # 0
      /\ Len(bytes) = EndOf(text, Len(text)) - skip - cut + 1
  BY StringBytes
<1>4. /\ Lost \in Nat /\ Headless \in 0 .. 1
      /\ \A k \in 0 .. Len(text) : EndOf(text, k) \in Nat
  BY Places
<1>5. Len(text) \in Nat /\ skip \in 0 .. 3 /\ cut \in 0 .. 3
  BY DEF StringIs
<1>6. j \in Nat /\ j >= Headless /\ j <= Len(text)
  BY <1>4, <1>5
<1>7. \A k : EndOf(text', k) = EndOf(text, k)
  BY <1>1
<1>8. CASE j = Len(text)
  <2>1. Len(text) \in 0 .. Len(text)
    BY <1>5
  <2>2. ~(at >= Len(bytes)) /\ at + 1 = Len(bytes)
    <3>1. EndOf(text, Len(text)) \in Nat
      BY <1>4, <2>1, Zenon
    <3>2. at = EndOf(text, Len(text)) - skip /\ cut = 0
      BY <1>2, <1>8, Zenon
    <3> QED
      BY <1>3, <1>5, <3>1, <3>2
  <2>3. utf8_pc' = "end" /\ at' = at /\ decoded' = decoded
    BY <1>3, <2>2, Zenon DEF WalkStep
  <2>4. AsWanted(Len(decoded))'
    <3>1. \A i \in 1 .. Len(decoded) : decoded[i] = Want(i)'
      BY <1>2, WalkKeepsString, Zenon DEF AsWanted
    <3> QED
      BY <2>3, <3>1, Zenon DEF AsWanted
  <2>5. AtCharacter(j)'
    <3>1. (at = EndOf(text, j) - skip)' /\ (Len(decoded) = Lost + j - Headless)'
      BY <1>1, <1>2, <1>7, <2>3, Zenon
    <3>2. (skip > 0 => Len(text) > 1)' /\ (j = Len(text) => cut = 0)' /\ (j = Len(text))'
      BY <1>1, <1>2, <1>8, Zenon
    <3>3. (utf8_pc \in {"walk", "end"})'
      BY <2>3
    <3> QED
      BY <2>4, <3>1, <3>2, <3>3, Zenon DEF AtCharacter
  <2> QED
    BY <1>1, <2>3, <2>5 DEF Utf8Inv, WalkInv
<1>9. CASE j < Len(text) /\ (j + 1 = Len(text) => cut = 0)
  <2> DEFINE c == text[j + 1]
  <2>1. j \in Headless .. Len(text) - 1 /\ j + 1 \in 1 .. Len(text)
        /\ j + 1 \in Headless .. Len(text) /\ j + 1 \in 0 .. Len(text)
    BY <1>4, <1>5, <1>6, <1>9
  <2>2. /\ at + 1 \in 1 .. Len(bytes) - 1
        /\ utf8_codepoint(bytes, at) = <<c, StandardLen(c)>>
        /\ at + StandardLen(c) = EndOf(text, j + 1) - skip
    BY <1>2, <1>9, <2>1, WholeCharacter, Zenon
  <2>3. c \in Scalars /\ StandardLen(c) \in 1 .. 4 /\ c \in Nat
    BY <2>1, Places DEF Scalars
  <2> HIDE DEF c
  <2>4. utf8_codepoint(bytes, at)[1] = c /\ utf8_codepoint(bytes, at)[2] = StandardLen(c)
    BY <2>2
  <2>5. at < Len(bytes) /\ bytes[at + 1] # 0
    <3>1. at < Len(bytes)
      BY <1>3, <2>2
    <3> QED
      BY <1>3, <2>2, <3>1, Zenon
  <2>6. /\ utf8_pc' = "walk" /\ at' = at + utf8_codepoint(bytes, at)[2]
        /\ decoded' \in Seq(Nat) /\ Len(decoded') = Len(decoded) + 1 /\ Len(decoded) \in Nat
        /\ \A i \in 1 .. Len(decoded) : decoded'[i] = Want(i)'
        /\ decoded'[Len(decoded) + 1] = c
    BY <1>2, <2>3, <2>4, <2>5, ReadNext
  <2>7. at' = EndOf(text, j + 1) - skip /\ at' \in Nat
    BY <2>2, <2>3, <2>4, <2>6
  <2>8. Len(decoded') = Lost + (j + 1) - Headless
    BY <1>2, <1>4, <1>6, <2>6
  <2>9. \A i : i = Len(decoded) + 1 => Want(i)' = c
    <3>1. ~(Len(decoded) + 1 <= Lost) /\ Headless + (Len(decoded) + 1) - Lost = j + 1
      BY <1>2, <1>4, <1>6, <2>6
    <3>2. \A i : i = Len(decoded) + 1 => ~(i <= Lost) /\ Headless + i - Lost = j + 1
      BY <3>1, Zenon
    <3> QED
      BY <1>1, <3>2, Zenon DEF Want, c
  <2>10. AsWanted(Len(decoded))'
    <3>1. \A i \in 1 .. Len(decoded) + 1 : i \in 1 .. Len(decoded) \/ i = Len(decoded) + 1
      BY <2>6, OneMore, Zenon
    <3>2. \A i \in 1 .. Len(decoded) + 1 : decoded'[i] = Want(i)'
      BY <2>6, <2>9, <3>1, Zenon
    <3> QED
      BY <2>6, <3>2, Zenon DEF AsWanted
  <2>11. \A k : k = j + 1 => AtCharacter(k)'
    <3>1. SUFFICES ASSUME NEW k, k = j + 1
                   PROVE  AtCharacter(k)'
      OBVIOUS
    <3>2. (at = EndOf(text, k) - skip)' /\ (Len(decoded) = Lost + k - Headless)'
      BY <1>1, <1>7, <2>7, <2>8, <3>1, Zenon
    <3>3. (skip > 0 => Len(text) > 1)' /\ (k = Len(text) => cut = 0)'
      BY <1>1, <1>2, <1>9, <3>1, Zenon
    <3>4. (utf8_pc \in {"walk", "end"})' /\ (utf8_pc = "end" => k = Len(text))'
      BY <2>6
    <3> QED
      BY <2>10, <3>2, <3>3, <3>4, Zenon DEF AtCharacter
  <2>12. (\E k \in Headless .. Len(text) : AtCharacter(k))'
    BY <1>1, <2>1, <2>11, Zenon
  <2> QED
    BY <1>1, <2>6, <2>7, <2>12 DEF Utf8Inv, WalkInv
<1>10. CASE j < Len(text) /\ ~(j + 1 = Len(text) => cut = 0)
  <2> DEFINE read == utf8_codepoint(bytes, at)
  <2>1. j + 1 = Len(text) /\ cut > 0 /\ Len(text) - 1 = j
    BY <1>5, <1>6, <1>10
  <2>2. /\ at + 1 \in 1 .. Len(bytes) - 1
        /\ read[1] \in Nat /\ read[2] \in Nat /\ at + read[2] >= Len(bytes)
    <3>1. at = EndOf(text, Len(text) - 1) - skip
      BY <1>2, <2>1, Zenon
    <3> QED
      BY <1>2, <2>1, <3>1, CutCharacter, Zenon
  <2>3. at < Len(bytes) /\ bytes[at + 1] # 0
    <3>1. at < Len(bytes)
      BY <1>3, <2>2
    <3> QED
      BY <1>3, <2>2, <3>1, Zenon
  <2>4. /\ utf8_pc' = "walk" /\ at' = at + read[2]
        /\ decoded' \in Seq(Nat) /\ Len(decoded') = Len(decoded) + 1
    BY <1>2, <2>2, <2>3, ReadNext, Zenon
  <2> HIDE DEF read
  <2>5. at' \in Nat /\ at' >= Len(bytes)
    BY <2>2, <2>4
  <2>6. Len(decoded') = Lost + Len(text) - Headless
    <3>1. \A l, x \in Nat : \A h \in 0 .. 1 : (l + x - h) + 1 = l + (x + 1) - h
      OBVIOUS
    <3>2. Len(decoded') = (Lost + j - Headless) + 1
      BY <1>2, <2>4, Zenon
    <3>3. (Lost + j - Headless) + 1 = Lost + (j + 1) - Headless
      BY <1>4, <1>6, <3>1, Zenon
    <3> QED
      BY <2>1, <3>2, <3>3, Zenon
  <2>7. Past'
    <3>1. (utf8_pc \in {"walk", "overrun"})'
      BY <2>4
    <3> QED
      BY <1>1, <1>2, <2>1, <2>5, <2>6, <3>1, Zenon DEF Past
  <2> QED
    BY <1>1, <2>4, <2>5, <2>7 DEF Utf8Inv, WalkInv
<1>11. j = Len(text) \/ j < Len(text)
  <2>1. \A x, y \in Nat : x <= y => x = y \/ x < y
    OBVIOUS
  <2> QED
    BY <1>5, <1>6, <2>1, Zenon
<1> QED
  BY <1>8, <1>9, <1>10, <1>11, Zenon

LEMMA StepPast ==
  ASSUME StringIs, at \in Nat, decoded \in Seq(Nat), WalkStep, Past
  PROVE  Utf8Inv'
<1>1. /\ StringIs' /\ text' = text /\ skip' = skip /\ cut' = cut /\ bytes' = bytes
      /\ Lost' = Lost /\ Headless' = Headless
  BY WalkKeepsString
<1>2. utf8_pc' = "overrun" /\ at' = at /\ decoded' = decoded
  BY Zenon DEF Past, WalkStep
<1>3. Past'
  <2>1. (utf8_pc \in {"walk", "overrun"})'
    BY <1>2
  <2> QED
    BY <1>1, <1>2, <2>1, Zenon DEF Past
<1> QED
  BY <1>1, <1>2, <1>3 DEF Utf8Inv, WalkInv

LEMMA Utf8Inductive ==
  Utf8Spec => []Utf8Inv
<1>1. Utf8Init => Utf8Inv
  BY DEF Utf8Init, Utf8Inv
<1>2. Utf8Inv /\ [Utf8Next]_utf8Vars => Utf8Inv'
  <2> SUFFICES ASSUME Utf8Inv, [Utf8Next]_utf8Vars
               PROVE  Utf8Inv'
    OBVIOUS
  <2>1. ASSUME NEW n \in 1 .. MaxText, NEW s \in [1 .. n -> Codepoints],
               NEW first \in 0 .. 3, NEW last \in 0 .. 3, Walk(s, first, last)
        PROVE  Utf8Inv'
    BY <2>1, Utf8Assumption, WalkStarts
  <2>2. CASE WalkStep
    <3>1. WalkInv
      BY <2>2 DEF Utf8Inv, WalkStep
    <3> QED
      BY <2>2, <3>1, StepInLost, StepAtCharacter, StepPast DEF WalkInv
  <2>3. ASSUME NEW c \in Codepoints, Encode(c)
        PROVE  Utf8Inv'
    BY <2>3 DEF Utf8Inv, Encode
  <2>4. CASE UNCHANGED utf8Vars
    <3>1. /\ utf8_pc' = utf8_pc /\ text' = text /\ skip' = skip /\ cut' = cut
          /\ bytes' = bytes /\ at' = at /\ decoded' = decoded /\ encoded' = encoded
      BY <2>4 DEF utf8Vars
    <3>2. Lost' = Lost /\ Headless' = Headless
      BY <3>1 DEF Lost, Headless
    <3>3. \A i : Want(i)' = Want(i)
      BY <3>1, <3>2, Zenon DEF Want
    <3>4. \A n : AsWanted(n)' = AsWanted(n)
      BY <3>1, <3>3, Zenon DEF AsWanted
    <3>5. (StringIs' <=> StringIs) /\ (InLost' <=> InLost) /\ (Past' <=> Past)
          /\ \A j : AtCharacter(j)' <=> AtCharacter(j)
      BY <3>1, <3>2, <3>4, Zenon DEF StringIs, InLost, Past, AtCharacter
    <3>6. WalkInv' <=> WalkInv
      BY <3>1, <3>2, <3>5, Zenon DEF WalkInv
    <3> QED
      BY <3>1, <3>6, Zenon DEF Utf8Inv
  <2> QED
    BY <2>1, <2>2, <2>3, <2>4 DEF Utf8Next
<1> QED
  BY <1>1, <1>2, PTL DEF Utf8Spec

LEMMA EncodedHolds == Utf8Inv => Encoded
<1> SUFFICES ASSUME Utf8Inv, utf8_pc = "encoded"
             PROVE  Encoded
  BY DEF Encoded
<1>1. PICK c \in Codepoints : text = <<c>> /\ encoded = codepoint_to_utf8(c)
  BY DEF Utf8Inv
<1>2. text[1] = c /\ c \in Scalars
  BY <1>1, CodepointsAreScalars
<1> QED
  BY <1>1, <1>2, StandardRight, ReversedRight, Zenon DEF Encoded

(* At its end the walker has got what it should get.                       *)
LEMMA DecodedHolds == Utf8Inv => Decoded
<1> SUFFICES ASSUME Utf8Inv, utf8_pc \in {"end", "overrun"}
             PROVE  Decoded
  BY Zenon DEF Decoded
<1> DEFINE lost == IF skip = 0 THEN <<>>
                   ELSE [k \in 1 .. StandardLen(text[1]) - skip
                                     - (IF Len(text) = 1 THEN cut ELSE 0)
                           |-> UNICODE_MISSING_CHARACTER]
           rest == IF skip = 0 THEN text ELSE Tail(text)
           whole == IF cut = 0 \/ rest = <<>> THEN rest ELSE SubSeq(rest, 1, Len(rest) - 1)
<1>1. WalkInv /\ StringIs /\ decoded \in Seq(Nat)
  BY DEF Utf8Inv, WalkInv
<1>2. /\ text \in Seq(Nat) /\ Len(text) \in Nat /\ Len(text) >= 1
  <2>1. text \in Seq(Scalars) /\ Len(text) >= 1
    BY <1>1 DEF StringIs
  <2>2. Scalars \subseteq Nat
    BY DEF Scalars
  <2> QED
    BY <2>1, <2>2, SeqMonotonic, LenProperties, Zenon
<1>3. Lost \in Nat /\ (skip = 0 => Lost = 0) /\ skip \in Nat
  <2>1. Lost \in Nat
    BY <1>1, Places
  <2> QED
    BY <1>1, <2>1 DEF Lost, StringIs
<1>4. /\ lost \in Seq(Nat) /\ Len(lost) = Lost
      /\ \A i \in 1 .. Lost : lost[i] = UNICODE_MISSING_CHARACTER
  <2>1. CASE skip = 0
    BY <1>3, <2>1
  <2>2. CASE skip # 0
    <3>1. lost = [k \in 1 .. Lost |-> UNICODE_MISSING_CHARACTER]
      BY <2>2, Zenon DEF Lost
    <3>2. UNICODE_MISSING_CHARACTER \in Nat
      BY SMT DEF UNICODE_MISSING_CHARACTER
    <3> HIDE DEF lost
    <3> QED
      BY <1>3, <3>1, <3>2
  <2> QED
    BY <2>1, <2>2, Zenon
<1>5. /\ rest \in Seq(Nat) /\ Len(rest) = Len(text) - Headless
      /\ \A i \in 1 .. Len(rest) : rest[i] = text[Headless + i]
  <2>1. CASE skip = 0
    <3>1. rest = text /\ Headless = 0
      BY <2>1 DEF Headless
    <3> HIDE DEF rest
    <3> QED
      BY <1>2, <3>1
  <2>2. CASE skip # 0
    <3>1. rest = Tail(text) /\ Headless = 1
      BY <2>2 DEF Headless
    <3> HIDE DEF rest
    <3>2. text # <<>>
      BY <1>2
    <3>3. /\ Tail(text) \in Seq(Nat) /\ Len(Tail(text)) = Len(text) - 1
          /\ \A i \in 1 .. Len(Tail(text)) : Tail(text)[i] = text[i + 1]
      BY <1>2, <3>2, HeadTailProperties
    <3>4. \A i \in 1 .. Len(Tail(text)) : 1 + i = i + 1
      OBVIOUS
    <3> QED
      BY <3>1, <3>3, <3>4, Zenon
  <2> QED
    BY <2>1, <2>2, Zenon
<1>6. Headless \in 0 .. 1 /\ Len(rest) \in Nat
  <2>1. Headless \in 0 .. 1
    BY DEF Headless
  <2> HIDE DEF rest
  <2> QED
    BY <1>5, <2>1
<1> HIDE DEF lost, rest
<1>7. /\ lost \o rest \in Seq(Nat) /\ Len(lost \o rest) = Lost + Len(rest)
      /\ \A i \in 1 .. Lost + Len(rest) : (lost \o rest)[i] = Want(i)
  <2>1. /\ lost \o rest \in Seq(Nat) /\ Len(lost \o rest) = Len(lost) + Len(rest)
        /\ \A i \in 1 .. Len(lost) : (lost \o rest)[i] = lost[i]
        /\ \A i \in 1 .. Len(rest) : (lost \o rest)[Len(lost) + i] = rest[i]
    <3>1. lost \in Seq(Nat) /\ rest \in Seq(Nat)
      BY <1>4, <1>5
    <3> QED
      BY <3>1, Behind
  <2>2. ASSUME NEW i \in 1 .. Lost + Len(rest)
        PROVE  (lost \o rest)[i] = Want(i)
    <3>1. CASE i <= Lost
      <4>1. i \in 1 .. Lost
        BY <1>3, <1>6, <3>1
      <4>2. (lost \o rest)[i] = UNICODE_MISSING_CHARACTER
        BY <1>4, <2>1, <4>1, Zenon
      <4> QED
        BY <3>1, <4>2, Zenon DEF Want
    <3>2. CASE ~(i <= Lost)
      <4>1. i - Lost \in 1 .. Len(rest) /\ Lost + (i - Lost) = i
            /\ Headless + (i - Lost) = Headless + i - Lost
        BY <1>3, <1>6, <3>2
      <4>2. (lost \o rest)[i] = text[Headless + i - Lost]
        BY <1>4, <1>5, <2>1, <4>1, Zenon
      <4> QED
        BY <3>2, <4>2, Zenon DEF Want
    <3> QED
      BY <3>1, <3>2, Zenon
  <2> QED
    BY <1>4, <2>1, <2>2, Zenon
<1>8. CASE utf8_pc = "end"
  <2>1. /\ rest = <<>> \/ cut = 0
        /\ Len(decoded) = Lost + Len(rest) /\ AsWanted(Len(decoded))
    <3>1. CASE InLost
      <4>1. Len(text) = 1 /\ at = Lost /\ Len(decoded) = Lost /\ AsWanted(Len(decoded))
            /\ Headless = 1
        BY <1>8, <3>1 DEF InLost, Headless
      <4>2. Len(rest) = 0
        BY <1>5, <4>1
      <4>3. rest = <<>> /\ Lost = Lost + 0
        BY <1>3, <1>5, <4>2
      <4> QED
        BY <4>1, <4>2, <4>3, Zenon
    <3>2. ASSUME NEW j \in Headless .. Len(text), AtCharacter(j)
          PROVE  /\ cut = 0
                 /\ Len(decoded) = Lost + Len(rest) /\ AsWanted(Len(decoded))
      <4>1. /\ j = Len(text) /\ cut = 0 /\ AsWanted(Len(decoded))
            /\ Len(decoded) = Lost + Len(text) - Headless
        BY <1>8, <3>2, Zenon DEF AtCharacter
      <4>2. Lost + Len(text) - Headless = Lost + (Len(text) - Headless)
        BY <1>2, <1>3, <1>6
      <4> QED
        BY <1>5, <4>1, <4>2, Zenon
    <3>3. ~Past
      BY <1>8 DEF Past
    <3> QED
      BY <1>1, <3>1, <3>2, <3>3, Zenon DEF WalkInv
  <2>2. decoded = lost \o rest
    <3>1. \A i \in 1 .. Len(decoded) : decoded[i] = (lost \o rest)[i]
      BY <1>7, <2>1, Zenon DEF AsWanted
    <3> QED
      BY <1>1, <1>7, <2>1, <3>1, SeqEqual, Zenon
  <2>3. whole = rest
    BY <2>1, Zenon
  <2>4. SubSeq(decoded, 1, Len(decoded)) = decoded
    BY <1>1
  <2> HIDE DEF whole
  <2>5. /\ utf8_pc = "end" /\ cut = 0 => decoded = lost \o rest
        /\ utf8_pc = "end" => SubSeq(decoded, 1, Len(lost \o whole)) = lost \o whole
        /\ utf8_pc # "overrun"
    BY <1>8, <2>2, <2>3, <2>4
  <2> QED
    BY <2>5, Zenon DEF Decoded, lost, rest, whole
<1>9. CASE utf8_pc = "overrun"
  <2>1. /\ cut > 0 /\ (skip > 0 => Len(text) > 1)
        /\ Len(decoded) = Lost + Len(text) - Headless
    BY <1>1, <1>9 DEF WalkInv, InLost, AtCharacter, Past
  <2>2. Len(rest) >= 1
    BY <1>2, <1>3, <1>5, <2>1 DEF Headless
  <2>3. rest # <<>> /\ cut # 0
    BY <1>1, <1>5, <2>1, <2>2 DEF StringIs
  <2>4. whole = SubSeq(rest, 1, Len(rest) - 1)
    BY <2>3, Zenon
  <2>5. whole \in Seq(Nat) /\ Len(whole) = Len(rest) - 1
    <3>1. SubSeq(rest, 1, Len(rest) - 1) \in Seq(Nat)
          /\ Len(SubSeq(rest, 1, Len(rest) - 1)) = Len(rest) - 1
      BY <1>5, <1>6, <2>2
    <3> QED
      BY <2>4, <3>1, Zenon
  <2> HIDE DEF whole
  <2>6. Len(lost \o whole) = Lost + (Len(rest) - 1)
    BY <1>4, <2>5, Behind
  <2>7. Len(decoded) = Len(lost \o whole) + 1
    BY <1>2, <1>3, <1>5, <1>6, <2>1, <2>2, <2>6
  <2> QED
    BY <1>9, <2>1, <2>3, <2>7, Zenon DEF Decoded, lost, rest, whole
<1> QED
  BY <1>8, <1>9, Zenon

(* Of every text, cut anywhere at both of its ends, the walker gets what   *)
(* it should, and the encoder's bytes are right but for their order.       *)
THEOREM TextsTranscoded == Utf8Spec => []Transcoded
<1>1. Utf8Inv => Transcoded
  BY EncodedHolds, DecodedHolds DEF Transcoded
<1> QED
  BY <1>1, Utf8Inductive, PTL

=============================================================================
