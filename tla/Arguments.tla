------------------------------ MODULE Arguments -----------------------------
(***************************************************************************)
(* common/arguments.c: one pass over the command line.                     *)
(***************************************************************************)
EXTENDS Integers, Sequences

CONSTANTS
  Paths,      (* Arguments that do not start with "--".                     *)
  Options,    (* Arguments that do: "--silent" is one of them.              *)
  args,       (* The flags of the caller, in order; each starts with "--".  *)
  NULL,       (* No path.                                                   *)
  MaxArgs     (* Bound: the arguments of a command line.                    *)

ASSUME ArgumentsAssumption ==
  /\ "--silent" \in Options /\ Paths \cap Options = {} /\ NULL \notin Paths \cup Options
  /\ args \in Seq(Options)

VARIABLES
  args_pc,
  argv,             (* The arguments after the name of the program.         *)
  arg,              (* How many of them were looked at.                     *)
  output,           (* The flags structure.                                 *)
  logging_enabled

argumentsVars == <<args_pc, argv, arg, output, logging_enabled>>

(* Nothing sets `silent` after this.                                       *)
NoFlags == [input_path |-> NULL, output_path |-> NULL, mode |-> 0, silent |-> FALSE]

ArgumentsInit ==
  /\ args_pc = "idle" /\ argv = <<>> /\ arg = 0
  /\ output = NoFlags
  /\ logging_enabled = TRUE

parse_arguments(line) ==
  /\ args_pc = "idle"
  /\ args_pc' = "loop"
  /\ argv' = line
  /\ arg' = 0
  /\ output' = NoFlags
  /\ UNCHANGED logging_enabled

(* Mutant: the third path takes the place of the second. *)
PushedOver(o, path) ==
  IF o.input_path # NULL
    THEN [o EXCEPT !.output_path = path]
    ELSE [o EXCEPT !.input_path = path]

(* A path comes after the ones that were found so far.                     *)
Pushed(o, path) ==
  IF o.input_path # NULL
    THEN [o EXCEPT !.input_path = IF o.output_path # NULL THEN o.output_path ELSE @,
                   !.output_path = path]
    ELSE [o EXCEPT !.input_path = path]

(* The index of the first flag of the caller that is `word`.               *)
ModeOf(word) == CHOOSE j \in DOMAIN args : args[j] = word /\ \A k \in 1 .. j - 1 : args[k] # word

(* Mutant: "continue" after --silent skips the increment. *)
StuckAtSilent(word) == IF word = "--silent" THEN arg ELSE arg + 1

(* The loop goes on to the next argument, whatever it found.               *)
Onward(word) == arg + 1

ArgumentsStep ==
  /\ args_pc = "loop"
  /\ IF arg = Len(argv)
       THEN args_pc' = "return" /\ UNCHANGED <<arg, output, logging_enabled>>
       ELSE LET word == argv[arg + 1] IN
              /\ arg' = Onward(word)
              /\ output' = IF word \in Paths THEN Pushed(output, word)
                           ELSE IF word # "--silent" /\ \E j \in DOMAIN args : args[j] = word
                                  THEN [output EXCEPT !.mode = ModeOf(word) - 1]
                                  ELSE output
              /\ logging_enabled' = (logging_enabled /\ word # "--silent")
              /\ UNCHANGED args_pc
  /\ UNCHANGED argv

ArgumentsNext ==
  \/ \E n \in 0 .. MaxArgs : \E line \in [1 .. n -> Paths \cup Options] : parse_arguments(line)
  \/ ArgumentsStep

ArgumentsSpec == ArgumentsInit /\ [][ArgumentsNext]_argumentsVars /\ WF_argumentsVars(ArgumentsStep)

-----------------------------------------------------------------------------
(* Where the first n arguments have paths and flags of the caller.         *)
PathsAmong(n) == {i \in 1 .. n : argv[i] \in Paths}
FlagsAmong(n) ==
  {i \in 1 .. n : argv[i] # "--silent" /\ \E j \in DOMAIN args : args[j] = argv[i]}

(* Of the arguments at the places S the last two are the paths, or the     *)
(* only one is the input.                                                  *)
LastTwoOf(S) ==
  \/ S = {} /\ output.input_path = NULL /\ output.output_path = NULL
  \/ \E i \in S : S = {i} /\ output.input_path = argv[i] /\ output.output_path = NULL
  \/ \E i, j \in S :
       /\ i < j /\ \A k \in S : k <= i \/ k = j
       /\ output.input_path = argv[i] /\ output.output_path = argv[j]

(* What the first n arguments ask for.                                     *)
AsAsked(n) ==
  /\ LastTwoOf(PathsAmong(n))
  /\ \/ FlagsAmong(n) = {} /\ output.mode = 0
     \/ \E i \in FlagsAmong(n) :
          (\A k \in FlagsAmong(n) : k <= i) /\ args[output.mode + 1] = argv[i]
  /\ logging_enabled = \A i \in 1 .. n : argv[i] # "--silent"

(* What arguments.h takes for a path: all that the caller does not ask for. *)
DocumentedPaths ==
  {i \in DOMAIN argv : argv[i] # "--silent" /\ \A j \in DOMAIN args : args[j] # argv[i]}

(* "If --silent is found, the silent flag is set", and "arguments that     *)
(* don't match any user-specified arguments are assumed to be a filepath". *)
AsDocumented ==
  /\ LastTwoOf(DocumentedPaths)
  /\ output.silent <=> \E i \in DOMAIN argv : argv[i] = "--silent"

(* Whatever stands between them, the last two arguments that do not start  *)
(* with "--" are the input and the output, a lone one is the input, the    *)
(* mode is the flag of the caller that was seen last, and logging is off   *)
(* exactly after "--silent".  That is what arguments.h says if and only if *)
(* there is no "--silent", and any other argument that starts with "--"    *)
(* and is no flag of the caller stands before the last two paths.          *)
LastTwo ==
  args_pc = "return" =>
    /\ AsAsked(Len(argv))
    /\ AsDocumented <=>
         /\ \A i \in DOMAIN argv : argv[i] # "--silent"
         /\ \A i \in DocumentedPaths \ PathsAmong(Len(argv)) :
              \E j, k \in PathsAmong(Len(argv)) : i < j /\ j < k

=============================================================================
