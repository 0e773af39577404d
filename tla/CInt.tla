-------------------------------- MODULE CInt --------------------------------
(***************************************************************************)
(* The C integer arithmetic that bobtail's dynamic containers are built    *)
(* on: u32 sizes that wrap, the ALIGN_UP macro and the conversion of a     *)
(* double back to u32.  U32 stands for 2^32; the runs take a smaller word  *)
(* so that TLC can reach its end.                                          *)
(***************************************************************************)
EXTENDS Integers

CONSTANT
  U32  (* The number of values of the type u32. *)

ASSUME U32Assumption == U32 \in Nat \ {0}

u32 == 0 .. (U32 - 1)

(* Always moves to the NEXT multiple: an aligned x grows by a whole bound. *)
ALIGN_UP(x, bound) == x + (bound - (x % bound))

(* size * 1.5 is exact as a double; the conversion drops the half.         *)
HalfAgain(size) == size + (size \div 2)

(***************************************************************************)
(* (u32)d for a double d >= 0.  A value that does not fit is undefined     *)
(* behaviour: the x86-64 build keeps the low 32 bits, the ARM build        *)
(* saturates.                                                              *)
(***************************************************************************)
DoubleToU32(d) == IF d < U32 THEN {d} ELSE {d % U32, U32 - 1}

(* The sizes that `const u32 newsize = ALIGN_UP((u32)(size * 1.5), bound)` *)
(* can take.                                                               *)
GrownSizes(size, bound) ==
  {ALIGN_UP(d, bound) % U32 : d \in DoubleToU32(HalfAgain(size))}
=============================================================================
