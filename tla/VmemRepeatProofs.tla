-------------------------- MODULE VmemRepeatProofs --------------------------
(***************************************************************************)
(* Proofs about the repeat mappings of POSIX for any number of processes,  *)
(* privileged or not, any number of objects, any resource failures and any *)
(* rings that a u32 can hold, repeated any number of times.                *)
(***************************************************************************)
EXTENDS VmemRepeat, TLAPS

(* No caller asks for an empty ring, or for one past 2^32 bytes.           *)
Fits == \A c \in Callers : \A w \in Widths[c] : w > 0 /\ w < Word

(***************************************************************************)
(* The inductive invariant.                                                *)
(***************************************************************************)

(* The range of a caller whose first `done` views show the object o.       *)
Views(a, done, o) ==
  [k \in 0 .. (a.width * a.repeat) - 1 |->
     IF k < done * a.width THEN <<o, k % a.width>> ELSE NULL]

WholeRing(a, o) == [k \in 0 .. (a.width * a.repeat) - 1 |-> <<o, k % a.width>>]

Shape ==
  /\ name \in Objects \cup {NULL} /\ rooted \subseteq Objects
  /\ size \in [Objects -> Nat]
  /\ pc \in [Callers -> Steps \cup {"idle", "null", "mapped"}]
  /\ arg \in [Callers -> [width : Nat, repeat : Nat]]
  /\ ramfile \in [Callers -> Objects \cup {NULL}]
  /\ fds \in [Callers -> SUBSET Objects]
  /\ view \in [Callers -> Nat]
  /\ region = [c \in Callers |-> region[c]]
  /\ alone \in [Callers -> BOOLEAN] /\ refused \in [Callers -> BOOLEAN]
  /\ shared \subseteq Objects /\ left \subseteq Objects

(* What the variables of a call hold at each of its points.                *)
OwnState(c) ==
  /\ pc[c] \in {"idle", "null"} => arg[c] = Arg0
  /\ pc[c] \notin {"idle", "null"} =>
       arg[c].width \in Widths[c] /\ arg[c].repeat \in Repeats
  /\ pc[c] \in {"idle", "null", "unlink", "open", "mapped"} => ramfile[c] = NULL
  /\ ramfile[c] \in fds[c] \cup {NULL}
  /\ pc[c] # "map" => view[c] = 0
  /\ pc[c] \notin {"idle", "map", "mapped"} => region[c] = NoRegion
  /\ pc[c] = "idle" => \A k \in DOMAIN region[c] : region[c][k][1] \in fds[c]
  /\ pc[c] = "map" =>
       /\ view[c] <= arg[c].repeat
       /\ \/ region[c] = NoRegion /\ view[c] = 0
          \/ /\ region[c] = Views(arg[c], view[c], ramfile[c])
             /\ view[c] > 0 => ramfile[c] # NULL
  /\ pc[c] = "mapped" => \E o \in fds[c] : region[c] = WholeRing(arg[c], o)

(* The object is as long as its caller made it, and empty before that and  *)
(* after a refused ftruncate, unless another opened it.                    *)
Long(c, o) ==
  \/ o \in shared
  \/ size[o] = IF pc[c] = "truncate" \/ refused[c] THEN 0 ELSE arg[c].width

OwnSize(c) ==
  /\ pc[c] \in {"unlink", "open"} => ~refused[c]
  /\ pc[c] = "truncate" /\ ramfile[c] # NULL => ~refused[c]
  /\ pc[c] \in {"truncate", "reserve"} /\ ramfile[c] # NULL => Long(c, ramfile[c])
  /\ pc[c] = "map" /\ ramfile[c] # NULL /\ region[c] # NoRegion => Long(c, ramfile[c])
  /\ pc[c] = "mapped" =>
       \E o \in fds[c] : region[c] = WholeRing(arg[c], o) /\ Long(c, o)

(* An object that nothing refers to is empty: the next one to get the name *)
(* starts without a unit.                                                  *)
Fresh ==
  \A o \in Objects : size[o] # 0 => o = name \/ \E c \in Callers : o \in fds[c]

(* What two callers have open was opened twice, never by two that are not  *)
(* root; and those that are not root have nothing open that root created.  *)
Apart ==
  \A c, d \in Callers : c # d =>
    /\ fds[c] \cap fds[d] \subseteq shared
    /\ c \notin Privileged /\ d \notin Privileged => fds[c] \cap fds[d] = {}

Owned == \A c \in Callers : c \notin Privileged => fds[c] \cap rooted = {}

(* A call that nothing overlaps finds the name free unless root left it,   *)
(* and then has no descriptor only for that or for want of resources.      *)
AloneState(c) ==
  alone[c] =>
    /\ InCall(c) => \A d \in Callers \ {c} : ~InCall(d)
    /\ pc[c] = "open" => name = NULL \/ Blocked(c)
    /\ pc[c] \in {"truncate", "reserve", "map"} =>
         /\ ~refused[c] /\ ramfile[c] = NULL => Blocked(c)
         /\ ramfile[c] # NULL => ~Blocked(c)
    /\ pc[c] = "map" /\ ~refused[c] => region[c] # NoRegion

Inv ==
  /\ Shape
  /\ \A c \in Callers : OwnState(c)
  /\ \A c \in Callers : OwnSize(c)
  /\ Fresh
  /\ Apart
  /\ Owned
  /\ \A c \in Callers : AloneState(c)
  /\ NoLitter

(***************************************************************************)
(* Arithmetic.                                                             *)
(***************************************************************************)

LEMMA Remainder ==
  ASSUME NEW w \in Nat \ {0}, NEW i \in Nat, NEW r \in 0 .. w - 1
  PROVE  ((w * i) + r) % w = r
<1> DEFINE n == (w * i) + r
           q == n \div w
           s == n % w
<1>1. n \in Nat /\ q \in Nat /\ s \in 0 .. w - 1 /\ n = (w * q) + s
  OBVIOUS
<1> HIDE DEF q, s
<1>2. q = i
  <2>1. ASSUME q < i PROVE FALSE
    <3>1. PICK d \in Nat : i = (q + 1) + d
      <4>1. i - (q + 1) \in Nat /\ i = (q + 1) + (i - (q + 1))
        BY <1>1, <2>1
      <4> QED
        BY <4>1
    <3>2. w * i = ((w * q) + w) + (w * d) /\ w * d \in Nat
      BY <1>1, <3>1
    <3> QED
      BY <1>1, <3>2
  <2>2. ASSUME i < q PROVE FALSE
    <3>1. PICK d \in Nat : q = (i + 1) + d
      <4>1. q - (i + 1) \in Nat /\ q = (i + 1) + (q - (i + 1))
        BY <1>1, <2>2
      <4> QED
        BY <4>1
    <3>2. w * q = ((w * i) + w) + (w * d) /\ w * d \in Nat
      BY <1>1, <3>1
    <3> QED
      BY <1>1, <3>2
  <2> QED
    BY <1>1, <2>1, <2>2
<1>3. s = r
  BY <1>1, <1>2
<1> QED
  BY <1>3 DEF s

(* The arguments of a call, and the sizes that are computed from them.     *)
LEMMA Arguments ==
  ASSUME VmemRepeatAssumption, Fits, NEW c \in Callers,
         NEW w \in Widths[c], NEW n \in Repeats
  PROVE  /\ w \in Nat \ {0} /\ n \in Nat \ {0}
         /\ w * n \in Nat \ {0}
         /\ u32(w) = w
         /\ u32(w * n) \in Nat /\ u32(w * n) <= w * n
         /\ u32(w * n) = w * n <=> w * n < Word
<1>1. w \in Nat \ {0} /\ n \in Nat \ {0} /\ Word \in Nat \ {0} /\ w < Word
  BY DEF VmemRepeatAssumption, Fits
<1>2. PICK m \in Nat : n = m + 1
  <2>1. n - 1 \in Nat /\ n = (n - 1) + 1
    BY <1>1
  <2> QED
    BY <2>1
<1>3. w * n = (w * m) + w /\ w * m \in Nat
  BY <1>1, <1>2
<1> DEFINE p == w * n
<1>4. p \in Nat \ {0}
  BY <1>1, <1>3
<1> HIDE DEF p
<1>5. w % Word = w
  BY <1>1
<1>6. p % Word \in 0 .. Word - 1 /\ (p < Word => p % Word = p)
  BY <1>1, <1>4
<1>7. p % Word \in Nat /\ p % Word <= p /\ (p % Word = p <=> p < Word)
  BY <1>1, <1>4, <1>6
<1> QED
  BY <1>1, <1>4, <1>5, <1>7 DEF p, u32

(***************************************************************************)
(* What a step of one caller leaves of the others.                         *)
(***************************************************************************)

(* A step does not touch the caller d.                                     *)
Same(d) ==
  /\ pc'[d] = pc[d] /\ arg'[d] = arg[d] /\ ramfile'[d] = ramfile[d]
  /\ fds'[d] = fds[d] /\ view'[d] = view[d] /\ region'[d] = region[d]
  /\ refused'[d] = refused[d]

(* The objects that d has open are as they were.                           *)
SameObjects(d) == \A o \in fds[d] : Long(d, o) => Long(d, o)'

LEMMA OwnStateKept ==
  ASSUME NEW d \in Callers, OwnState(d), Same(d)
  PROVE  OwnState(d)'
BY DEF OwnState, Same

LEMMA OwnSizeKept ==
  ASSUME NEW d \in Callers, OwnState(d), OwnSize(d), Same(d), SameObjects(d)
  PROVE  OwnSize(d)'
BY DEF OwnState, OwnSize, Same, SameObjects

(* Objects that nobody shortens or unshares stay as long as they were.     *)
LEMMA ObjectsKept ==
  ASSUME NEW d \in Callers, Same(d),
         \A o \in fds[d] : size'[o] = size[o] /\ (o \in shared => o \in shared')
  PROVE  SameObjects(d)
BY DEF Same, SameObjects, Long

(* What is open is not freed, and keeps its size.                          *)
LEMMA Freed ==
  ASSUME VmemRepeatAssumption, Shape, NEW lost \in SUBSET Objects, FreeUnused(lost),
         fds' \in [Callers -> SUBSET Objects], name' \in Objects \cup {NULL}
  PROVE  /\ size' \in [Objects -> Nat] /\ shared' \subseteq Objects /\ left' \subseteq Objects
         /\ \A d \in Callers : \A o \in fds'[d] :
              size'[o] = size[o] /\ (o \in shared => o \in shared')
         /\ name' # NULL /\ name' \notin left' => name' \notin left \cup lost
         /\ rooted' \subseteq rooted
         /\ name' \in rooted /\ name' # NULL => name' \in rooted'
<1>1. NULL \notin Objects
  BY DEF VmemRepeatAssumption
<1>2. \A d \in Callers : \A o \in fds'[d] : o \in Alive'
  BY <1>1 DEF Alive
<1>3. name' # NULL => name' \in Alive'
  BY DEF Alive
<1>4. /\ rooted' = rooted \cap Alive'
      /\ size' = [o \in Objects |-> IF o \in Alive' THEN size[o] ELSE 0]
      /\ shared' = shared \cap Alive'
      /\ left' = (left \cup lost) \cap Alive'
  BY DEF FreeUnused
<1>5. size' \in [Objects -> Nat] /\ shared' \subseteq Objects /\ left' \subseteq Objects
  BY <1>4 DEF Shape
<1>6. ASSUME NEW d \in Callers, NEW o \in fds'[d]
      PROVE  size'[o] = size[o] /\ (o \in shared => o \in shared')
  <2>1. o \in Objects /\ o \in Alive'
    BY <1>2
  <2> QED
    BY <2>1, <1>4
<1>7. name' # NULL /\ name' \notin left' => name' \notin left \cup lost
  BY <1>3, <1>4
<1>8. rooted' \subseteq rooted /\ (name' \in rooted /\ name' # NULL => name' \in rooted')
  BY <1>3, <1>4
<1> QED
  BY <1>5, <1>6, <1>7, <1>8

(* A caller shows only objects that it has open.                           *)
LEMMA ShownOpen ==
  ASSUME VmemRepeatAssumption, Fits, Shape, NEW c \in Callers, OwnState(c)
  PROVE  Shown(c) \subseteq fds[c] \ {NULL}
<1>1. ASSUME NEW k \in DOMAIN region[c], region[c][k] # NULL
      PROVE  region[c][k][1] \in fds[c]
  <2>1. CASE pc[c] = "map"
    <3>1. region[c] # NoRegion
      BY <1>1 DEF NoRegion
    <3>2. region[c] = Views(arg[c], view[c], ramfile[c]) /\ (view[c] > 0 => ramfile[c] # NULL)
      BY <2>1, <3>1 DEF OwnState
    <3>3. k \in 0 .. (arg[c].width * arg[c].repeat) - 1
      BY <1>1, <3>2 DEF Views
    <3>4. k < view[c] * arg[c].width /\ region[c][k] = <<ramfile[c], k % arg[c].width>>
      BY <1>1, <3>2, <3>3 DEF Views
    <3>5. view[c] # 0 
      BY <3>3, <3>4 DEF Shape
    <3>6. ramfile[c] # NULL
      BY <3>2, <3>5 DEF Shape
    <3> QED
      BY <3>4, <3>6 DEF OwnState
  <2>2. CASE pc[c] = "mapped"
    <3>1. PICK o \in fds[c] : region[c] = WholeRing(arg[c], o)
      BY <2>2 DEF OwnState
    <3>2. region[c][k] = <<o, k % arg[c].width>>
      BY <1>1, <3>1 DEF WholeRing
    <3> QED
      BY <3>2
  <2>3. CASE pc[c] = "idle"
    BY <1>1, <2>3 DEF OwnState
  <2>4. CASE pc[c] \notin {"idle", "map", "mapped"}
    BY <1>1, <2>4 DEF OwnState, NoRegion
  <2> QED
    BY <2>1, <2>2, <2>3, <2>4
<1>2. fds[c] \subseteq Objects /\ NULL \notin Objects
  BY DEF Shape, VmemRepeatAssumption
<1> QED
  BY <1>1, <1>2 DEF Shown

(* The kernel empties what it frees.                                       *)
LEMMA FreshAfter ==
  ASSUME NEW lost, FreeUnused(lost), \A d \in Callers : Shown(d)' \subseteq fds'[d]
  PROVE  Fresh'
<1>1. size' = [o \in Objects |-> IF o \in Alive' THEN size[o] ELSE 0]
  BY DEF FreeUnused
<1>2. \A o \in Objects : size'[o] # 0 => o \in Alive'
  BY <1>1
<1>3. \A o \in Alive' : o = name' \/ \E d \in Callers : o \in fds'[d]
  BY DEF Alive
<1> QED
  BY <1>2, <1>3 DEF Fresh

(***************************************************************************)
(* Init and each action preserve the invariant.                            *)
(***************************************************************************)

LEMMA InitInv ==
  ASSUME VmemRepeatAssumption, Init
  PROVE  Inv
<1>1. Shape
  BY DEF Init, Shape, Arg0
<1>2. \A c \in Callers : OwnState(c)
  BY DEF Init, OwnState, NoRegion
<1>3. \A c \in Callers : OwnSize(c)
  BY DEF Init, OwnSize
<1>fresh. Fresh
  BY DEF Init, Fresh
<1>4. Apart /\ Owned
  BY DEF Init, Apart, Owned
<1>5. \A c \in Callers : AloneState(c)
  BY DEF Init, AloneState
<1>6. NoLitter
  BY DEF Init, NoLitter
<1> QED
  BY <1>1, <1>2, <1>3, <1>4, <1>5, <1>6, <1>fresh DEF Inv

LEMMA CallInv ==
  ASSUME VmemRepeatAssumption, Fits, Inv, NEW c \in Callers, Call(c)
  PROVE  Inv'
<1>1. pc[c] \in {"idle", "null"} /\ pc' = [pc EXCEPT ![c] = "unlink"]
  BY DEF Call, Go
<1>2. PICK w \in Widths[c], n \in Repeats : arg' = [arg EXCEPT ![c] = [width |-> w, repeat |-> n]]
  BY DEF Call
<1>3. w \in Nat /\ n \in Nat
  BY Arguments
<1>4. Shape'
  BY <1>1, <1>2, <1>3 DEF Inv, Shape, Call, Steps, Arg0
<1>5. \A d \in Callers \ {c} : Same(d)
  BY <1>1, <1>2 DEF Inv, Shape, Call, Same
<1>6. OwnState(c)'
  BY <1>1, <1>2, <1>3 DEF Inv, Shape, OwnState, Call
<1>7. \A d \in Callers : OwnState(d)'
  BY <1>5, <1>6, OwnStateKept DEF Inv
<1>8. \A d \in Callers \ {c} : SameObjects(d)
  BY <1>5, ObjectsKept DEF Call
<1>9. \A d \in Callers : OwnSize(d)'
  <2>1. OwnSize(c)'
    BY <1>1 DEF Inv, Shape, OwnSize, Call
  <2> QED
    BY <2>1, <1>5, <1>8, OwnSizeKept DEF Inv
<1>10. Apart' /\ Owned'
  BY DEF Inv, Apart, Owned, Call
<1>11. \A d \in Callers : AloneState(d)'
  <2>1. AloneState(c)'
    <3>1. pc'[c] = "unlink"
      BY <1>1 DEF Inv, Shape
    <3>2. alone'[c] => \A d \in Callers \ {c} : ~InCall(d)'
      <4>1. alone'[c] => \A d \in Callers \ {c} : ~InCall(d)
        BY DEF Call
      <4> QED
        BY <4>1, <1>5 DEF Same, InCall
    <3> QED
      BY <3>1, <3>2 DEF AloneState
  <2>2. ASSUME NEW d \in Callers \ {c} PROVE AloneState(d)'
    <3>1. alone'[d] = (alone[d] /\ ~InCall(d))
      BY DEF Call
    <3>2. pc'[d] = pc[d] /\ refused'[d] = refused[d]
      BY <1>5 DEF Same
    <3>3. pc[d] \in Steps => ~alone'[d]
      BY <3>1 DEF InCall
    <3>4. alone'[d] => alone[d]
      BY <3>1
    <3> QED
      BY <3>2, <3>3, <3>4 DEF Inv, AloneState, InCall, Steps
  <2> QED
    BY <2>1, <2>2
<1>12. NoLitter'
  BY <1>1 DEF Inv, Shape, NoLitter, Call, InCall, Steps
<1>fresh. Fresh'
  BY DEF Inv, Fresh, Call
<1> QED
  BY <1>4, <1>7, <1>9, <1>10, <1>11, <1>12, <1>fresh DEF Inv

LEMMA UnlinkInv ==
  ASSUME VmemRepeatAssumption, Fits, Inv, NEW c \in Callers, Unlink(c)
  PROVE  Inv'
<1>1. pc[c] = "unlink" /\ pc' = [pc EXCEPT ![c] = "open"]
  BY DEF Unlink, Go
<1>2. UNCHANGED <<arg, ramfile, fds, view, region, alone, refused>> /\ FreeUnused({})
  BY DEF Unlink
(* The name goes, or is that of an object that only root may unlink.       *)
<1>20. \/ name' = NULL
       \/ name' = name /\ name # NULL /\ Blocked(c)
  BY VmemRepeatAssumption DEF Unlink, MayUnlink, Blocked, Inv, Shape
<1>21. name' \in Objects \cup {NULL}
  BY <1>20 DEF Inv, Shape
<1>3. /\ size' \in [Objects -> Nat] /\ shared' \subseteq Objects /\ left' \subseteq Objects
      /\ \A d \in Callers : \A o \in fds'[d] :
           size'[o] = size[o] /\ (o \in shared => o \in shared')
      /\ name' # NULL /\ name' \notin left' => name' \notin left
      /\ rooted' \subseteq rooted
      /\ name' \in rooted /\ name' # NULL => name' \in rooted'
  <2>1. Shape /\ fds' \in [Callers -> SUBSET Objects] /\ {} \in SUBSET Objects
    BY <1>2 DEF Inv, Shape
  <2> QED
    BY <2>1, <1>2, <1>21, Freed
<1>4. Shape'
  BY <1>1, <1>2, <1>3, <1>21 DEF Inv, Shape, Steps
<1>5. \A d \in Callers \ {c} : Same(d)
  BY <1>1, <1>2 DEF Inv, Shape, Same
<1>6. OwnState(c)'
  BY <1>1, <1>2 DEF Inv, Shape, OwnState
<1>7. \A d \in Callers : OwnState(d)'
  BY <1>5, <1>6, OwnStateKept DEF Inv
<1>8. \A d \in Callers \ {c} : SameObjects(d)
  <2> TAKE d \in Callers \ {c}
  <2>1. Same(d) /\ fds'[d] = fds[d]
    BY <1>5 DEF Same
  <2>2. \A o \in fds[d] : size'[o] = size[o] /\ (o \in shared => o \in shared')
    BY <1>3, <2>1
  <2> QED
    BY <2>1, <2>2, ObjectsKept
<1>9. \A d \in Callers : OwnSize(d)'
  <2>1. OwnSize(c)'
    BY <1>1, <1>2 DEF Inv, Shape, OwnSize
  <2> QED
    BY <2>1, <1>5, <1>8, OwnSizeKept DEF Inv
<1>10. Apart' /\ Owned'
  BY <1>2, <1>3 DEF Inv, Apart, Owned
<1>11. \A d \in Callers : AloneState(d)'
  <2>1. AloneState(c)'
    <3>1. pc'[c] = "open"
      BY <1>1 DEF Inv, Shape
    <3>2. name' = NULL \/ Blocked(c)'
      BY <1>20, <1>3 DEF Blocked
    <3>3. alone'[c] => \A d \in Callers \ {c} : ~InCall(d)'
      <4>1. alone'[c] => \A d \in Callers \ {c} : ~InCall(d)
        BY <1>1, <1>2 DEF Inv, AloneState, InCall, Steps
      <4> QED
        BY <4>1, <1>5 DEF Same, InCall
    <3> QED
      BY <3>1, <3>2, <3>3 DEF AloneState
  <2>2. ASSUME NEW d \in Callers \ {c} PROVE AloneState(d)'
    <3>1. Same(d) /\ AloneState(d) /\ alone'[d] = alone[d]
      BY <1>2, <1>5 DEF Inv
    <3>2. alone[d] => pc[d] \notin Steps
      BY <1>1, <3>1 DEF AloneState, InCall, Steps
    <3> QED
      BY <3>1, <3>2 DEF AloneState, InCall, Steps, Same
  <2> QED
    BY <2>1, <2>2
<1>12. NoLitter'
  <2> SUFFICES ASSUME name' # NULL, name' \notin left'
               PROVE  \E d \in Callers : InCall(d)' /\ ramfile'[d] = name'
    BY DEF NoLitter
  <2>1. PICK d \in Callers : InCall(d) /\ ramfile[d] = name
    BY <1>3, <1>20 DEF Inv, NoLitter
  <2>2. InCall(d)'
    BY <2>1, <1>1 DEF InCall, Steps, Inv, Shape
  <2> QED
    BY <2>1, <2>2, <1>2, <1>20
<1>fresh. Fresh'
  <2>1. \A d \in Callers : Shown(d)' \subseteq fds'[d]
    <3>1. \A d \in Callers : Shown(d) \subseteq fds[d]
      BY VmemRepeatAssumption, ShownOpen DEF Inv
    <3> QED
      BY <1>2, <3>1 DEF Shown
  <2> QED
    BY <1>2, <2>1, FreshAfter
<1> QED
  BY <1>4, <1>7, <1>9, <1>10, <1>11, <1>12, <1>fresh DEF Inv

LEMMA OpenInv ==
  ASSUME VmemRepeatAssumption, Fits, Inv, NEW c \in Callers, Open(c)
  PROVE  Inv'
<1>1. pc[c] = "open" /\ pc' = [pc EXCEPT ![c] = "truncate"]
  BY DEF Open, Go
<1>2. UNCHANGED <<arg, view, region, alone, size, left>> /\ shared \subseteq shared'
  BY DEF Open
<1>3. NULL \notin Objects
  BY DEF VmemRepeatAssumption
(* What the step did to the descriptors of c, as cases of the name.        *)
<1>4. \/ /\ name = NULL
         /\ name' \in Objects \ Alive /\ ramfile' = [ramfile EXCEPT ![c] = name']
         /\ fds' = [fds EXCEPT ![c] = @ \cup {name'}]
         /\ UNCHANGED <<refused, shared>>
         /\ rooted' = IF c \in Privileged THEN rooted \cup {name'} ELSE rooted \ {name'}
      \/ /\ name # NULL /\ c \in Privileged
         /\ name' = name /\ ramfile' = [ramfile EXCEPT ![c] = name']
         /\ fds' = [fds EXCEPT ![c] = @ \cup {name'}]
         /\ shared' = shared \cup {name'} /\ refused' = refused /\ rooted' = rooted
      \/ /\ name' = name /\ ramfile' = [ramfile EXCEPT ![c] = NULL]
         /\ UNCHANGED <<fds, shared, rooted>>
         /\ \/ name # NULL /\ c \notin Privileged /\ refused' = refused
            \/ refused' = [refused EXCEPT ![c] = TRUE]
  BY DEF Open, MayOpen, Fails
<1>5. Shape'
  <2>1. name' \in Objects \cup {NULL} /\ shared' \subseteq Objects /\ rooted' \subseteq Objects
    BY <1>4 DEF Inv, Shape
  <2>2. ramfile' \in [Callers -> Objects \cup {NULL}]
    BY <1>4, <2>1 DEF Inv, Shape
  <2>3. fds' \in [Callers -> SUBSET Objects]
    <3>1. fds \in [Callers -> SUBSET Objects] /\ name \in Objects \cup {NULL}
      BY DEF Inv, Shape
    <3>2. fds' = fds \/ \E o \in Objects : fds' = [fds EXCEPT ![c] = @ \cup {o}]
      BY <1>4, <3>1
    <3> QED
      BY <3>1, <3>2
  <2>4. refused' \in [Callers -> BOOLEAN]
    BY <1>4 DEF Inv, Shape
  <2> QED
    BY <1>1, <1>2, <2>1, <2>2, <2>3, <2>4 DEF Inv, Shape, Steps
<1>6. \A d \in Callers \ {c} : Same(d)
  BY <1>1, <1>2, <1>4 DEF Inv, Shape, Same
<1>7. OwnState(c)'
  BY <1>1, <1>2, <1>4 DEF Inv, Shape, OwnState
<1>8. \A d \in Callers : OwnState(d)'
  BY <1>6, <1>7, OwnStateKept DEF Inv
<1>9. \A d \in Callers \ {c} : SameObjects(d)
  BY <1>2, <1>6, ObjectsKept
<1>10. \A d \in Callers : OwnSize(d)'
  <2>1. OwnSize(c)'
    <3>1. pc'[c] = "truncate" /\ ~refused[c]
      BY <1>1 DEF Inv, Shape, OwnSize
    <3>2. CASE name = NULL /\ name' \in Objects \ Alive
               /\ ramfile' = [ramfile EXCEPT ![c] = name'] /\ refused' = refused
      <4>1. size[name'] = 0
        BY <1>3, <3>2 DEF Inv, Fresh, Alive
      <4>2. ramfile'[c] = name' /\ ~refused'[c] /\ size'[name'] = 0
        BY <1>2, <3>1, <3>2, <4>1 DEF Inv, Shape
      <4> QED
        BY <3>1, <4>2 DEF OwnSize, Long
    <3>3. CASE ramfile' = [ramfile EXCEPT ![c] = name'] /\ shared' = shared \cup {name'}
               /\ refused' = refused
      <4>1. ramfile'[c] = name' /\ ~refused'[c] /\ name' \in shared'
        BY <3>1, <3>3 DEF Inv, Shape
      <4> QED
        BY <3>1, <4>1 DEF OwnSize, Long
    <3>4. CASE ramfile' = [ramfile EXCEPT ![c] = NULL]
      <4>1. ramfile'[c] = NULL
        BY <3>4 DEF Inv, Shape
      <4> QED
        BY <3>1, <4>1 DEF OwnSize
    <3> QED
      BY <1>4, <3>2, <3>3, <3>4
  <2> QED
    BY <2>1, <1>6, <1>9, OwnSizeKept DEF Inv
<1>11. Apart'
  <2>1. ASSUME NEW d \in Callers \ {c}
        PROVE  /\ fds'[c] \cap fds'[d] \subseteq shared'
               /\ c \notin Privileged /\ d \notin Privileged => fds'[c] \cap fds'[d] = {}
    <3>1. fds'[d] = fds[d]
      BY <1>6 DEF Same
    <3>2. fds[d] \subseteq Alive
      BY <1>3 DEF Alive, Inv, Shape
    <3>3. /\ fds[c] \cap fds[d] \subseteq shared
          /\ c \notin Privileged /\ d \notin Privileged => fds[c] \cap fds[d] = {}
      BY DEF Inv, Apart
    <3>4. \/ fds'[c] = fds[c]
          \/ fds'[c] = fds[c] \cup {name'} /\ name' \notin fds[d]
          \/ fds'[c] = fds[c] \cup {name'} /\ c \in Privileged /\ name' \in shared'
      BY <1>4, <3>2 DEF Inv, Shape
    <3> QED
      BY <1>2, <3>1, <3>3, <3>4
  <2>2. ASSUME NEW d \in Callers, NEW e \in Callers, d # e, d # c, e # c
        PROVE  /\ fds'[e] \cap fds'[d] \subseteq shared'
               /\ e \notin Privileged /\ d \notin Privileged => fds'[e] \cap fds'[d] = {}
    BY <1>2, <1>6, <2>2 DEF Same, Inv, Apart
  <2> QED
    BY <2>1, <2>2 DEF Apart
<1>20. Owned'
  <2> SUFFICES ASSUME NEW d \in Callers, d \notin Privileged PROVE fds'[d] \cap rooted' = {}
    BY DEF Owned
  <2>1. fds[d] \cap rooted = {}
    BY DEF Inv, Owned
  <2>2. fds[d] \subseteq Alive
    BY <1>3 DEF Alive, Inv, Shape
  <2>3. CASE d = c
    <3>1. \/ fds'[c] = fds[c] /\ rooted' = rooted
          \/ fds'[c] = fds[c] \cup {name'} /\ rooted' = rooted \ {name'}
      BY <1>4, <2>3 DEF Inv, Shape
    <3> QED
      BY <2>1, <2>3, <3>1
  <2>4. CASE d # c
    <3>1. fds'[d] = fds[d]
      BY <1>6, <2>4 DEF Same
    <3>2. rooted' \subseteq rooted \/ (rooted' = rooted \cup {name'} /\ name' \notin Alive)
      BY <1>4
    <3> QED
      BY <2>1, <2>2, <3>1, <3>2
  <2> QED
    BY <2>3, <2>4
<1>12. \A d \in Callers : AloneState(d)'
  <2>1. AloneState(c)'
    <3> SUFFICES ASSUME alone[c] PROVE AloneState(c)'
      BY <1>2 DEF AloneState
    <3>1. pc'[c] = "truncate"
      BY <1>1 DEF Inv, Shape
    <3>2. (name = NULL \/ Blocked(c)) /\ \A d \in Callers \ {c} : ~InCall(d)
      BY <1>1 DEF Inv, AloneState, InCall, Steps
    <3>3. \A d \in Callers \ {c} : ~InCall(d)'
      BY <3>2, <1>6 DEF Same, InCall
    <3>4. /\ ~refused'[c] /\ ramfile'[c] = NULL => Blocked(c)'
          /\ ramfile'[c] # NULL => ~Blocked(c)'
      BY <1>3, <1>4, <3>2 DEF Inv, Shape, Blocked
    <3> QED
      BY <3>1, <3>3, <3>4 DEF AloneState
  <2>2. ASSUME NEW d \in Callers \ {c} PROVE AloneState(d)'
    <3>1. Same(d) /\ AloneState(d) /\ alone'[d] = alone[d]
      BY <1>2, <1>6 DEF Inv
    <3>2. alone[d] => pc[d] \notin Steps
      BY <1>1, <3>1 DEF AloneState, InCall, Steps
    <3> QED
      BY <3>1, <3>2 DEF AloneState, InCall, Steps, Same
  <2> QED
    BY <2>1, <2>2
<1>13. NoLitter'
  <2>1. CASE ramfile' = [ramfile EXCEPT ![c] = name']
    BY <1>1, <2>1 DEF NoLitter, InCall, Steps, Inv, Shape
  <2>2. CASE name' = name /\ ramfile' = [ramfile EXCEPT ![c] = NULL]
    <3>1. ramfile[c] = NULL
      BY <1>1 DEF Inv, OwnState
    <3> QED
      BY <1>1, <1>2, <2>2, <3>1 DEF NoLitter, InCall, Steps, Inv, Shape
  <2> QED
    BY <2>1, <2>2, <1>4
<1>fresh. Fresh'
  <2> SUFFICES ASSUME NEW o \in Objects, size'[o] # 0
               PROVE  o = name' \/ \E d \in Callers : o \in fds'[d]
    BY DEF Fresh
  <2>1. o = name \/ \E d \in Callers : o \in fds[d]
    BY <1>2 DEF Inv, Fresh
  <2>2. name' = name \/ name = NULL
    BY <1>4
  <2>3. \A d \in Callers : fds[d] \subseteq fds'[d]
    BY <1>4 DEF Inv, Shape
  <2> QED
    BY <1>3, <2>1, <2>2, <2>3
<1> QED
  BY <1>5, <1>8, <1>10, <1>11, <1>12, <1>13, <1>20, <1>fresh DEF Inv

LEMMA TruncateInv ==
  ASSUME VmemRepeatAssumption, Fits, Inv, NEW c \in Callers, Truncate(c)
  PROVE  Inv'
<1>1. pc[c] = "truncate" /\ pc' = [pc EXCEPT ![c] = "reserve"]
  BY DEF Truncate, Go
<1>2. UNCHANGED <<name, rooted, arg, ramfile, fds, view, region, alone, shared, left>>
  BY DEF Truncate
<1>3. arg[c].width \in Widths[c] /\ arg[c].repeat \in Repeats
  BY <1>1 DEF Inv, OwnState
<1>4. Extent(c) = arg[c].width /\ arg[c].width \in Nat
  BY <1>3, Arguments DEF Extent
<1>5. \/ /\ ramfile[c] \in Objects /\ size' = [size EXCEPT ![ramfile[c]] = arg[c].width]
         /\ refused' = refused
      \/ size' = size /\ ramfile[c] = NULL /\ refused' = refused
      \/ size' = size /\ refused' = [refused EXCEPT ![c] = TRUE]
  BY <1>4 DEF Truncate, Fails, Inv, Shape
<1>6. Shape'
  BY <1>1, <1>2, <1>4, <1>5 DEF Inv, Shape, Steps
<1>7. \A d \in Callers \ {c} : Same(d)
  BY <1>1, <1>2, <1>5 DEF Inv, Shape, Same
<1>8. OwnState(c)'
  BY <1>1, <1>2 DEF Inv, Shape, OwnState
<1>9. \A d \in Callers : OwnState(d)'
  BY <1>7, <1>8, OwnStateKept DEF Inv
<1>10. ASSUME NEW d \in Callers \ {c} PROVE SameObjects(d)
  <2>1. ASSUME NEW o \in fds[d] PROVE o \in shared \/ size'[o] = size[o]
    <3>1. ramfile[c] \in fds[c] \cup {NULL}
      BY DEF Inv, OwnState
    <3>2. fds[c] \cap fds[d] \subseteq shared
      BY DEF Inv, Apart
    <3> QED
      BY <1>5, <3>1, <3>2 DEF Inv, Shape
  <2> QED
    BY <2>1, <1>2, <1>7 DEF Same, SameObjects, Long
<1>11. \A d \in Callers : OwnSize(d)'
  <2>1. OwnSize(c)'
    <3>1. pc'[c] = "reserve" /\ ramfile'[c] = ramfile[c] /\ arg'[c] = arg[c] /\ shared' = shared
      BY <1>1, <1>2 DEF Inv, Shape
    <3>2. ramfile[c] # NULL => ~refused[c] /\ Long(c, ramfile[c])
      BY <1>1 DEF Inv, OwnSize
    <3>3. ramfile[c] # NULL => Long(c, ramfile[c])'
      <4>1. CASE /\ ramfile[c] \in Objects /\ size' = [size EXCEPT ![ramfile[c]] = arg[c].width]
                 /\ refused' = refused
        BY <1>1, <3>1, <3>2, <4>1 DEF Inv, Shape, Long
      <4>2. CASE size' = size /\ refused' = [refused EXCEPT ![c] = TRUE]
        BY <1>1, <3>1, <3>2, <4>2 DEF Inv, Shape, Long
      <4>3. CASE ramfile[c] = NULL
        BY <4>3
      <4> QED
        BY <1>5, <4>1, <4>2, <4>3
    <3> QED
      BY <3>1, <3>3 DEF OwnSize
  <2> QED
    BY <2>1, <1>7, <1>10, OwnSizeKept DEF Inv
<1>12. Apart' /\ Owned'
  BY <1>2 DEF Inv, Apart, Owned
<1>13. \A d \in Callers : AloneState(d)'
  <2>1. AloneState(c)'
    <3>1. pc'[c] = "reserve" /\ ramfile'[c] = ramfile[c] /\ alone'[c] = alone[c]
          /\ (refused'[c] = refused[c] \/ refused'[c])
      BY <1>1, <1>2, <1>5 DEF Inv, Shape
    <3>2. Blocked(c)' <=> Blocked(c)
      BY <1>2 DEF Blocked
    <3>3. alone[c] => \A d \in Callers \ {c} : ~InCall(d)'
      <4>1. alone[c] => \A d \in Callers \ {c} : ~InCall(d)
        BY <1>1 DEF Inv, AloneState, InCall, Steps
      <4> QED
        BY <4>1, <1>7 DEF Same, InCall
    <3>4. alone[c] => /\ ~refused[c] /\ ramfile[c] = NULL => Blocked(c)
                      /\ ramfile[c] # NULL => ~Blocked(c)
      BY <1>1 DEF Inv, AloneState
    <3> QED
      BY <3>1, <3>2, <3>3, <3>4 DEF AloneState
  <2>2. ASSUME NEW d \in Callers \ {c} PROVE AloneState(d)'
    <3>1. Same(d) /\ AloneState(d) /\ alone'[d] = alone[d]
      BY <1>2, <1>7 DEF Inv
    <3>2. alone[d] => pc[d] \notin Steps
      BY <1>1, <3>1 DEF AloneState, InCall, Steps
    <3> QED
      BY <3>1, <3>2 DEF AloneState, InCall, Steps, Same
  <2> QED
    BY <2>1, <2>2
<1>14. NoLitter'
  BY <1>1, <1>2 DEF NoLitter, InCall, Steps, Inv, Shape
<1>fresh. Fresh'
  <2>1. ramfile[c] \in fds[c] \cup {NULL}
    BY DEF Inv, OwnState
  <2>2. \A o \in Objects : size'[o] = size[o] \/ (o = ramfile[c] /\ o \in fds[c])
    BY <1>5, <2>1 DEF Inv, Shape
  <2> QED
    BY <1>2, <2>2 DEF Inv, Fresh
<1> QED
  BY <1>6, <1>9, <1>11, <1>12, <1>13, <1>14, <1>fresh DEF Inv

LEMMA ReserveInv ==
  ASSUME VmemRepeatAssumption, Fits, Inv, NEW c \in Callers, Reserve(c)
  PROVE  Inv'
<1>1. pc[c] = "reserve" /\ pc' = [pc EXCEPT ![c] = "map"]
  BY DEF Reserve, Go
<1>2. UNCHANGED <<name, rooted, size, arg, ramfile, fds, view, alone, shared, left>>
  BY DEF Reserve
<1> DEFINE units == arg[c].width * arg[c].repeat
<1>3. arg[c].width \in Widths[c] /\ arg[c].repeat \in Repeats /\ view[c] = 0
  BY <1>1 DEF Inv, OwnState
<1>4. units \in Nat \ {0} /\ arg[c].width \in Nat /\ arg[c].repeat \in Nat
  BY <1>3, Arguments
<1>5. \/ /\ region' = [region EXCEPT ![c] = [k \in 0 .. units - 1 |-> NULL]]
         /\ refused' = refused
      \/ region' = [region EXCEPT ![c] = NoRegion] /\ refused' = [refused EXCEPT ![c] = TRUE]
  BY <1>4 DEF Reserve, Fails
<1>6. Shape'
  BY <1>1, <1>2, <1>5 DEF Inv, Shape, Steps
<1>7. \A d \in Callers \ {c} : Same(d)
  BY <1>1, <1>2, <1>5 DEF Inv, Shape, Same
<1>8. [k \in 0 .. units - 1 |-> NULL] = Views(arg[c], 0, ramfile[c])
  BY <1>4 DEF Views
<1>9. [k \in 0 .. units - 1 |-> NULL] # NoRegion
  <2>1. 0 \in DOMAIN [k \in 0 .. units - 1 |-> NULL]
    BY <1>4
  <2>2. DOMAIN NoRegion = {}
    BY DEF NoRegion
  <2> QED
    BY <2>1, <2>2
<1> HIDE DEF units
<1>10. OwnState(c)'
  <2>1. \/ region'[c] = NoRegion /\ view'[c] = 0
        \/ region'[c] = Views(arg'[c], view'[c], ramfile'[c]) /\ view'[c] = 0
    BY <1>2, <1>3, <1>5, <1>8 DEF Inv, Shape
  <2>2. pc'[c] = "map" /\ ramfile'[c] \in fds'[c] \cup {NULL}
    BY <1>1, <1>2 DEF Inv, Shape, OwnState
  <2> QED
    BY <1>2, <1>3, <1>4, <2>1, <2>2 DEF OwnState
<1>11. \A d \in Callers : OwnState(d)'
  BY <1>7, <1>10, OwnStateKept DEF Inv
<1>12. \A d \in Callers \ {c} : SameObjects(d)
  BY <1>2, <1>7, ObjectsKept
<1>13. \A d \in Callers : OwnSize(d)'
  <2>1. OwnSize(c)'
    <3>1. /\ pc'[c] = "map" /\ ramfile'[c] = ramfile[c] /\ arg'[c] = arg[c]
          /\ shared' = shared /\ size' = size
      BY <1>1, <1>2 DEF Inv, Shape
    <3>2. refused'[c] = refused[c] \/ region'[c] = NoRegion
      BY <1>5 DEF Inv, Shape
    <3>3. ramfile[c] # NULL => Long(c, ramfile[c])
      BY <1>1 DEF Inv, OwnSize
    <3> QED
      BY <1>1, <3>1, <3>2, <3>3 DEF OwnSize, Long
  <2> QED
    BY <2>1, <1>7, <1>12, OwnSizeKept DEF Inv
<1>14. Apart' /\ Owned'
  BY <1>2 DEF Inv, Apart, Owned
<1>15. \A d \in Callers : AloneState(d)'
  <2>1. AloneState(c)'
    <3>1. pc'[c] = "map" /\ ramfile'[c] = ramfile[c] /\ alone'[c] = alone[c]
          /\ ((refused'[c] = refused[c] /\ region'[c] # NoRegion) \/ refused'[c])
      BY <1>1, <1>2, <1>5, <1>9 DEF Inv, Shape
    <3>2. Blocked(c)' <=> Blocked(c)
      BY <1>2 DEF Blocked
    <3>3. alone[c] => \A d \in Callers \ {c} : ~InCall(d)'
      <4>1. alone[c] => \A d \in Callers \ {c} : ~InCall(d)
        BY <1>1 DEF Inv, AloneState, InCall, Steps
      <4> QED
        BY <4>1, <1>7 DEF Same, InCall
    <3>4. alone[c] => /\ ~refused[c] /\ ramfile[c] = NULL => Blocked(c)
                      /\ ramfile[c] # NULL => ~Blocked(c)
      BY <1>1 DEF Inv, AloneState
    <3> QED
      BY <3>1, <3>2, <3>3, <3>4 DEF AloneState
  <2>2. ASSUME NEW d \in Callers \ {c} PROVE AloneState(d)'
    <3>1. Same(d) /\ AloneState(d) /\ alone'[d] = alone[d] /\ name' = name
      BY <1>2, <1>7 DEF Inv
    <3>2. alone[d] => pc[d] \notin Steps
      BY <1>1, <3>1 DEF AloneState, InCall, Steps
    <3> QED
      BY <3>1, <3>2 DEF AloneState, InCall, Steps, Same
  <2> QED
    BY <2>1, <2>2
<1>16. NoLitter'
  BY <1>1, <1>2 DEF NoLitter, InCall, Steps, Inv, Shape
<1>fresh. Fresh'
  BY <1>2 DEF Inv, Fresh
<1> QED
  BY <1>6, <1>11, <1>13, <1>14, <1>15, <1>16, <1>fresh DEF Inv

(* Where the loop stands when a view is mapped or fails to be.             *)
LEMMA InLoop ==
  ASSUME VmemRepeatAssumption, Fits, Inv, NEW c \in Callers, pc[c] = "map"
  PROVE  /\ arg[c] \in [width : Widths[c], repeat : Repeats]
         /\ arg[c].width \in Nat \ {0} /\ arg[c].repeat \in Nat \ {0}
         /\ view[c] \in 0 .. arg[c].repeat /\ ViewStart(c) \in Nat
         /\ ViewUnits(c) = ViewStart(c) .. ViewStart(c) + arg[c].width - 1
         /\ ViewUnits(c) # {}
<1>1. arg[c].width \in Widths[c] /\ arg[c].repeat \in Repeats /\ view[c] <= arg[c].repeat
  BY DEF Inv, OwnState
<1>2. arg[c] \in [width : Widths[c], repeat : Repeats]
  BY <1>1 DEF Inv, Shape
<1>3. arg[c].width \in Nat \ {0} /\ arg[c].repeat \in Nat \ {0} /\ u32(arg[c].width) = arg[c].width
  BY <1>1, Arguments
<1>4. view[c] \in 0 .. arg[c].repeat
  BY <1>1, <1>3 DEF Inv, Shape
<1>5. ViewStart(c) \in Nat
  BY <1>3, <1>4 DEF ViewStart
<1>6. ViewUnits(c) = ViewStart(c) .. ViewStart(c) + arg[c].width - 1
  BY <1>3 DEF ViewUnits
<1>7. ViewStart(c) \in ViewUnits(c)
  BY <1>3, <1>5, <1>6
<1> QED
  BY <1>2, <1>3, <1>4, <1>5, <1>6, <1>7

(* A view more of the ring.                                                *)
AddView(a, i, o) ==
  LET start == i * a.width
  IN  [k \in DOMAIN Views(a, i, o) |->
         IF k \in start .. start + a.width - 1 THEN <<o, k - start>> ELSE Views(a, i, o)[k]]

LEMMA NextView ==
  ASSUME NEW a, a.width \in Nat \ {0}, a.repeat \in Nat \ {0},
         NEW i \in 0 .. a.repeat - 1, NEW o
  PROVE  AddView(a, i, o) = Views(a, i + 1, o)
<1> DEFINE w == a.width
           units == w * a.repeat
           start == i * w
<1>1. units \in Nat /\ start \in Nat /\ (i + 1) * w = start + w /\ w \in Nat \ {0} /\ i \in Nat
  <2> DEFINE n == a.repeat
  <2>1. w \in Nat \ {0} /\ n \in Nat \ {0} /\ i \in Nat
    OBVIOUS
  <2> HIDE DEF w, n
  <2>2. w * n \in Nat /\ i * w \in Nat /\ (i + 1) * w = (i * w) + w
    BY <2>1
  <2> QED
    BY <2>1, <2>2 DEF n
<1>2. Views(a, i, o) = [k \in 0 .. units - 1 |-> IF k < start THEN <<o, k % w>> ELSE NULL]
  BY DEF Views
<1>3. Views(a, i + 1, o) = [k \in 0 .. units - 1 |-> IF k < start + w THEN <<o, k % w>> ELSE NULL]
  BY <1>1 DEF Views
<1>4. AddView(a, i, o) = [k \in 0 .. units - 1 |->
        IF k \in start .. start + w - 1 THEN <<o, k - start>> ELSE Views(a, i, o)[k]]
  BY <1>2 DEF AddView
<1>5. ASSUME NEW k \in 0 .. units - 1
      PROVE  (IF k \in start .. start + w - 1 THEN <<o, k - start>> ELSE Views(a, i, o)[k])
             = IF k < start + w THEN <<o, k % w>> ELSE NULL
  <2> k \in Nat
    BY <1>1
  <2>1. CASE k \in start .. start + w - 1
    <3> DEFINE r == k - start
    <3>1. r \in 0 .. w - 1 /\ k = (w * i) + r
      BY <1>1, <2>1
    <3> HIDE DEF r
    <3>2. k % w = r
      BY <1>1, <3>1, Remainder
    <3> QED
      BY <1>1, <2>1, <3>2 DEF r
  <2>2. CASE k \notin start .. start + w - 1
    <3> HIDE DEF start, units, w
    <3> QED
      BY <1>1, <1>2, <1>5, <2>2
  <2> QED
    BY <2>1, <2>2
<1> QED
  BY <1>3, <1>4, <1>5

LEMMA MapViewInv ==
  ASSUME VmemRepeatAssumption, Fits, Inv, NEW c \in Callers, MapView(c)
  PROVE  Inv'
<1> DEFINE w == arg[c].width
           n == arg[c].repeat
           i == view[c]
           o == ramfile[c]
<1>1. pc[c] = "map" /\ i < n /\ o # NULL /\ region[c] # NoRegion
  BY DEF MapView, MoreViews, CanMap
<1>2. UNCHANGED <<name, rooted, size, pc, arg, ramfile, fds, alone, refused, shared, left>>
  BY DEF MapView
<1>3. view' = [view EXCEPT ![c] = i + 1]
  BY DEF MapView
<1>4. /\ w \in Widths[c] /\ n \in Repeats /\ w \in Nat \ {0} /\ n \in Nat \ {0}
      /\ i \in 0 .. n - 1 /\ o \in fds[c]
      /\ ViewUnits(c) = i * w .. (i * w) + w - 1 /\ ViewStart(c) = i * w
  BY <1>1, InLoop DEF ViewStart, Inv, OwnState
<1>5. region[c] = Views(arg[c], i, o)
  BY <1>1 DEF Inv, OwnState
<1>6. region' = [region EXCEPT ![c] = Views(arg[c], i + 1, o)]
  <2>1. region' = [region EXCEPT ![c] = [k \in DOMAIN region[c] |->
          IF k \in ViewUnits(c) THEN <<o, k - ViewStart(c)>> ELSE region[c][k]]]
    BY DEF MapView
  <2>2. region' = [region EXCEPT ![c] = AddView(arg[c], i, o)]
    BY <2>1, <1>4, <1>5 DEF AddView
  <2>3. AddView(arg[c], i, o) = Views(arg[c], i + 1, o)
    BY <1>4, NextView
  <2> QED
    BY <2>2, <2>3
<1>7. Views(arg[c], i + 1, o) # NoRegion
  <2>1. w * n \in Nat \ {0}
    BY <1>4, Arguments
  <2>2. 0 \in DOMAIN Views(arg[c], i + 1, o)
    BY <2>1 DEF Views
  <2>3. DOMAIN NoRegion = {}
    BY DEF NoRegion
  <2> QED
    BY <2>2, <2>3
<1>8. Shape'
  <2>1. view' \in [Callers -> Nat]
    BY <1>3, <1>4 DEF Inv, Shape
  <2>2. region' = [d \in Callers |-> region'[d]]
    BY <1>6 DEF Inv, Shape
  <2> QED
    BY <1>2, <2>1, <2>2 DEF Inv, Shape
<1>9. \A d \in Callers \ {c} : Same(d)
  BY <1>2, <1>3, <1>6 DEF Inv, Shape, Same
<1>10. OwnState(c)'
  <2>1. /\ pc'[c] = "map" /\ arg'[c] = arg[c] /\ ramfile'[c] = o /\ fds'[c] = fds[c]
        /\ view'[c] = i + 1 /\ region'[c] = Views(arg[c], i + 1, o)
    BY <1>1, <1>2, <1>3, <1>6 DEF Inv, Shape
  <2>2. i + 1 <= n
    BY <1>4
  <2> QED
    BY <1>1, <1>4, <2>1, <2>2 DEF OwnState
<1>11. \A d \in Callers : OwnState(d)'
  BY <1>9, <1>10, OwnStateKept DEF Inv
<1>12. \A d \in Callers \ {c} : SameObjects(d)
  BY <1>2, <1>9, ObjectsKept
<1>13. \A d \in Callers : OwnSize(d)'
  <2>1. OwnSize(c)'
    <3>1. Long(c, o)
      BY <1>1 DEF Inv, OwnSize
    <3> QED
      BY <1>1, <1>2, <3>1 DEF OwnSize, Long
  <2> QED
    BY <2>1, <1>9, <1>12, OwnSizeKept DEF Inv
<1>14. Apart' /\ Owned'
  BY <1>2 DEF Inv, Apart, Owned
<1>15. \A d \in Callers : AloneState(d)'
  <2>1. AloneState(c)'
    <3>1. region'[c] # NoRegion
      BY <1>6, <1>7 DEF Inv, Shape
    <3> QED
      BY <1>1, <1>2, <3>1 DEF Inv, AloneState, Blocked, InCall, Steps
  <2>2. ASSUME NEW d \in Callers \ {c} PROVE AloneState(d)'
    <3>1. Same(d) /\ AloneState(d)
      BY <1>9 DEF Inv
    <3> QED
      BY <1>2, <3>1 DEF AloneState, Blocked, InCall, Steps, Same
  <2> QED
    BY <2>1, <2>2
<1>16. NoLitter'
  BY <1>2 DEF NoLitter, InCall, Inv
<1>fresh. Fresh'
  BY <1>2 DEF Inv, Fresh
<1> QED
  BY <1>8, <1>11, <1>13, <1>14, <1>15, <1>16, <1>fresh DEF Inv

LEMMA MapFailsInv ==
  ASSUME VmemRepeatAssumption, Fits, Inv, NEW c \in Callers, MapFails(c)
  PROVE  Inv'
<1>1. pc[c] = "map" /\ pc' = [pc EXCEPT ![c] = "null"]
  BY DEF MapFails, Go
<1>2. /\ arg' = [arg EXCEPT ![c] = Arg0] /\ ramfile' = [ramfile EXCEPT ![c] = NULL]
      /\ view' = [view EXCEPT ![c] = 0] /\ region' = [region EXCEPT ![c] = NoRegion]
      /\ UNCHANGED <<name, rooted, size, fds, alone, shared>>
  BY DEF MapFails
<1>3. left' = left \cup ({ramfile[c]} \ {NULL})
  BY <1>1 DEF MapFails, Lost, InCall, Steps
<1>4. \/ (ramfile[c] = NULL \/ region[c] = NoRegion) /\ refused' = refused
      \/ refused' = [refused EXCEPT ![c] = TRUE]
  BY <1>1, InLoop DEF MapFails, CanMap, Fails
<1>5. Shape'
  <2>1. left' \subseteq Objects
    BY <1>3 DEF Inv, Shape
  <2>4. refused' \in [Callers -> BOOLEAN]
    <3>1. refused \in [Callers -> BOOLEAN]
      BY DEF Inv, Shape
    <3>2. refused' = refused \/ refused' = [refused EXCEPT ![c] = TRUE]
      BY <1>4
    <3> QED
      BY <3>1, <3>2
  <2>2. arg' \in [Callers -> [width : Nat, repeat : Nat]]
    <3>1. Arg0 \in [width : Nat, repeat : Nat]
      BY DEF Arg0
    <3>2. arg \in [Callers -> [width : Nat, repeat : Nat]]
      BY DEF Inv, Shape
    <3> QED
      BY <3>1, <3>2, <1>2
  <2>3. /\ pc' \in [Callers -> Steps \cup {"idle", "null", "mapped"}]
        /\ ramfile' \in [Callers -> Objects \cup {NULL}] /\ view' \in [Callers -> Nat]
        /\ region' = [d \in Callers |-> region'[d]]
    BY <1>1, <1>2 DEF Inv, Shape
  <2> QED
    BY <1>2, <2>1, <2>2, <2>3, <2>4 DEF Inv, Shape
<1>6. \A d \in Callers \ {c} : Same(d)
  BY <1>1, <1>2, <1>4 DEF Inv, Shape, Same
<1>7. OwnState(c)'
  BY <1>1, <1>2 DEF Inv, Shape, OwnState
<1>8. \A d \in Callers : OwnState(d)'
  BY <1>6, <1>7, OwnStateKept DEF Inv
<1>9. \A d \in Callers \ {c} : SameObjects(d)
  BY <1>2, <1>6, ObjectsKept
<1>10. \A d \in Callers : OwnSize(d)'
  <2>1. OwnSize(c)'
    BY <1>1 DEF Inv, Shape, OwnSize
  <2> QED
    BY <2>1, <1>6, <1>9, OwnSizeKept DEF Inv
<1>11. Apart' /\ Owned'
  BY <1>2 DEF Inv, Apart, Owned
<1>12. \A d \in Callers : AloneState(d)'
  <2>1. AloneState(c)'
    <3>1. pc'[c] = "null"
      BY <1>1 DEF Inv, Shape
    <3> QED
      BY <3>1 DEF AloneState, InCall, Steps
  <2>2. ASSUME NEW d \in Callers \ {c} PROVE AloneState(d)'
    <3>1. Same(d) /\ AloneState(d) /\ alone'[d] = alone[d] /\ name' = name
      BY <1>2, <1>6 DEF Inv
    <3>2. alone[d] => pc[d] \notin Steps
      BY <1>1, <3>1 DEF AloneState, InCall, Steps
    <3> QED
      BY <3>1, <3>2 DEF AloneState, InCall, Steps, Same
  <2> QED
    BY <2>1, <2>2
<1>13. NoLitter'
  BY <1>1, <1>2, <1>3 DEF NoLitter, InCall, Steps, Inv, Shape
<1>fresh. Fresh'
  BY <1>2 DEF Inv, Fresh
<1> QED
  BY <1>5, <1>8, <1>10, <1>11, <1>12, <1>13, <1>fresh DEF Inv

LEMMA UnlinkAgainInv ==
  ASSUME VmemRepeatAssumption, Fits, Inv, NEW c \in Callers, UnlinkAgain(c)
  PROVE  Inv'
<1>1. /\ pc[c] = "map" /\ pc' = [pc EXCEPT ![c] = "mapped"]
      /\ ~(view[c] < arg[c].repeat)
  BY DEF UnlinkAgain, Go, MoreViews
<1>2. /\ ramfile' = [ramfile EXCEPT ![c] = NULL] /\ view' = [view EXCEPT ![c] = 0]
      /\ alone' = [alone EXCEPT ![c] = FALSE]
      /\ UNCHANGED <<arg, fds, region, refused>> /\ FreeUnused({})
  BY DEF UnlinkAgain
<1>20. \/ name' = NULL
       \/ name' = name /\ name # NULL /\ Blocked(c)
  BY VmemRepeatAssumption DEF UnlinkAgain, MayUnlink, Blocked, Inv, Shape
<1>21. name' \in Objects \cup {NULL}
  BY <1>20 DEF Inv, Shape
<1>3. /\ size' \in [Objects -> Nat] /\ shared' \subseteq Objects /\ left' \subseteq Objects
      /\ \A d \in Callers : \A o \in fds'[d] :
           size'[o] = size[o] /\ (o \in shared => o \in shared')
      /\ name' # NULL /\ name' \notin left' => name' \notin left
      /\ rooted' \subseteq rooted
  <2>1. Shape /\ fds' \in [Callers -> SUBSET Objects] /\ {} \in SUBSET Objects
    BY <1>2 DEF Inv, Shape
  <2> QED
    BY <2>1, <1>2, <1>21, Freed
<1>4. Shape'
  BY <1>1, <1>2, <1>3, <1>21 DEF Inv, Shape, Steps
<1>5. \A d \in Callers \ {c} : Same(d)
  BY <1>1, <1>2 DEF Inv, Shape, Same
<1>6. /\ arg[c].width \in Widths[c] /\ arg[c].repeat \in Repeats
      /\ ramfile[c] \in fds[c] /\ ramfile[c] # NULL
      /\ region[c] = WholeRing(arg[c], ramfile[c]) /\ region[c] # NoRegion
  <2>1. /\ arg[c].width \in Widths[c] /\ arg[c].repeat \in Repeats
        /\ arg[c].width \in Nat \ {0} /\ arg[c].repeat \in Nat \ {0}
        /\ view[c] = arg[c].repeat /\ view[c] > 0
    BY <1>1, InLoop
  <2>2. /\ region[c] = Views(arg[c], view[c], ramfile[c])
        /\ ramfile[c] # NULL /\ ramfile[c] \in fds[c]
    BY <1>1, <2>1 DEF Inv, OwnState
  <2>3. arg[c].width * arg[c].repeat \in Nat /\ view[c] * arg[c].width = arg[c].width * arg[c].repeat
    BY <2>1
  <2>4. Views(arg[c], view[c], ramfile[c]) = WholeRing(arg[c], ramfile[c])
    BY <2>3 DEF Views, WholeRing
  <2>5. WholeRing(arg[c], ramfile[c]) # NoRegion
    <3>1. arg[c].width * arg[c].repeat \in Nat \ {0}
      BY <2>1, Arguments
    <3>2. 0 \in DOMAIN WholeRing(arg[c], ramfile[c])
      BY <3>1 DEF WholeRing
    <3> QED
      BY <3>2 DEF NoRegion
  <2> QED
    BY <2>1, <2>2, <2>4, <2>5
<1>7. OwnState(c)'
  <2>1. /\ pc'[c] = "mapped" /\ arg'[c] = arg[c] /\ ramfile'[c] = NULL /\ fds'[c] = fds[c]
        /\ view'[c] = 0 /\ region'[c] = region[c]
    BY <1>1, <1>2 DEF Inv, Shape
  <2> QED
    BY <1>6, <2>1 DEF OwnState
<1>8. \A d \in Callers : OwnState(d)'
  BY <1>5, <1>7, OwnStateKept DEF Inv
<1>9. \A d \in Callers \ {c} : SameObjects(d)
  <2> TAKE d \in Callers \ {c}
  <2>1. Same(d) /\ fds'[d] = fds[d]
    BY <1>5 DEF Same
  <2>2. \A o \in fds[d] : size'[o] = size[o] /\ (o \in shared => o \in shared')
    BY <1>3, <2>1
  <2> QED
    BY <2>1, <2>2, ObjectsKept
<1>10. \A d \in Callers : OwnSize(d)'
  <2>1. OwnSize(c)'
    <3>1. Long(c, ramfile[c])
      BY <1>1, <1>6 DEF Inv, OwnSize
    <3>2. pc'[c] = "mapped"
      BY <1>1 DEF Inv, Shape
    <3>3. ramfile[c] \in fds'[c] /\ region'[c] = WholeRing(arg'[c], ramfile[c])
      BY <1>2, <1>6
    <3>4. \/ ramfile[c] \in shared'
          \/ size'[ramfile[c]] = IF refused'[c] THEN 0 ELSE arg'[c].width
      BY <1>1, <1>2, <1>3, <1>6, <3>1 DEF Long
    <3> QED
      BY <3>2, <3>3, <3>4 DEF OwnSize, Long
  <2> QED
    BY <2>1, <1>5, <1>9, OwnSizeKept DEF Inv
<1>11. Apart' /\ Owned'
  BY <1>2, <1>3 DEF Inv, Apart, Owned
<1>12. \A d \in Callers : AloneState(d)'
  <2>1. AloneState(c)'
    BY <1>2 DEF Inv, Shape, AloneState
  <2>2. ASSUME NEW d \in Callers \ {c} PROVE AloneState(d)'
    <3>1. Same(d) /\ AloneState(d) /\ alone'[d] = alone[d]
      BY <1>2, <1>5 DEF Inv, Shape
    <3>2. alone[d] => pc[d] \notin Steps
      BY <1>1, <3>1 DEF AloneState, InCall, Steps
    <3> QED
      BY <3>1, <3>2 DEF AloneState, InCall, Steps, Same
  <2> QED
    BY <2>1, <2>2
<1>13. NoLitter'
  <2> SUFFICES ASSUME name' # NULL, name' \notin left'
               PROVE  \E d \in Callers : InCall(d)' /\ ramfile'[d] = name'
    BY DEF NoLitter
  <2>1. PICK d \in Callers : InCall(d) /\ ramfile[d] = name
    BY <1>3, <1>20 DEF Inv, NoLitter
  <2>2. d # c
    <3>1. c \notin Privileged /\ name \in rooted
      BY <1>20 DEF Blocked
    <3>2. ramfile[c] \notin rooted
      BY <3>1, <1>6 DEF Inv, Owned
    <3> QED
      BY <2>1, <3>1, <3>2
  <2> QED
    BY <2>1, <2>2, <1>5, <1>20 DEF Same, InCall
<1>fresh. Fresh'
  <2>1. \A d \in Callers : Shown(d)' \subseteq fds'[d]
    <3>1. \A d \in Callers : Shown(d) \subseteq fds[d]
      BY VmemRepeatAssumption, ShownOpen DEF Inv
    <3> QED
      BY <1>2, <3>1 DEF Shown
  <2> QED
    BY <1>2, <2>1, FreshAfter
<1> QED
  BY <1>4, <1>8, <1>10, <1>11, <1>12, <1>13, <1>fresh DEF Inv

LEMMA DestroyInv ==
  ASSUME VmemRepeatAssumption, Fits, Inv, NEW c \in Callers, Destroy(c)
  PROVE  /\ Inv'
         /\ region'[c] = NoRegion <=> arg[c].width * arg[c].repeat < Word
<1>1. pc[c] = "mapped" /\ pc' = [pc EXCEPT ![c] = "idle"]
  BY DEF Destroy, Go
<1>2. /\ arg' = [arg EXCEPT ![c] = Arg0] /\ ramfile' = [ramfile EXCEPT ![c] = NULL]
      /\ view' = [view EXCEPT ![c] = 0] /\ alone' = [alone EXCEPT ![c] = FALSE]
      /\ refused' = [refused EXCEPT ![c] = FALSE]
      /\ UNCHANGED <<name, rooted, size, fds, shared, left>>
  BY DEF Destroy, Forget
(* What is left is what lies past the number of bytes that munmap gets.    *)
<1> DEFINE units == arg[c].width * arg[c].repeat
           rest == {k \in DOMAIN region[c] : k >= Unmapped(c)}
           part == [k \in rest |-> region[c][k]]
<1>3. /\ region' = [region EXCEPT ![c] = part]
      /\ \A k \in rest : region[c][k][1] \in fds[c]
      /\ rest = {} <=> units < Word
  <2>1. arg[c].width \in Widths[c] /\ arg[c].repeat \in Repeats
    BY <1>1 DEF Inv, OwnState
  <2>2. /\ units \in Nat \ {0} /\ Unmapped(c) \in Nat /\ Unmapped(c) <= units
        /\ Unmapped(c) = units <=> units < Word
    BY <2>1, Arguments DEF Unmapped
  <2>3. PICK o \in fds[c] : region[c] = WholeRing(arg[c], o)
    BY <1>1 DEF Inv, OwnState
  <2>4. DOMAIN region[c] = 0 .. units - 1
    BY <2>3 DEF WholeRing
  <2>5. \A k \in DOMAIN region[c] : region[c][k][1] = o
    BY <2>3, <2>4 DEF WholeRing
  <2>6. region' = [region EXCEPT ![c] = part]
    BY DEF Destroy
  <2>7. rest = {} <=> units < Word
    <3>1. units - 1 \in DOMAIN region[c]
      BY <2>2, <2>4
    <3> QED
      BY <2>2, <2>4, <3>1
  <2> QED
    BY <2>5, <2>6, <2>7
<1>20. part = NoRegion <=> rest = {}
  <2>1. DOMAIN part = rest /\ DOMAIN NoRegion = {}
    BY DEF NoRegion
  <2>2. rest = {} => part = NoRegion
    BY DEF NoRegion
  <2> QED
    BY <2>1, <2>2
<1>21. DOMAIN part = rest /\ \A k \in rest : part[k] = region[c][k]
  OBVIOUS
<1> HIDE DEF rest, part, units
<1>4. Shape'
  BY <1>1, <1>2, <1>3 DEF Inv, Shape, Steps, Arg0
<1>5. \A d \in Callers \ {c} : Same(d)
  BY <1>1, <1>2, <1>3 DEF Inv, Shape, Same
<1>6. OwnState(c)'
  <2>1. pc'[c] = "idle" /\ arg'[c] = Arg0 /\ ramfile'[c] = NULL /\ view'[c] = 0
        /\ region'[c] = part /\ fds'[c] = fds[c]
    BY <1>1, <1>2, <1>3 DEF Inv, Shape
  <2>2. \A k \in DOMAIN region'[c] : region'[c][k][1] \in fds'[c]
    BY <2>1, <1>3, <1>21
  <2> QED
    BY <2>1, <2>2 DEF OwnState
<1>7. \A d \in Callers : OwnState(d)'
  BY <1>5, <1>6, OwnStateKept DEF Inv
<1>8. \A d \in Callers \ {c} : SameObjects(d)
  BY <1>2, <1>5, ObjectsKept
<1>9. \A d \in Callers : OwnSize(d)'
  <2>1. OwnSize(c)'
    BY <1>1 DEF Inv, Shape, OwnSize
  <2> QED
    BY <2>1, <1>5, <1>8, OwnSizeKept DEF Inv
<1>10. Apart' /\ Owned'
  BY <1>2 DEF Inv, Apart, Owned
<1>11. \A d \in Callers : AloneState(d)'
  <2>1. AloneState(c)'
    BY <1>2 DEF Inv, Shape, AloneState
  <2>2. ASSUME NEW d \in Callers \ {c} PROVE AloneState(d)'
    BY <1>1, <1>2, <1>5 DEF Inv, Shape, AloneState, Blocked, InCall, Steps, Same
  <2> QED
    BY <2>1, <2>2
<1>12. NoLitter'
  BY <1>1, <1>2 DEF NoLitter, InCall, Steps, Inv, Shape
<1>13. region'[c] = NoRegion <=> arg[c].width * arg[c].repeat < Word
  <2>1. region'[c] = part
    BY <1>3 DEF Inv, Shape
  <2> QED
    BY <2>1, <1>3, <1>20 DEF units
<1>fresh. Fresh'
  BY <1>2 DEF Inv, Fresh
<1> QED
  BY <1>4, <1>7, <1>9, <1>10, <1>11, <1>12, <1>13, <1>fresh DEF Inv

LEMMA CrashInv ==
  ASSUME VmemRepeatAssumption, Fits, Inv, NEW c \in Callers, Crash(c)
  PROVE  Inv'
<1>1. pc' = [pc EXCEPT ![c] = "idle"] /\ name' = name
  BY DEF Crash
<1>2. /\ arg' = [arg EXCEPT ![c] = Arg0] /\ ramfile' = [ramfile EXCEPT ![c] = NULL]
      /\ view' = [view EXCEPT ![c] = 0] /\ alone' = [alone EXCEPT ![c] = FALSE]
      /\ refused' = [refused EXCEPT ![c] = FALSE]
      /\ region' = [region EXCEPT ![c] = NoRegion] /\ fds' = [fds EXCEPT ![c] = {}]
  BY DEF Crash, Forget
<1>3. /\ size' \in [Objects -> Nat] /\ shared' \subseteq Objects /\ left' \subseteq Objects
      /\ \A d \in Callers : \A o \in fds'[d] :
           size'[o] = size[o] /\ (o \in shared => o \in shared')
      /\ name' # NULL /\ name' \notin left' => name' \notin left \cup Lost(c)
      /\ rooted' \subseteq rooted
      /\ name' \in rooted /\ name' # NULL => name' \in rooted'
  <2>1. Shape /\ fds' \in [Callers -> SUBSET Objects] /\ name' \in Objects \cup {NULL}
    BY <1>1, <1>2 DEF Inv, Shape
  <2>2. Lost(c) \in SUBSET Objects
    BY DEF Lost, Inv, Shape
  <2>3. FreeUnused(Lost(c))
    BY DEF Crash
  <2> QED
    BY <2>1, <2>2, <2>3, Freed
<1>4. Shape'
  BY <1>1, <1>2, <1>3 DEF Inv, Shape, Steps, Arg0
<1>5. \A d \in Callers \ {c} : Same(d)
  BY <1>1, <1>2 DEF Inv, Shape, Same
<1>6. OwnState(c)'
  BY <1>1, <1>2 DEF Inv, Shape, OwnState, NoRegion
<1>7. \A d \in Callers : OwnState(d)'
  BY <1>5, <1>6, OwnStateKept DEF Inv
<1>8. \A d \in Callers \ {c} : SameObjects(d)
  <2> TAKE d \in Callers \ {c}
  <2>1. Same(d) /\ fds'[d] = fds[d]
    BY <1>5 DEF Same
  <2>2. \A o \in fds[d] : size'[o] = size[o] /\ (o \in shared => o \in shared')
    BY <1>3, <2>1
  <2> QED
    BY <2>1, <2>2, ObjectsKept
<1>9. \A d \in Callers : OwnSize(d)'
  <2>1. OwnSize(c)'
    BY <1>1 DEF Inv, Shape, OwnSize
  <2> QED
    BY <2>1, <1>5, <1>8, OwnSizeKept DEF Inv
<1>10. Apart' /\ Owned'
  <2>1. fds'[c] = {} /\ \A d \in Callers \ {c} : fds'[d] = fds[d]
    BY <1>2 DEF Inv, Shape
  <2>2. \A d \in Callers : \A o \in fds'[d] : o \in shared => o \in shared'
    BY <1>3
  <2> QED
    BY <2>1, <2>2, <1>3 DEF Inv, Apart, Owned
<1>11. \A d \in Callers : AloneState(d)'
  <2>1. AloneState(c)'
    BY <1>2 DEF Inv, Shape, AloneState
  <2>2. ASSUME NEW d \in Callers \ {c} PROVE AloneState(d)'
    <3>1. Same(d) /\ AloneState(d) /\ alone'[d] = alone[d]
      BY <1>2, <1>5 DEF Inv, Shape
    <3>2. Blocked(d)' <=> Blocked(d)
      <4>1. name' \in rooted' <=> name \in rooted
        BY <1>1, <1>3, VmemRepeatAssumption DEF Inv, Shape
      <4> QED
        BY <4>1 DEF Blocked
    <3>3. alone[d] /\ InCall(d) => \A e \in Callers \ {d} : ~InCall(e)'
      BY <1>1, <1>5, <3>1 DEF Inv, Shape, AloneState, InCall, Steps, Same
    <3> QED
      BY <1>1, <3>1, <3>2, <3>3 DEF AloneState, Same, InCall
  <2> QED
    BY <2>1, <2>2
<1>12. NoLitter'
  <2>1. ASSUME name' # NULL, name' \notin left'
        PROVE  \E d \in Callers : InCall(d)' /\ ramfile'[d] = name'
    <3>1. name # NULL /\ name \notin left /\ name \notin Lost(c)
      BY <1>1, <1>3, <2>1
    <3>2. PICK d \in Callers : InCall(d) /\ ramfile[d] = name
      BY <3>1 DEF Inv, NoLitter
    <3>3. d # c
      BY <3>1, <3>2 DEF Lost
    <3> QED
      BY <1>1, <1>5, <3>2, <3>3 DEF Same, InCall
  <2> QED
    BY <2>1 DEF NoLitter
<1>fresh. Fresh'
  <2>1. \A d \in Callers : Shown(d)' \subseteq fds'[d]
    <3>1. \A d \in Callers : Shown(d) \subseteq fds[d]
      BY VmemRepeatAssumption, ShownOpen DEF Inv
    <3>2. Shown(c)' = {}
      BY <1>2 DEF Inv, Shape, Shown, NoRegion
    <3>3. \A d \in Callers \ {c} : Shown(d)' = Shown(d) /\ fds'[d] = fds[d]
      BY <1>5 DEF Same, Shown
    <3> QED
      BY <3>1, <3>2, <3>3
  <2>2. FreeUnused(Lost(c))
    BY DEF Crash
  <2> QED
    BY <2>1, <2>2, FreshAfter
<1> QED
  BY <1>4, <1>7, <1>9, <1>10, <1>11, <1>12, <1>fresh DEF Inv

LEMMA StutterInv ==
  ASSUME Inv, UNCHANGED vars
  PROVE  Inv'
<1> USE DEF vars
<1>1. Shape'
  BY DEF Inv, Shape
<1>2. \A c \in Callers : OwnState(c)' /\ OwnSize(c)' /\ AloneState(c)'
  BY DEF Inv, OwnState, OwnSize, Long, AloneState, Blocked, InCall
<1>3. Apart' /\ Owned' /\ NoLitter'
  BY DEF Inv, Apart, Owned, NoLitter, InCall
<1>fresh. Fresh'
  BY DEF Inv, Fresh
<1> QED
  BY <1>1, <1>2, <1>3, <1>fresh DEF Inv

LEMMA NextInv ==
  ASSUME VmemRepeatAssumption, Fits, Inv, [Next]_vars
  PROVE  Inv'
<1>1. ASSUME NEW c \in Callers, Call(c) PROVE Inv'
  BY <1>1, CallInv
<1>2. ASSUME NEW c \in Callers, Unlink(c) PROVE Inv'
  BY <1>2, UnlinkInv
<1>3. ASSUME NEW c \in Callers, Open(c) PROVE Inv'
  BY <1>3, OpenInv
<1>4. ASSUME NEW c \in Callers, Truncate(c) PROVE Inv'
  BY <1>4, TruncateInv
<1>5. ASSUME NEW c \in Callers, Reserve(c) PROVE Inv'
  BY <1>5, ReserveInv
<1>6. ASSUME NEW c \in Callers, MapView(c) PROVE Inv'
  BY <1>6, MapViewInv
<1>7. ASSUME NEW c \in Callers, MapFails(c) PROVE Inv'
  BY <1>7, MapFailsInv
<1>8. ASSUME NEW c \in Callers, UnlinkAgain(c) PROVE Inv'
  BY <1>8, UnlinkAgainInv
<1>9. ASSUME NEW c \in Callers, Destroy(c) PROVE Inv'
  BY <1>9, DestroyInv
<1>10. ASSUME NEW c \in Callers, Crash(c) PROVE Inv'
  BY <1>10, CrashInv
<1>11. CASE UNCHANGED vars
  BY <1>11, StutterInv
<1> QED
  BY <1>1, <1>2, <1>3, <1>4, <1>5, <1>6, <1>7, <1>8, <1>9, <1>10, <1>11 DEF Next

(***************************************************************************)
(* The theorems.                                                           *)
(***************************************************************************)

(* The inductive invariant of the repeat mappings holds in every reachable *)
(* state.                                                                  *)
THEOREM Invariance ==
  ASSUME Fits
  PROVE  Spec => []Inv
<1>1. Init => Inv
  BY VmemRepeatAssumption, InitInv
<1>2. Inv /\ [Next]_vars => Inv'
  BY VmemRepeatAssumption, NextInv
<1> QED
  BY <1>1, <1>2, PTL DEF Spec

(* Descriptors in use are open, the loop over the views stays below        *)
(* repeat_count and inside the range, and views show shared-memory objects.*)
THEOREM TypeCorrect ==
  ASSUME Fits
  PROVE  Spec => []TypeOK
<1>1. Inv => TypeOK
  <2> SUFFICES ASSUME Inv PROVE TypeOK
    OBVIOUS
  <2>1. ASSUME NEW c \in Callers
        PROVE  /\ arg[c].width \in Widths[c] \cup {0} /\ arg[c].repeat \in Repeats \cup {0}
               /\ fds[c] \subseteq Objects /\ ramfile[c] \in fds[c] \cup {NULL}
               /\ view[c] \in 0 .. arg[c].repeat
               /\ Shown(c) \subseteq Objects
               /\ pc[c] # "idle" => DOMAIN region[c] \subseteq 0 .. arg[c].width * arg[c].repeat - 1
    <3>1. arg[c].width \in Widths[c] \cup {0} /\ arg[c].repeat \in Repeats \cup {0}
      BY DEF Inv, OwnState, Arg0
    <3>2. fds[c] \subseteq Objects /\ ramfile[c] \in fds[c] \cup {NULL}
      BY DEF Inv, Shape, OwnState
    <3>3. arg[c].repeat \in Nat /\ view[c] \in Nat
      BY DEF Inv, Shape
    <3>4. view[c] \in 0 .. arg[c].repeat
      BY <3>3 DEF Inv, OwnState
    <3>5. Shown(c) \subseteq Objects
      BY <3>2, VmemRepeatAssumption, ShownOpen DEF Inv
    <3>6. pc[c] # "idle" => DOMAIN region[c] \subseteq 0 .. arg[c].width * arg[c].repeat - 1
      BY DEF Inv, OwnState, Views, WholeRing, NoRegion
    <3> QED
      BY <3>1, <3>2, <3>4, <3>5, <3>6
  <2> QED
    BY <2>1 DEF Inv, Shape, TypeOK
<1> QED
  BY <1>1, Invariance, PTL

(* A mapping that vmem_create_repeat_mapping returned shows one object     *)
(* over and over, with no hole and no unit out of place.                   *)
THEOREM RingWhole ==
  ASSUME Fits
  PROVE  Spec => []Ring
<1>1. Inv => Ring
  BY DEF Inv, Shape, OwnState, WholeRing, Ring
<1> QED
  BY <1>1, Invariance, PTL

(* Two processes that are not root never see each other's ring, however    *)
(* their system calls on the one name interleave, fail or crash.           *)
THEOREM Isolated ==
  ASSUME Fits
  PROVE  Spec => []Isolation
<1>1. Inv => Isolation
  <2> SUFFICES ASSUME Inv PROVE Isolation
    OBVIOUS
  <2>1. \A c \in Callers : Shown(c) \subseteq fds[c]
    BY VmemRepeatAssumption, ShownOpen DEF Inv
  <2> QED
    BY <2>1, VmemRepeatAssumption DEF Inv, Apart, Isolation
<1> QED
  BY <1>1, Invariance, PTL

(* Every unit of a mapping that was returned exists in the object exactly  *)
(* if ftruncate was not refused, unless the object was opened twice.       *)
THEOREM AllBacked ==
  ASSUME Fits
  PROVE  Spec => []Backed
<1>1. Inv => Backed
  <2> SUFFICES ASSUME Inv, NEW c \in Callers, pc[c] = "mapped", NEW k \in DOMAIN region[c]
               PROVE  \/ region[c][k][1] \in shared
                      \/ region[c][k][2] < size[region[c][k][1]] <=> ~refused[c]
    BY DEF Backed
  <2>1. PICK o \in fds[c] : region[c] = WholeRing(arg[c], o) /\ Long(c, o)
    BY DEF Inv, OwnSize
  <2>2. arg[c].width \in Nat \ {0} /\ arg[c].repeat \in Nat \ {0}
    <3>1. arg[c].width \in Widths[c] /\ arg[c].repeat \in Repeats
      BY DEF Inv, OwnState
    <3> QED
      BY <3>1, VmemRepeatAssumption, Arguments
  <2>3. k \in Nat /\ region[c][k] = <<o, k % arg[c].width>>
    BY <2>1, <2>2 DEF WholeRing
  <2>4. k % arg[c].width \in Nat /\ k % arg[c].width < arg[c].width
    BY <2>2, <2>3
  <2>5. o \in shared \/ size[o] = IF refused[c] THEN 0 ELSE arg[c].width
    BY <2>1 DEF Long
  <2> QED
    BY <2>2, <2>3, <2>4, <2>5
<1> QED
  BY <1>1, Invariance, PTL

(* A call that no other call overlaps fails, once resources permit, if and *)
(* only if root left the name to a caller that is not root, whatever else  *)
(* crashed, failed or kept its memory before it.                           *)
THEOREM AloneIsEnough ==
  ASSUME Fits
  PROVE  Spec => AloneSucceeds
<1>1. Inv /\ [Next]_vars =>
        [\A c \in Callers : InCall(c) /\ alone[c] =>
           /\ pc'[c] = "null" => refused'[c] \/ Blocked(c)
           /\ pc'[c] = "mapped" => ~Blocked(c)]_vars
  <2> SUFFICES ASSUME Inv, Next, NEW c \in Callers, InCall(c), alone[c]
               PROVE  /\ pc'[c] = "null" => refused'[c] \/ Blocked(c)
                      /\ pc'[c] = "mapped" => ~Blocked(c)
    OBVIOUS
  <2>1. PICK d \in Callers :
          \/ Call(d) \/ Unlink(d) \/ Open(d) \/ Truncate(d) \/ Reserve(d) \/ MapView(d)
          \/ MapFails(d) \/ UnlinkAgain(d) \/ Destroy(d) \/ Crash(d)
    BY DEF Next
  <2>2. pc[c] \notin {"null", "mapped"}
    BY DEF InCall, Steps
  <2>3. CASE Call(d) \/ Unlink(d) \/ Open(d) \/ Truncate(d) \/ Reserve(d) \/ Destroy(d) \/ Crash(d)
    <3>1. \E s \in {"unlink", "open", "truncate", "reserve", "map", "idle"} :
            pc' = [pc EXCEPT ![d] = s]
      BY <2>3 DEF Call, Unlink, Open, Truncate, Reserve, Destroy, Crash, Go
    <3> QED
      BY <2>2, <3>1 DEF Inv, Shape
  <2>4. CASE MapView(d)
    BY <2>2, <2>4 DEF MapView
  <2>5. CASE MapFails(d)
    <3>1. pc[d] = "map" /\ pc' = [pc EXCEPT ![d] = "null"]
      BY <2>5 DEF MapFails, Go
    <3>2. CASE d = c
      <4>1. \/ ramfile[c] = NULL \/ region[c] = NoRegion
            \/ refused' = [refused EXCEPT ![c] = TRUE]
        BY <2>5, <3>1, <3>2, VmemRepeatAssumption, InLoop DEF MapFails, CanMap, Fails
      <4>2. refused' = refused \/ refused' = [refused EXCEPT ![c] = TRUE]
        BY <2>5, <3>2 DEF MapFails, Fails
      <4>3. /\ ~refused[c] /\ ramfile[c] = NULL => Blocked(c)
            /\ ~refused[c] => region[c] # NoRegion
        BY <3>1, <3>2 DEF Inv, AloneState
      <4> QED
        BY <3>1, <3>2, <4>1, <4>2, <4>3 DEF Inv, Shape
    <3>3. CASE d # c
      BY <2>2, <3>1, <3>3 DEF Inv, Shape
    <3> QED
      BY <3>2, <3>3
  <2>6. CASE UnlinkAgain(d)
    <3>1. pc[d] = "map" /\ pc' = [pc EXCEPT ![d] = "mapped"] /\ ~(view[d] < arg[d].repeat)
      BY <2>6 DEF UnlinkAgain, Go, MoreViews
    <3>2. CASE d = c
      <4>1. ramfile[c] # NULL
        <5>1. view[c] \in 0 .. arg[c].repeat /\ arg[c].repeat \in Nat \ {0}
          BY <3>1, <3>2, VmemRepeatAssumption, InLoop
        <5>2. view[c] > 0
          BY <3>1, <3>2, <5>1
        <5> QED
          BY <3>1, <3>2, <5>2 DEF Inv, OwnState
      <4>2. ~Blocked(c)
        BY <3>1, <3>2, <4>1 DEF Inv, AloneState
      <4> QED
        BY <3>1, <3>2, <4>2 DEF Inv, Shape
    <3>3. CASE d # c
      BY <2>2, <3>1, <3>3 DEF Inv, Shape
    <3> QED
      BY <3>2, <3>3
  <2> QED
    BY <2>1, <2>3, <2>4, <2>5, <2>6
<1> QED
  BY <1>1, Invariance, PTL DEF Spec, AloneSucceeds

(* Only a call that failed or crashed leaves the name behind, even when    *)
(* calls unlink each other's names.                                        *)
THEOREM NoNameLeft ==
  ASSUME Fits
  PROVE  Spec => []NoLitter
<1>1. Inv => NoLitter
  BY DEF Inv
<1> QED
  BY <1>1, Invariance, PTL

(* vmem_destroy_repeat_mapping unmaps the whole range if and only if the   *)
(* product of width and count fits in a u32, for every width and count.    *)
THEOREM DestroyIsExact ==
  ASSUME Fits
  PROVE  Spec => DestroyUnmaps
<1>1. Inv /\ [Next]_vars =>
        [\A c \in Callers :
           pc[c] = "mapped" /\ pc'[c] = "idle" /\ fds'[c] # {} =>
             (region'[c] = NoRegion <=> arg[c].width * arg[c].repeat < Word)]_vars
  <2> SUFFICES ASSUME Inv, Next, NEW c \in Callers,
                      pc[c] = "mapped", pc'[c] = "idle", fds'[c] # {}
               PROVE  region'[c] = NoRegion <=> arg[c].width * arg[c].repeat < Word
    OBVIOUS
  <2>1. PICK d \in Callers :
          \/ Call(d) \/ Unlink(d) \/ Open(d) \/ Truncate(d) \/ Reserve(d) \/ MapView(d)
          \/ MapFails(d) \/ UnlinkAgain(d) \/ Destroy(d) \/ Crash(d)
    BY DEF Next
  <2>2. CASE Destroy(d)
    <3>1. d = c
      BY <2>2 DEF Destroy, Go, Inv, Shape
    <3> QED
      BY <2>2, <3>1, VmemRepeatAssumption, DestroyInv
  <2>3. CASE Crash(d)
    <3>1. d = c
      BY <2>3 DEF Crash, Inv, Shape
    <3> QED
      BY <2>3, <3>1 DEF Crash, Inv, Shape
  <2>4. CASE MapView(d)
    BY <2>4 DEF MapView
  <2>5. CASE Call(d) \/ Unlink(d) \/ Open(d) \/ Truncate(d) \/ Reserve(d) \/ MapFails(d) \/ UnlinkAgain(d)
    <3>1. \E s \in {"unlink", "open", "truncate", "reserve", "map", "null", "mapped"} :
            pc' = [pc EXCEPT ![d] = s]
      BY <2>5 DEF Call, Unlink, Open, Truncate, Reserve, MapFails, UnlinkAgain, Go
    <3> QED
      BY <3>1 DEF Inv, Shape
  <2> QED
    BY <2>1, <2>2, <2>3, <2>4, <2>5
<1> QED
  BY <1>1, Invariance, PTL DEF Spec, DestroyUnmaps

=============================================================================
