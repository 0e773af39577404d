------------------------- MODULE VmemWindowsProofs --------------------------
(***************************************************************************)
(* The safety of VmemWindows for any number of threads, addresses, views   *)
(* and attempts.  The inductive invariant says where a thread can have     *)
(* views at each point of its loops, which is what makes the clean-up      *)
(* complete, and that only its owner releases a reservation.               *)
(***************************************************************************)
EXTENDS VmemWindows, TLAPS

(* What a thread is about to release is still what it reserved.            *)
ReleasesOwn ==
  \A t \in Ringers : pc[t] = "release" =>
    \A a \in Range(base[t], Repeat) : space[a] = <<"reserved", t>>

(* Where a thread that is in its loop can have views: below the loop       *)
(* variable while it maps, from it on while it unmaps.                     *)
ViewsOf(t) ==
  CASE pc[t] = "map" -> Range(base[t], idx[t])
    [] pc[t] = "mapped" -> Range(base[t], Repeat)
    [] pc[t] \in {"clean", "destroy"} -> base[t] + idx[t] .. base[t] + Repeat - 1
    [] OTHER -> {}

ViewsInPlace ==
  \A t \in Ringers : /\ \A a \in Addresses : space[a] = <<"view", t>> => a \in ViewsOf(t)
                     /\ pc[t] = "mapped" => idx[t] = 0

Inv == TypeOK /\ RegionKept /\ ReleasesOwn /\ ViewsInPlace

(* A thread that is alone with its rings also has those views.             *)
ViewsThere ==
  \A t \in Ringers : pc[t] \in {"map", "mapped"} =>
    \A a \in ViewsOf(t) : space[a] = <<"view", t>>

(* What can be at an address.                                              *)
Contents == {None} \cup ({"reserved", "committed"} \X (Ringers \cup Users))
                   \cup ({"view"} \X Ringers)

-----------------------------------------------------------------------------
(* Two marks are the same only if they are of one kind and one thread, and *)
(* no mark is None.                                                        *)
LEMMA Marks ==
  ASSUME NEW k \in {"reserved", "committed", "view"}, NEW s \in Ringers \cup Users,
         NEW l \in {"reserved", "committed", "view"}, NEW t \in Ringers \cup Users
  PROVE  /\ <<k, s>> # None
         /\ <<k, s>> = <<l, t>> <=> k = l /\ s = t
BY VmemWindowsAssumption

(* A write keeps the type of space and changes what it is meant to change. *)
LEMMA Write ==
  ASSUME TypeOK, NEW S, NEW x \in Contents, space' = Fill(S, x)
  PROVE  /\ space' \in [Addresses -> Contents]
         /\ \A a \in Addresses : space'[a] = IF a \in S THEN x ELSE space[a]
BY DEF TypeOK, Fill, Contents

(* A range that the kernel offers is inside the space and free.            *)
LEMMA FreeRange ==
  ASSUME TypeOK, NEW n \in Nat, NEW start \in FreeStarts(n)
  PROVE  /\ start \in Nat /\ start + n <= Space
         /\ Range(start, n) \subseteq Addresses
         /\ \A a \in Range(start, n) : space[a] = None
BY VmemWindowsAssumption DEF FreeStarts, Addresses, Range

(* Where a thread can have views depends on its own variables only.        *)
LEMMA SameViews ==
  ASSUME NEW t, pc'[t] = pc[t], base'[t] = base[t], idx'[t] = idx[t]
  PROVE  ViewsOf(t)' = ViewsOf(t)
BY DEF ViewsOf, Range

(* The steps of a thread that touch no address.                            *)
Quiet(t) ==
  \/ Call(t) \/ Attempt(t) \/ GiveUp(t) \/ FindFails(t) \/ MapFails(t)
  \/ Return(t) \/ Cleaned(t) \/ Destroy(t) \/ Destroyed(t)

(* The steps that touch no address keep the invariant: a thread enters its *)
(* loops with the views that the invariant gives it there.                 *)
LEMMA QuietInv ==
  ASSUME Inv, NEW t \in Ringers, Quiet(t)
  PROVE  Inv'
<1>1. /\ space' = space /\ held' = held /\ base' = base
      /\ \A s \in Ringers \ {t} : pc'[s] = pc[s] /\ idx'[s] = idx[s]
      /\ pc'[t] # "release"
  BY DEF Inv, TypeOK, Quiet, Go, Call, Attempt, GiveUp, FindFails, MapFails, Return,
         Cleaned, Destroy, Destroyed
<1>2. TypeOK'
  <2> USE VmemWindowsAssumption DEF Inv, TypeOK, Go, InCall, Placed
  <2>1. CASE Call(t)
    BY <2>1 DEF Call
  <2>2. CASE Attempt(t)
    BY <2>2 DEF Attempt
  <2>3. CASE GiveUp(t)
    BY <2>3 DEF GiveUp
  <2>4. CASE FindFails(t)
    BY <2>4 DEF FindFails
  <2>5. CASE MapFails(t)
    BY <2>5 DEF MapFails
  <2>6. CASE Return(t)
    BY <2>6 DEF Return
  <2>7. CASE Cleaned(t)
    BY <2>7 DEF Cleaned
  <2>8. CASE Destroy(t)
    BY <2>8 DEF Destroy
  <2>9. CASE Destroyed(t)
    BY <2>9 DEF Destroyed
  <2> QED
    BY <2>1, <2>2, <2>3, <2>4, <2>5, <2>6, <2>7, <2>8, <2>9 DEF Quiet
<1>3. RegionKept'
  BY <1>1 DEF Inv, RegionKept
<1>4. ReleasesOwn'
  BY <1>1 DEF Inv, ReleasesOwn
<1>5. ViewsOf(t) \subseteq ViewsOf(t)' /\ (pc'[t] = "mapped" => idx'[t] = 0)
  BY VmemWindowsAssumption
  DEF Inv, TypeOK, ViewsOf, Range, Quiet, Go, MoreViews, MoreSlots, ViewsInPlace, Call, Attempt,
      GiveUp, FindFails, MapFails, Return, Cleaned, Destroy, Destroyed
<1>6. ViewsInPlace'
  BY <1>1, <1>5, SameViews DEF Inv, ViewsInPlace
<1> QED
  BY <1>2, <1>3, <1>4, <1>6 DEF Inv

(* VirtualAlloc of a free range takes nothing from anybody.                *)
LEMMA FindInv ==
  ASSUME Inv, NEW t \in Ringers, Find(t)
  PROVE  Inv'
<1>1. PICK start \in FreeStarts(Repeat) :
        /\ base' = [base EXCEPT ![t] = start]
        /\ space' = Fill(Range(start, Repeat), <<"reserved", t>>)
  BY DEF Find
<1>2. /\ start \in Nat /\ start + Repeat <= Space
      /\ Range(start, Repeat) \subseteq Addresses
      /\ \A a \in Range(start, Repeat) : space[a] = None
  BY <1>1, FreeRange, VmemWindowsAssumption DEF Inv
<1>3. /\ space' \in [Addresses -> Contents]
      /\ \A a \in Addresses : space'[a] =
           IF a \in Range(start, Repeat) THEN <<"reserved", t>> ELSE space[a]
  BY <1>1, Write DEF Inv, Contents
<1>4. /\ pc[t] = "find" /\ pc'[t] = "release" /\ base'[t] = start /\ held' = held
      /\ \A s \in Ringers \ {t} : pc'[s] = pc[s] /\ idx'[s] = idx[s] /\ base'[s] = base[s]
  BY <1>1 DEF Find, Go, Inv, TypeOK
<1>5. TypeOK'
  BY <1>1, <1>2, <1>3 DEF Find, Go, Inv, TypeOK, InCall, Placed, Contents, Addresses
<1>6. RegionKept'
  BY <1>2, <1>3, <1>4, Marks DEF Inv, TypeOK, RegionKept
<1>7. ReleasesOwn'
  <2> SUFFICES ASSUME NEW s \in Ringers, pc'[s] = "release", NEW a \in Range(base'[s], Repeat)
               PROVE  space'[a] = <<"reserved", s>>
    BY DEF ReleasesOwn, Range
  <2>1. CASE s = t
    BY <2>1, <1>2, <1>3, <1>4
  <2>2. CASE s # t
    <3>1. pc[s] = "release" /\ base[s] + Repeat <= Space /\ a \in Range(base[s], Repeat)
      BY <2>2, <1>4 DEF Inv, TypeOK, Placed
    <3>2. a \in Addresses /\ space[a] = <<"reserved", s>>
      BY <3>1, VmemWindowsAssumption DEF Inv, TypeOK, ReleasesOwn, Range, Addresses
    <3> QED
      BY <3>2, <1>2, <1>3, Marks
  <2> QED
    BY <2>1, <2>2
<1>8. ViewsInPlace'
  <2> SUFFICES ASSUME NEW s \in Ringers
               PROVE  /\ \A a \in Addresses : space'[a] = <<"view", s>> => a \in ViewsOf(s)'
                      /\ pc'[s] = "mapped" => idx'[s] = 0
    BY DEF ViewsInPlace
  <2>1. \A a \in Addresses : space'[a] = <<"view", s>> => a \in ViewsOf(s)
    BY <1>3, Marks DEF Inv, ViewsInPlace
  <2>2. CASE s = t
    BY <2>1, <2>2, <1>4 DEF ViewsOf
  <2>3. CASE s # t
    BY <2>1, <2>3, <1>4, SameViews DEF Inv, ViewsInPlace
  <2> QED
    BY <2>2, <2>3
<1> QED
  BY <1>5, <1>6, <1>7, <1>8 DEF Inv

(* Releasing the range gives up what this thread reserved and no more.     *)
LEMMA ReleaseInv ==
  ASSUME Inv, NEW t \in Ringers, Release(t)
  PROVE  Inv'
<1>1. /\ pc[t] = "release" /\ pc'[t] = "map" /\ idx'[t] = 0 /\ base' = base /\ held' = held
      /\ \A s \in Ringers \ {t} : pc'[s] = pc[s] /\ idx'[s] = idx[s]
  BY DEF Release, Go, Inv, TypeOK
<1>2. /\ space' \in [Addresses -> Contents]
      /\ \A a \in Addresses : space'[a] =
           IF a \in Range(base[t], Repeat) THEN None ELSE space[a]
  BY Write DEF Release, Inv, Contents
<1>3. \A a \in Range(base[t], Repeat) : a \in Addresses /\ space[a] = <<"reserved", t>>
  BY <1>1, VmemWindowsAssumption DEF Inv, TypeOK, ReleasesOwn, Range, Addresses, Placed
<1>4. TypeOK'
  BY <1>1, <1>2, VmemWindowsAssumption
  DEF Release, Go, Inv, TypeOK, InCall, Placed, Contents
<1>5. RegionKept'
  BY <1>1, <1>2, <1>3, Marks, VmemWindowsAssumption DEF Inv, TypeOK, RegionKept
<1>6. ReleasesOwn'
  <2> SUFFICES ASSUME NEW s \in Ringers, pc'[s] = "release", NEW a \in Range(base[s], Repeat)
               PROVE  space'[a] = <<"reserved", s>>
    BY <1>1 DEF ReleasesOwn, Range
  <2>1. s # t /\ pc[s] = "release"
    BY <1>1
  <2>2. a \in Addresses /\ space[a] = <<"reserved", s>>
    BY <2>1, VmemWindowsAssumption DEF Inv, TypeOK, ReleasesOwn, Range, Addresses, Placed
  <2> QED
    BY <2>1, <2>2, <1>2, <1>3, Marks
<1>7. ViewsInPlace'
  <2> SUFFICES ASSUME NEW s \in Ringers
               PROVE  /\ \A a \in Addresses : space'[a] = <<"view", s>> => a \in ViewsOf(s)'
                      /\ pc'[s] = "mapped" => idx'[s] = 0
    BY DEF ViewsInPlace
  <2>1. \A a \in Addresses : space'[a] = <<"view", s>> => a \in ViewsOf(s)
    BY <1>2, Marks DEF Inv, ViewsInPlace
  <2>2. CASE s = t
    BY <2>1, <2>2, <1>1 DEF ViewsOf
  <2>3. CASE s # t
    BY <2>1, <2>3, <1>1, SameViews DEF Inv, ViewsInPlace
  <2> QED
    BY <2>2, <2>3
<1> QED
  BY <1>4, <1>5, <1>6, <1>7 DEF Inv

(* A mapped view is the next in the thread's range; the address was free.  *)
LEMMA MapViewInv ==
  ASSUME Inv, NEW t \in Ringers, MapView(t)
  PROVE  Inv'
<1>1. /\ pc[t] = "map" /\ idx[t] < Repeat /\ idx' = [idx EXCEPT ![t] = @ + 1]
      /\ pc' = pc /\ base' = base /\ held' = held
      /\ base[t] \in Nat /\ idx[t] \in Nat /\ base[t] + Repeat <= Space
  BY VmemWindowsAssumption DEF MapView, MoreViews, Inv, TypeOK, Placed
<1>2. Target(t) \in Addresses /\ space[Target(t)] = None
  BY <1>1, VmemWindowsAssumption DEF MapView, Target, Addresses
<1>3. /\ space' \in [Addresses -> Contents]
      /\ \A a \in Addresses : space'[a] = IF a = Target(t) THEN <<"view", t>> ELSE space[a]
  BY Write DEF MapView, Inv, Contents
<1>4. TypeOK'
  <2>1. idx' \in [Ringers -> 0 .. Repeat]
    BY <1>1, VmemWindowsAssumption DEF Inv, TypeOK
  <2> QED
    BY <1>1, <1>3, <2>1 DEF MapView, Inv, TypeOK, Contents
<1>5. RegionKept'
  BY <1>1, <1>2, <1>3, Marks DEF Inv, TypeOK, RegionKept
<1>6. ReleasesOwn'
  <2> SUFFICES ASSUME NEW s \in Ringers, pc[s] = "release", NEW a \in Range(base[s], Repeat)
               PROVE  space'[a] = <<"reserved", s>>
    BY <1>1 DEF ReleasesOwn, Range
  <2>1. a \in Addresses /\ space[a] = <<"reserved", s>>
    BY VmemWindowsAssumption DEF Inv, TypeOK, ReleasesOwn, Range, Addresses, Placed
  <2> QED
    BY <2>1, <1>2, <1>3, Marks
<1>7. ViewsInPlace'
  <2> SUFFICES ASSUME NEW s \in Ringers
               PROVE  /\ \A a \in Addresses : space'[a] = <<"view", s>> => a \in ViewsOf(s)'
                      /\ pc'[s] = "mapped" => idx'[s] = 0
    BY DEF ViewsInPlace
  <2>1. CASE s = t
    <3>1. ViewsOf(t) = Range(base[t], idx[t]) /\ ViewsOf(t)' = Range(base[t], idx[t] + 1)
      BY <1>1 DEF ViewsOf, Range, Inv, TypeOK
    <3>2. \A a \in Addresses : space'[a] = <<"view", t>> => a \in ViewsOf(t) \/ a = Target(t)
      BY <1>3 DEF Inv, ViewsInPlace
    <3> QED
      BY <2>1, <3>1, <3>2, <1>1 DEF Range, Target
  <2>2. CASE s # t
    <3>1. ViewsOf(s)' = ViewsOf(s) /\ idx'[s] = idx[s]
      BY <2>2, <1>1, SameViews DEF Inv, TypeOK
    <3> QED
      BY <2>2, <3>1, <1>1, <1>3, Marks DEF Inv, ViewsInPlace
  <2> QED
    BY <2>1, <2>2
<1> QED
  BY <1>4, <1>5, <1>6, <1>7 DEF Inv

(* Unmapping a slot removes a view or nothing, and never a reservation; the *)
(* thread has no view left in the slots that are behind it.                *)
LEMMA UnmapInv ==
  ASSUME Inv, NEW t \in Ringers, Unmap(t)
  PROVE  Inv'
<1>1. /\ pc[t] \in {"clean", "destroy"} /\ idx[t] < Repeat /\ idx' = [idx EXCEPT ![t] = @ + 1]
      /\ pc' = pc /\ base' = base /\ held' = held
      /\ base[t] \in Nat /\ idx[t] \in Nat /\ base[t] + Repeat <= Space
  BY VmemWindowsAssumption DEF Unmap, MoreSlots, Inv, TypeOK, Placed
<1>2. Target(t) \in Addresses
  BY <1>1, VmemWindowsAssumption DEF Target, Addresses
<1>3. /\ space' \in [Addresses -> Contents]
      /\ \A a \in Addresses \ {Target(t)} : space'[a] = space[a]
      /\ IF space[Target(t)] # None /\ space[Target(t)][1] = "view"
           THEN space'[Target(t)] = None
           ELSE space'[Target(t)] = space[Target(t)]
  <2>1. CASE IsView[Target(t)]
    <3>1. space' = Fill({Target(t)}, None)
      BY <2>1 DEF Unmap
    <3> QED
      BY <2>1, <3>1, <1>2, Write, ZenonT(30) DEF IsView, Inv, Contents
  <2>2. CASE ~IsView[Target(t)]
    <3>1. space' = space
      BY <2>2 DEF Unmap
    <3> QED
      BY <2>2, <3>1, <1>2 DEF IsView, Inv, TypeOK, Contents
  <2> QED
    BY <2>1, <2>2
<1>4. \A a \in Addresses, s \in Ringers \cup Users, k \in {"reserved", "committed"} :
         space[a] = <<k, s>> => space'[a] = space[a]
  BY <1>3
<1>5. TypeOK'
  <2>1. idx' \in [Ringers -> 0 .. Repeat]
    BY <1>1, VmemWindowsAssumption DEF Inv, TypeOK
  <2>2. space' \in [Addresses -> Contents]
    BY <1>3
  <2> QED
    BY <1>1, <2>1, <2>2, ZenonT(30) DEF Unmap, Inv, TypeOK, Contents
<1>6. RegionKept'
  BY <1>1, <1>4 DEF Inv, TypeOK, RegionKept
<1>7. ReleasesOwn'
  <2> SUFFICES ASSUME NEW s \in Ringers, pc[s] = "release", NEW a \in Range(base[s], Repeat)
               PROVE  space'[a] = <<"reserved", s>>
    BY <1>1 DEF ReleasesOwn, Range
  <2>1. a \in Addresses /\ space[a] = <<"reserved", s>>
    BY VmemWindowsAssumption DEF Inv, TypeOK, ReleasesOwn, Range, Addresses, Placed
  <2> QED
    BY <2>1, <1>4
<1>8. \A a \in Addresses, s \in Ringers :
         space'[a] = <<"view", s>> => space[a] = <<"view", s>> /\ a # Target(t)
  BY <1>3, Marks
<1>9. ViewsInPlace'
  <2> SUFFICES ASSUME NEW s \in Ringers
               PROVE  /\ \A a \in Addresses : space'[a] = <<"view", s>> => a \in ViewsOf(s)'
                      /\ pc'[s] = "mapped" => idx'[s] = 0
    BY DEF ViewsInPlace
  <2>1. CASE s = t
    <3>1. /\ ViewsOf(t) = base[t] + idx[t] .. base[t] + Repeat - 1
          /\ ViewsOf(t)' = base[t] + idx[t] + 1 .. base[t] + Repeat - 1
      BY <1>1 DEF ViewsOf, Inv, TypeOK
    <3>2. pc'[t] # "mapped"
      BY <1>1
    <3>3. ASSUME NEW a \in Addresses, space'[a] = <<"view", t>>
          PROVE  a \in ViewsOf(t)'
      <4>1. a \in ViewsOf(t) /\ a # base[t] + idx[t]
        BY <3>3, <1>8 DEF Target, Inv, ViewsInPlace
      <4> QED
        BY <4>1, <3>1, <1>1
    <3> QED
      BY <2>1, <3>2, <3>3
  <2>2. CASE s # t
    <3>1. ViewsOf(s)' = ViewsOf(s) /\ idx'[s] = idx[s]
      BY <2>2, <1>1, SameViews DEF Inv, TypeOK
    <3> QED
      BY <2>2, <3>1, <1>1, <1>8 DEF Inv, ViewsInPlace
  <2> QED
    BY <2>1, <2>2
<1> QED
  BY <1>5, <1>6, <1>7, <1>9 DEF Inv

(* A step of a user writes its own marks where nothing was or its own were *)
(* and leaves the ring threads where they are.                             *)
LEMMA UserKeeps ==
  ASSUME Inv, NEW u \in Users, UNCHANGED <<pc, base, idx, attempts, file>>,
         held' \in [Users -> SUBSET Addresses], space' \in [Addresses -> Contents],
         \A a \in Addresses :
           \/ space'[a] = space[a]
           \/ /\ space[a] \in {None, <<"reserved", u>>, <<"committed", u>>}
              /\ space'[a] \in {None, <<"reserved", u>>, <<"committed", u>>}
  PROVE  TypeOK' /\ ReleasesOwn' /\ ViewsInPlace'
<1>1. u \notin Ringers
  BY VmemWindowsAssumption
<1>2. TypeOK'
  BY DEF Inv, TypeOK, Contents
<1>3. ReleasesOwn'
  <2> SUFFICES ASSUME NEW s \in Ringers, pc[s] = "release", NEW a \in Range(base[s], Repeat)
               PROVE  space'[a] = <<"reserved", s>>
    BY DEF ReleasesOwn, Range
  <2>1. a \in Addresses /\ space[a] = <<"reserved", s>>
    BY VmemWindowsAssumption DEF Inv, TypeOK, ReleasesOwn, Range, Addresses, Placed
  <2> QED
    BY <2>1, <1>1, Marks
<1>4. ViewsInPlace'
  <2> SUFFICES ASSUME NEW s \in Ringers
               PROVE  /\ \A a \in Addresses : space'[a] = <<"view", s>> => a \in ViewsOf(s)'
                      /\ pc'[s] = "mapped" => idx'[s] = 0
    BY DEF ViewsInPlace
  <2>1. ViewsOf(s)' = ViewsOf(s)
    BY SameViews
  <2>2. \A a \in Addresses : space'[a] = <<"view", s>> => space[a] = <<"view", s>>
    BY <1>1, Marks
  <2> QED
    BY <2>1, <2>2 DEF Inv, ViewsInPlace
<1> QED
  BY <1>2, <1>3, <1>4

(* vmem_reserve of a free range takes nothing from anybody.                *)
LEMMA ReserveInv ==
  ASSUME Inv, NEW u \in Users, Reserve(u)
  PROVE  Inv'
<1>0. PICK size \in Sizes : \E start \in FreeStarts(size) :
        /\ space' = Fill(Range(start, size), <<"reserved", u>>)
        /\ held' = [held EXCEPT ![u] = Range(start, size)]
  BY DEF Reserve
<1>1. PICK start \in FreeStarts(size) :
        /\ space' = Fill(Range(start, size), <<"reserved", u>>)
        /\ held' = [held EXCEPT ![u] = Range(start, size)]
  BY <1>0
<1>2. /\ Range(start, size) \subseteq Addresses
      /\ \A a \in Range(start, size) : space[a] = None
  BY FreeRange, VmemWindowsAssumption DEF Inv
<1>3. /\ space' \in [Addresses -> Contents]
      /\ \A a \in Addresses : space'[a] =
           IF a \in Range(start, size) THEN <<"reserved", u>> ELSE space[a]
  BY <1>1, Write DEF Inv, Contents
<1>4. held' \in [Users -> SUBSET Addresses] /\ UNCHANGED <<pc, base, idx, attempts, file>>
  BY <1>1, <1>2 DEF Reserve, Inv, TypeOK
<1>5. TypeOK' /\ ReleasesOwn' /\ ViewsInPlace'
  BY <1>2, <1>3, <1>4, UserKeeps
<1>6. RegionKept'
  <2> SUFFICES ASSUME NEW v \in Users, NEW a \in held'[v]
               PROVE  space'[a] \in {<<"reserved", v>>, <<"committed", v>>}
    BY DEF RegionKept
  <2>1. CASE v = u
    BY <2>1, <1>1, <1>2, <1>3 DEF Inv, TypeOK
  <2>2. CASE v # u
    <3>1. a \in held[v] /\ a \in Addresses
      BY <2>2, <1>1 DEF Inv, TypeOK
    <3> QED
      BY <3>1, <1>2, <1>3, Marks DEF Inv, RegionKept
  <2> QED
    BY <2>1, <2>2
<1> QED
  BY <1>5, <1>6 DEF Inv

(* vmem_commit of an address changes the mark of the user that holds it.   *)
LEMMA CommitInv ==
  ASSUME Inv, NEW u \in Users, Commit(u)
  PROVE  Inv'
<1>1. PICK b \in held[u] : space' = Fill({b}, <<"committed", u>>)
  BY DEF Commit
<1>2. /\ space' \in [Addresses -> Contents]
      /\ \A a \in Addresses : space'[a] = IF a = b THEN <<"committed", u>> ELSE space[a]
  BY <1>1, Write DEF Inv, Contents
<1>3. space[b] \in {<<"reserved", u>>, <<"committed", u>>}
  BY DEF Inv, RegionKept
<1>4. UNCHANGED <<pc, base, idx, attempts, file, held>>
  BY DEF Commit
<1>5. TypeOK' /\ ReleasesOwn' /\ ViewsInPlace'
  BY <1>2, <1>3, <1>4, UserKeeps DEF Inv, TypeOK
<1>6. RegionKept'
  <2> SUFFICES ASSUME NEW v \in Users, NEW a \in held[v]
               PROVE  space'[a] \in {<<"reserved", v>>, <<"committed", v>>}
    BY <1>4 DEF RegionKept
  <2>1. a \in Addresses /\ space[a] \in {<<"reserved", v>>, <<"committed", v>>}
    BY DEF Inv, TypeOK, RegionKept
  <2>2. a = b => v = u
    BY <2>1, <1>3, Marks
  <2> QED
    BY <2>1, <2>2, <1>2
<1> QED
  BY <1>5, <1>6 DEF Inv

(* vmem_free gives up what the user holds; nobody else holds any of it.    *)
LEMMA FreeInv ==
  ASSUME Inv, NEW u \in Users, Free(u)
  PROVE  Inv'
<1>1. /\ space' \in [Addresses -> Contents]
      /\ \A a \in Addresses : space'[a] = IF a \in held[u] THEN None ELSE space[a]
  BY Write DEF Free, Inv, Contents
<1>2. /\ UNCHANGED <<pc, base, idx, attempts, file>>
      /\ held' = [held EXCEPT ![u] = {}] /\ held' \in [Users -> SUBSET Addresses]
  BY DEF Free, Inv, TypeOK
<1>3. \A a \in held[u] : space[a] \in {<<"reserved", u>>, <<"committed", u>>}
  BY DEF Inv, RegionKept
<1>4. TypeOK' /\ ReleasesOwn' /\ ViewsInPlace'
  BY <1>1, <1>2, <1>3, UserKeeps
<1>5. RegionKept'
  <2> SUFFICES ASSUME NEW v \in Users, NEW a \in held'[v]
               PROVE  space'[a] \in {<<"reserved", v>>, <<"committed", v>>}
    BY DEF RegionKept
  <2>1. v # u /\ a \in held[v] /\ a \in Addresses
    BY <1>2 DEF Inv, TypeOK
  <2>2. space[a] \in {<<"reserved", v>>, <<"committed", v>>}
    BY <2>1 DEF Inv, RegionKept
  <2>3. a \notin held[u]
    BY <2>1, <2>2, <1>3, Marks
  <2> QED
    BY <2>1, <2>2, <2>3, <1>1
<1> QED
  BY <1>4, <1>5 DEF Inv

-----------------------------------------------------------------------------
(* The invariant holds when nothing is mapped.                             *)
LEMMA InitInv == Init => Inv
BY VmemWindowsAssumption, Marks
DEF Init, Inv, TypeOK, RegionKept, ReleasesOwn, ViewsInPlace, Placed, InCall

(* Every step keeps the invariant.                                         *)
LEMMA NextInv == Inv /\ [Next]_vars => Inv'
<1> SUFFICES ASSUME Inv, [Next]_vars
             PROVE  Inv'
  OBVIOUS
<1>1. ASSUME NEW t \in Ringers, Run(t) \/ Call(t) \/ Destroy(t)
      PROVE  Inv'
  BY <1>1, QuietInv, FindInv, ReleaseInv, MapViewInv, UnmapInv DEF Run, Quiet
<1>2. ASSUME NEW u \in Users, Reserve(u) \/ Commit(u) \/ Free(u)
      PROVE  Inv'
  BY <1>2, ReserveInv, CommitInv, FreeInv
<1>3. CASE UNCHANGED vars
  BY <1>3 DEF vars, Inv, TypeOK, RegionKept, ReleasesOwn, ViewsInPlace, ViewsOf, Range
<1> QED
  BY <1>1, <1>2, <1>3 DEF Next

(* The inductive invariant holds in every state, whatever the number of    *)
(* threads, addresses, views and attempts.                                 *)
THEOREM Safe == Spec => []Inv
BY InitInv, NextInv, PTL DEF Spec

(* The address space, the program counters and the indices keep their types, *)
(* and a range that a ring has been given ends inside the address space:    *)
(* for any number of threads, of slots and of attempts.                     *)
THEOREM TypeCorrect == Spec => []TypeOK
<1>1. Inv => TypeOK
  BY DEF Inv
<1> QED
  BY <1>1, Safe, PTL

(* What a thread got from vmem_reserve stays its own until vmem_free, also *)
(* when it lies in a range that vmem_create_repeat_mapping released and whose *)
(* clean-up unmaps every slot.                                             *)
THEOREM RegionIsKept == Spec => []RegionKept
<1>1. Inv => RegionKept
  BY DEF Inv
<1> QED
  BY <1>1, Safe, PTL

(* A failed attempt of vmem_create_repeat_mapping leaves no view behind: the *)
(* clean-up gets to every slot that the attempt mapped.                    *)
THEOREM NoViewIsStray == Spec => []NoStrayViews
<1>1. Inv => NoStrayViews
  BY DEF Inv, ViewsInPlace, ViewsOf, NoStrayViews
<1> QED
  BY <1>1, Safe, PTL

-----------------------------------------------------------------------------
(* With one thread that uses repeat mappings, no step of it or of a user   *)
(* takes a view away that its loop has mapped.                             *)
LEMMA ThereNext ==
  ASSUME \A s, t \in Ringers : s = t, Inv, ViewsThere, [Next]_vars
  PROVE  ViewsThere'
<1>1. ASSUME NEW t \in Ringers, Quiet(t)
      PROVE  ViewsThere'
  <2>1. /\ space' = space
        /\ pc'[t] \in {"map", "mapped"} => pc[t] = "map" /\ ViewsOf(t)' = ViewsOf(t)
    BY <1>1, VmemWindowsAssumption
    DEF Inv, TypeOK, ViewsOf, Range, Quiet, Go, MoreViews, Call, Attempt, GiveUp, FindFails,
        MapFails, Return, Cleaned, Destroy, Destroyed
  <2> QED
    BY <2>1 DEF ViewsThere
<1>2. ASSUME NEW t \in Ringers, Find(t) \/ Release(t) \/ Unmap(t)
      PROVE  ViewsThere'
  <2>1. pc'[t] \in {"map", "mapped"} => ViewsOf(t)' = {}
    BY <1>2, VmemWindowsAssumption DEF Inv, TypeOK, Find, Release, Unmap, Go, ViewsOf, Range
  <2> QED
    BY <2>1 DEF ViewsThere
<1>3. ASSUME NEW t \in Ringers, MapView(t)
      PROVE  ViewsThere'
  <2>1. /\ pc[t] = "map" /\ pc' = pc /\ base[t] \in Nat /\ idx[t] \in Nat /\ idx[t] < Repeat
        /\ base[t] + Repeat <= Space /\ base'[t] = base[t] /\ idx'[t] = idx[t] + 1
    BY <1>3 DEF MapView, MoreViews, Inv, TypeOK, Placed
  <2>2. \A a \in Addresses : space'[a] = IF a = Target(t) THEN <<"view", t>> ELSE space[a]
    BY <1>3, Write DEF MapView, Inv, Contents
  <2>3. \A a \in ViewsOf(t)' : a \in Addresses /\ (a \in ViewsOf(t) \/ a = Target(t))
    BY <2>1, VmemWindowsAssumption DEF ViewsOf, Range, Target, Addresses
  <2> QED
    BY <2>1, <2>2, <2>3 DEF ViewsThere
<1>4. ASSUME NEW u \in Users, Reserve(u) \/ Commit(u) \/ Free(u)
      PROVE  ViewsThere'
  <2>1. \A a \in Addresses, t \in Ringers : space[a] = <<"view", t>> => space'[a] = space[a]
    <3>1. CASE Reserve(u)
      <4>1. PICK size \in Sizes : \E start \in FreeStarts(size) :
              space' = Fill(Range(start, size), <<"reserved", u>>)
        BY <3>1 DEF Reserve
      <4>2. PICK start \in FreeStarts(size) :
              space' = Fill(Range(start, size), <<"reserved", u>>)
        BY <4>1
      <4>3. \A a \in Range(start, size) : space[a] = None
        BY FreeRange, VmemWindowsAssumption DEF Inv
      <4> QED
        BY <4>2, <4>3, Write, Marks DEF Inv, Contents
    <3>2. CASE Commit(u) \/ Free(u)
      <4>1. \A a \in held[u] : space[a] \in {<<"reserved", u>>, <<"committed", u>>}
        BY DEF Inv, RegionKept
      <4>2. CASE Commit(u)
        <5>1. PICK b \in held[u] : space' = Fill({b}, <<"committed", u>>)
          BY <4>2 DEF Commit
        <5> QED
          BY <5>1, <4>1, Write, Marks DEF Inv, Contents
      <4>3. CASE Free(u)
        <5>1. space' = Fill(held[u], None)
          BY <4>3 DEF Free
        <5> QED
          BY <5>1, <4>1, Write, Marks DEF Inv, Contents
      <4> QED
        BY <3>2, <4>2, <4>3
    <3> QED
      BY <1>4, <3>1, <3>2
  <2>2. pc' = pc /\ \A t \in Ringers : ViewsOf(t)' = ViewsOf(t)
    BY <1>4, SameViews DEF Reserve, Commit, Free
  <2>3. \A t \in Ringers : pc[t] \in {"map", "mapped"} => ViewsOf(t) \subseteq Addresses
    BY VmemWindowsAssumption DEF Inv, TypeOK, Placed, ViewsOf, Range, Addresses
  <2> QED
    BY <2>1, <2>2, <2>3 DEF ViewsThere
<1>5. CASE UNCHANGED vars
  BY <1>5 DEF vars, ViewsThere, ViewsOf, Range
<1> QED
  BY <1>1, <1>2, <1>3, <1>4, <1>5 DEF Next, Run, Quiet

(* A mapping that vmem_create_repeat_mapping returned keeps all its views, if *)
(* only one thread uses repeat mappings; any number reserve, commit and free. *)
THEOREM LoneRingIsKept ==
  ASSUME \A s, t \in Ringers : s = t
  PROVE  Spec => []RingKept
<1>1. Init => ViewsThere
  BY DEF Init, ViewsThere
<1>2. Inv /\ ViewsThere /\ [Next]_vars => ViewsThere'
  BY ThereNext
<1>3. ViewsThere => RingKept
  BY DEF ViewsThere, ViewsOf, RingKept
<1> QED
  BY <1>1, <1>2, <1>3, Safe, PTL DEF Spec

=============================================================================
