----------------------------- MODULE ListProofs -----------------------------
(***************************************************************************)
(* Proofs about the list for every set of values, every number of lists,   *)
(* every size of an element, every set of initial sizes with room for an   *)
(* element and every number of elements whose buffer a u32 can size, and   *)
(* the proof that the list of such a client implements the multiset.       *)
(***************************************************************************)
EXTENDS List, SequenceTheorems, FiniteSetTheorems, WellFoundedInduction, TLAPS

(* A client that gives each list room for an element, passes no index of   *)
(* an unused slot, and keeps so few elements that no new size wraps.       *)
Careful ==
  /\ ~UnusedIdx
  /\ \A size \in InitSizes : size >= ElemSize
  /\ HalfAgain(ElemSize * (MaxLen + 1)) + ElemSize < U32

(***************************************************************************)
(* Arithmetic.                                                             *)
(***************************************************************************)

LEMMA Division ==
  ASSUME NEW n \in Nat, NEW e \in Nat \ {0}
  PROVE  /\ n \div e \in Nat /\ n % e \in 0 .. e - 1
         /\ n = (e * (n \div e)) + (n % e)
  OBVIOUS

LEMMA TimesMonotonic ==
  ASSUME NEW e \in Nat, NEW p \in Nat, NEW q \in Nat, p <= q
  PROVE  e * p <= e * q
<1>1. PICK d \in Nat : q = p + d
  <2>1. q - p \in Nat /\ q = p + (q - p)
    OBVIOUS
  <2> QED
    BY <2>1
<1>2. e * q = (e * p) + (e * d) /\ e * d \in Nat
  BY <1>1
<1> QED
  BY <1>2

LEMMA Least ==
  ASSUME NEW S, S \subseteq Nat, S # {}
  PROVE  \E i \in S : \A j \in S : i <= j
<1>1. PICK i \in S : \A j \in S : ~(<<j, i>> \in OpToRel(<, Nat))
  BY NatLessThanWellFounded, WFMin, Zenon
<1>2. \A j \in S : ~(j < i)
  BY <1>1, Zenon DEF OpToRel
<1> QED
  BY <1>2

(* The quotient is the only one with a remainder below e.                  *)
LEMMA Quotient ==
  ASSUME NEW e \in Nat \ {0}, NEW k \in Nat, NEW n \in Nat, n >= e * k
  PROVE  n \div e >= k
<1> DEFINE q == n \div e
<1>1. q \in Nat /\ n % e \in 0 .. e - 1 /\ n = (e * q) + (n % e)
  BY Division
<1>2. n < e * (q + 1)
  BY <1>1
<1>3. SUFFICES ASSUME q < k PROVE FALSE
  BY <1>1
<1>4. e * (q + 1) <= e * k
  BY <1>1, <1>3, TimesMonotonic
<1> QED
  BY <1>1, <1>2, <1>4

LEMMA QuotientMonotonic ==
  ASSUME NEW e \in Nat \ {0}, NEW m \in Nat, NEW n \in Nat, m <= n
  PROVE  m \div e <= n \div e
<1>1. m \div e \in Nat /\ n >= e * (m \div e)
  BY Division
<1> QED
  BY <1>1, Quotient, Division

(* ALIGN_UP moves to the next multiple of e, by e at most.                 *)
LEMMA AlignUp ==
  ASSUME NEW n \in Nat, NEW e \in Nat \ {0}
  PROVE  /\ ALIGN_UP(n, e) \in Nat
         /\ ALIGN_UP(n, e) > n
         /\ ALIGN_UP(n, e) <= n + e
         /\ ALIGN_UP(n, e) = e * ((n \div e) + 1)
<1>1. n \div e \in Nat /\ n % e \in 0 .. e - 1 /\ n = (e * (n \div e)) + (n % e)
  BY Division
<1> QED
  BY <1>1 DEF ALIGN_UP

(* The new size of a full buffer: nothing wraps, and it has room for an    *)
(* element more.                                                           *)
LEMMA Growth ==
  ASSUME ListAssumption, U32Assumption, Careful,
         NEW size \in Nat, size \div ElemSize <= MaxLen,
         NEW newsize \in GrownSizes(size, ElemSize)
  PROVE  /\ newsize \in u32
         /\ newsize > size
         /\ newsize \div ElemSize >= (size \div ElemSize) + 1
<1> DEFINE top == ElemSize * (MaxLen + 1)
           d == HalfAgain(size)
<1>0. ElemSize \in Nat \ {0} /\ MaxLen \in Nat /\ U32 \in Nat \ {0}
  BY DEF ListAssumption, U32Assumption, u32
<1>1. top \in Nat
  BY <1>0
<1>2. size <= top
  <2>1. size \div ElemSize \in Nat /\ size < ElemSize * ((size \div ElemSize) + 1)
    BY <1>0, AlignUp, Division
  <2>2. ElemSize * ((size \div ElemSize) + 1) <= top
    BY <1>0, <2>1, TimesMonotonic
  <2> QED
    BY <1>0, <1>1, <2>1, <2>2
<1>3. d \in Nat /\ size <= d /\ d + ElemSize < U32
  <2>1. HalfAgain(top) + ElemSize < U32
    BY DEF Careful
  <2> HIDE DEF top
  <2> QED
    BY <1>0, <1>1, <1>2, <2>1 DEF HalfAgain
<1> HIDE DEF d
<1>4. /\ ALIGN_UP(d, ElemSize) \in Nat
      /\ ALIGN_UP(d, ElemSize) > d
      /\ ALIGN_UP(d, ElemSize) <= d + ElemSize
      /\ ALIGN_UP(d, ElemSize) = ElemSize * ((d \div ElemSize) + 1)
  BY <1>0, <1>3, AlignUp
<1>5. newsize = ALIGN_UP(d, ElemSize) % U32
  BY <1>0, <1>3 DEF GrownSizes, DoubleToU32, d
<1>6. newsize = ALIGN_UP(d, ElemSize)
  BY <1>0, <1>3, <1>4, <1>5
<1>7. d \div ElemSize \in Nat /\ size \div ElemSize \in Nat
  BY <1>0, <1>3, Division
<1>8. newsize \div ElemSize >= (d \div ElemSize) + 1
  BY <1>0, <1>4, <1>6, <1>7, Quotient
<1>9. d \div ElemSize >= size \div ElemSize
  BY <1>0, <1>3, QuotientMonotonic
<1>10. newsize \div ElemSize \in Nat
  BY <1>0, <1>4, <1>6, Division
<1> QED
  BY <1>0, <1>3, <1>4, <1>6, <1>7, <1>8, <1>9, <1>10 DEF u32

(***************************************************************************)
(* One list.  Good(l) is what every call keeps: the types and the tail of  *)
(* zeros, and that a list with a buffer has room for one element more.     *)
(***************************************************************************)

Header(l) ==
  l \in [data : {l.data}, live : BOOLEAN, alloc_size : u32, end_idx : u32,
         element_size : {0, ElemSize}]

(* A buffer of whole slots that hold the elements and zeros after them.    *)
Filled(l) ==
  /\ l.data \in [Slots(l.alloc_size, ElemSize) -> Val]
  /\ \A i \in Slots(l.alloc_size, ElemSize) : i >= l.end_idx => l.data[i] = Zero
  /\ l.end_idx \in Slots(l.alloc_size, ElemSize)
  /\ l.end_idx <= MaxLen

Good(l) ==
  /\ Header(l)
  /\ l.live => Filled(l) /\ l.element_size = ElemSize
  /\ ~l.live => l.data = NoBuffer /\ l.end_idx = 0

LEMMA ConstantTypes ==
  ASSUME ListAssumption, U32Assumption
  PROVE  /\ ElemSize \in Nat \ {0} /\ MaxLen \in Nat /\ U32 \in Nat \ {0}
         /\ Zero \in Val /\ InitSizes \subseteq u32 /\ u32 \subseteq Nat
BY DEF ListAssumption, U32Assumption, u32

LEMMA SlotsAre ==
  ASSUME ListAssumption, U32Assumption, NEW size \in u32
  PROVE  /\ size \div ElemSize \in Nat
         /\ size \div ElemSize < U32
         /\ Slots(size, ElemSize) = 0 .. (size \div ElemSize) - 1
<1>1. size \in Nat /\ size < U32 /\ ElemSize \in Nat \ {0} /\ U32 \in Nat
  BY DEF ListAssumption, U32Assumption, u32
<1>2. size \div ElemSize \in Nat /\ size = (ElemSize * (size \div ElemSize)) + (size % ElemSize)
      /\ size % ElemSize \in Nat
  BY <1>1, Division
<1>3. ElemSize * (size \div ElemSize) >= size \div ElemSize
  <2>1. PICK e \in Nat : ElemSize = e + 1
    <3>1. ElemSize - 1 \in Nat /\ ElemSize = (ElemSize - 1) + 1
      BY <1>1
    <3> QED
      BY <3>1
  <2>2. ElemSize * (size \div ElemSize) = (e * (size \div ElemSize)) + (size \div ElemSize)
        /\ e * (size \div ElemSize) \in Nat
    BY <2>1, <1>2
  <2> QED
    BY <1>2, <2>2
<1>4. size \div ElemSize < U32
  <2> DEFINE q == size \div ElemSize
             p == ElemSize * q
  <2>1. p \in Nat /\ q \in Nat /\ p >= q /\ size = p + (size % ElemSize) /\ size % ElemSize \in Nat
    BY <1>1, <1>2, <1>3
  <2> HIDE DEF p, q
  <2>2. q < U32
    BY <1>1, <2>1
  <2> QED
    BY <2>2 DEF q
<1> QED
  BY <1>1, <1>2, <1>4 DEF Slots

(* The elements of a list that is Good are values.                         *)
LEMMA ItemsAre ==
  ASSUME ListAssumption, U32Assumption, NEW l, Good(l)
  PROVE  /\ l.end_idx \in Nat
         /\ \A i \in 0 .. l.end_idx - 1 : i \in SlotsOf(l) /\ l.data[i] \in Val
         /\ Items(l) \in Seq(Val)
         /\ Len(Items(l)) = l.end_idx
         /\ \A i \in 1 .. l.end_idx : Items(l)[i] = l.data[i - 1]
<1>1. l.end_idx \in Nat /\ l.alloc_size \in u32 /\ l.live \in BOOLEAN
  BY ConstantTypes DEF Good, Header
<1>2. \A i \in 0 .. l.end_idx - 1 : i \in SlotsOf(l) /\ l.data[i] \in Val
  <2>1. CASE l.live
    <3>1. /\ Slots(l.alloc_size, ElemSize) = 0 .. (l.alloc_size \div ElemSize) - 1
          /\ l.alloc_size \div ElemSize \in Nat
      BY <1>1, SlotsAre
    <3>2. Filled(l)
      BY <2>1 DEF Good
    <3>3. SlotsOf(l) = Slots(l.alloc_size, ElemSize)
      BY <3>2 DEF Filled, SlotsOf
    <3>4. \A i \in 0 .. l.end_idx - 1 : i \in SlotsOf(l)
      BY <1>1, <3>1, <3>2, <3>3 DEF Filled
    <3> QED
      BY <3>2, <3>3, <3>4 DEF Filled
  <2>2. CASE ~l.live
    BY <2>2 DEF Good
  <2> QED
    BY <1>1, <2>1, <2>2
<1>3. Items(l) \in [1 .. l.end_idx -> Val]
  BY <1>1, <1>2 DEF Items
<1>4. Items(l) \in Seq(Val) /\ Len(Items(l)) = l.end_idx
  <2>1. Items(l) \in Seq(Val)
    BY <1>1, <1>3
  <2>2. DOMAIN Items(l) = 1 .. Len(Items(l)) /\ Len(Items(l)) \in Nat
    BY <2>1, LenProperties
  <2> QED
    BY <1>1, <1>3, <2>1, <2>2
<1> QED
  BY <1>1, <1>2, <1>4 DEF Items

(* A new element goes after those there are, when there is still a slot to *)
(* spare after it.                                                         *)
LEMMA PutKeeps ==
  ASSUME ListAssumption, U32Assumption,
         NEW l, Good(l), l.live, l.end_idx < MaxLen,
         l.end_idx + 1 \in SlotsOf(l),
         NEW val \in Val
  PROVE  /\ Put(l, val).status = "ok" /\ Put(l, val).ok = TRUE
         /\ Good(Put(l, val).list) /\ Put(l, val).list.live
         /\ Put(l, val).list.end_idx = l.end_idx + 1
         /\ Put(l, val).list.data = [l.data EXCEPT ![l.end_idx] = val]
<1> DEFINE r == Put(l, val)
           m == [l EXCEPT !.data[l.end_idx] = val, !.end_idx = @ + 1]
<1>1. /\ l.live = TRUE /\ l.alloc_size \in u32 /\ l.end_idx \in u32 /\ Header(l)
      /\ l.element_size = ElemSize /\ Filled(l)
  BY DEF Good, Header
<1>2. /\ l.alloc_size \div ElemSize \in Nat /\ l.alloc_size \div ElemSize < U32
      /\ Slots(l.alloc_size, ElemSize) = 0 .. (l.alloc_size \div ElemSize) - 1
  BY <1>1, SlotsAre
<1>3. /\ m.data = [l.data EXCEPT ![l.end_idx] = val] /\ m.end_idx = l.end_idx + 1
      /\ m.live = l.live /\ m.alloc_size = l.alloc_size /\ m.element_size = l.element_size
  BY <1>1 DEF Header
<1>4. SlotsOf(l) = Slots(l.alloc_size, ElemSize) /\ l.end_idx \in SlotsOf(l)
  BY <1>1 DEF SlotsOf, Filled
<1>5. l.end_idx + 1 \in u32
  BY <1>1, <1>2, <1>4, ConstantTypes DEF u32
<1>6. r.list = m /\ r.status = "ok" /\ r.ok = TRUE
  BY <1>4 DEF Put, Result
<1>7. Header(m)
  BY <1>1, <1>5 DEF Header
<1> HIDE DEF m, r
<1>8. Filled(m)
  <2>1. m.data \in [Slots(l.alloc_size, ElemSize) -> Val]
    BY <1>1, <1>3 DEF Filled
  <2>2. ASSUME NEW i \in Slots(l.alloc_size, ElemSize), i >= l.end_idx + 1
        PROVE  m.data[i] = Zero
    <3>1. i # l.end_idx /\ i >= l.end_idx
      BY <1>1, <1>2, <2>2, ConstantTypes
    <3> QED
      BY <1>1, <1>3, <3>1 DEF Filled
  <2>3. l.end_idx + 1 <= MaxLen
    BY <1>1, ConstantTypes
  <2> QED
    BY <1>3, <1>4, <2>1, <2>2, <2>3 DEF Filled
<1>9. Good(m)
  BY <1>1, <1>3, <1>7, <1>8 DEF Good
<1> QED
  BY <1>1, <1>3, <1>6, <1>9 DEF r

(* A larger buffer holds what the old one held, and zeros after it.        *)
LEMMA GrownKeeps ==
  ASSUME ListAssumption, U32Assumption,
         NEW l, Good(l), l.live,
         NEW newsize \in u32,
         newsize \div ElemSize >= (l.alloc_size \div ElemSize) + 1
  PROVE  /\ Good(Grown(l, newsize)) /\ Grown(l, newsize).live
         /\ Grown(l, newsize).end_idx = l.end_idx
         /\ l.end_idx + 1 \in SlotsOf(Grown(l, newsize))
         /\ \A i \in SlotsOf(l) : Grown(l, newsize).data[i] = l.data[i]
<1> DEFINE g == Grown(l, newsize)
           d == [i \in Slots(newsize, l.element_size) |->
                  IF i \in SlotsOf(l) THEN l.data[i] ELSE Zero]
<1>1. /\ l.live = TRUE /\ l.alloc_size \in u32 /\ l.end_idx \in u32 /\ Header(l)
      /\ l.element_size = ElemSize /\ Filled(l)
  BY DEF Good, Header
<1>2. /\ l.alloc_size \div ElemSize \in Nat
      /\ Slots(l.alloc_size, ElemSize) = 0 .. (l.alloc_size \div ElemSize) - 1
      /\ newsize \div ElemSize \in Nat
      /\ Slots(newsize, ElemSize) = 0 .. (newsize \div ElemSize) - 1
  BY <1>1, SlotsAre
<1>3. /\ g.data = d /\ g.end_idx = l.end_idx /\ g.live = TRUE
      /\ g.alloc_size = newsize /\ g.element_size = l.element_size
  BY <1>1 DEF Header, Grown
<1>4. SlotsOf(l) = Slots(l.alloc_size, ElemSize) /\ l.end_idx \in SlotsOf(l)
  BY <1>1 DEF SlotsOf, Filled
<1>5. Header(g)
  BY <1>1 DEF Header, Grown
<1>6. /\ d \in [Slots(newsize, ElemSize) -> Val]
      /\ \A i \in SlotsOf(l) : d[i] = l.data[i]
      /\ \A i \in Slots(newsize, ElemSize) : i >= l.end_idx => d[i] = Zero
  BY <1>1, <1>2, <1>4, ConstantTypes DEF Filled
<1> HIDE DEF g, d
<1>7. Filled(g)
  BY <1>1, <1>2, <1>3, <1>4, <1>6, ConstantTypes DEF Filled
<1>8. l.end_idx + 1 \in SlotsOf(g)
  <2>1. SlotsOf(g) = Slots(newsize, ElemSize)
    BY <1>3, <1>6 DEF SlotsOf
  <2> QED
    BY <1>1, <1>2, <1>4, <2>1, ConstantTypes
<1>9. Good(g)
  BY <1>1, <1>3, <1>5, <1>7 DEF Good
<1> QED
  BY <1>3, <1>6, <1>8, <1>9 DEF g

(* list_add keeps the list Good whether it grows or not: it appends the    *)
(* element, or loses it to a failed allocation and changes nothing.        *)
LEMMA AddKeeps ==
  ASSUME ListAssumption, U32Assumption, Careful,
         NEW l, Good(l), l.live, l.end_idx < MaxLen,
         NEW val \in Val,
         NEW r \in list_add(l, val)
  PROVE  /\ r.status = "ok" /\ r.ok \in BOOLEAN
         /\ Good(r.list) /\ r.list.live
         /\ r.ok => /\ r.list.end_idx = l.end_idx + 1
                    /\ r.list.data[l.end_idx] = val
                    /\ \A i \in 0 .. l.end_idx - 1 : r.list.data[i] = l.data[i]
         /\ ~r.ok => r.list = l
<1>1. /\ l.live = TRUE /\ l.alloc_size \in u32 /\ l.end_idx \in u32
      /\ l.element_size = ElemSize /\ Filled(l)
  BY DEF Good, Header
<1>2. /\ l.alloc_size \div ElemSize \in Nat /\ l.alloc_size \div ElemSize < U32
      /\ Slots(l.alloc_size, ElemSize) = 0 .. (l.alloc_size \div ElemSize) - 1
      /\ SlotsOf(l) = Slots(l.alloc_size, ElemSize) /\ l.end_idx \in SlotsOf(l)
      /\ l.end_idx \in Nat
  BY <1>1, SlotsAre, ConstantTypes DEF SlotsOf, Filled
<1>3. list_maxidx(l) = (l.alloc_size \div ElemSize) - 1
  <2>1. (l.alloc_size \div ElemSize) - 1 \in 0 .. U32 - 1
    BY <1>2, ConstantTypes
  <2> QED
    BY <1>1, <2>1, ConstantTypes DEF list_maxidx
<1>4. CASE ~list_full(l)
  <2>1. r = Put(l, val)
    BY <1>1, <1>4, ConstantTypes DEF list_add
  <2>2. l.end_idx + 1 \in SlotsOf(l)
    BY <1>2, <1>3, <1>4 DEF list_full
  <2>3. /\ r.status = "ok" /\ r.ok = TRUE
        /\ Good(r.list) /\ r.list.live
        /\ r.list.end_idx = l.end_idx + 1
        /\ r.list.data = [l.data EXCEPT ![l.end_idx] = val]
    BY <2>1, <2>2, PutKeeps, Zenon
  <2>4. /\ r.list.data[l.end_idx] = val
        /\ \A i \in 0 .. l.end_idx - 1 : r.list.data[i] = l.data[i]
    BY <1>1, <1>2, <2>3 DEF Filled
  <2> QED
    BY <2>3, <2>4
<1>5. CASE list_full(l)
  <2>1. r \in AddFull(l, val)
    BY <1>1, <1>5, ConstantTypes DEF list_add
  <2>2. PICK newsize \in GrownSizes(l.alloc_size, l.element_size) :
          r \in (IF newsize <= l.alloc_size THEN {Result(l, "abort", FALSE)}
                 ELSE { Result(l, "ok", FALSE),
                        IF l.live \/ l.alloc_size = 0 THEN Put(Grown(l, newsize), val)
                                                      ELSE Result(l, "fault", FALSE) })
    BY <2>1 DEF AddFull
  <2>3. /\ newsize \in u32 /\ newsize > l.alloc_size
        /\ newsize \div ElemSize >= (l.alloc_size \div ElemSize) + 1
    <3>1. l.alloc_size \div ElemSize <= MaxLen
      BY <1>2, <1>3, <1>5, ConstantTypes DEF list_full
    <3>2. l.alloc_size \in Nat /\ newsize \in GrownSizes(l.alloc_size, ElemSize)
      BY <1>1, <2>2, ConstantTypes
    <3> QED
      BY <3>1, <3>2, Growth
  <2>4. ~(newsize <= l.alloc_size)
    BY <1>1, <2>3, ConstantTypes
  <2>5. r = Result(l, "ok", FALSE) \/ r = Put(Grown(l, newsize), val)
    BY <1>1, <2>2, <2>4
  <2>6. CASE r = Result(l, "ok", FALSE)
    BY <2>6 DEF Result
  <2>7. CASE r = Put(Grown(l, newsize), val)
    <3> DEFINE g == Grown(l, newsize)
    <3>1. /\ Good(g) /\ g.live /\ g.end_idx = l.end_idx
          /\ l.end_idx + 1 \in SlotsOf(g)
          /\ \A i \in SlotsOf(l) : g.data[i] = l.data[i]
      BY <2>3, GrownKeeps
    <3> HIDE DEF g
    <3>2. /\ r.status = "ok" /\ r.ok = TRUE
          /\ Good(r.list) /\ r.list.live
          /\ r.list.end_idx = l.end_idx + 1
          /\ r.list.data = [g.data EXCEPT ![l.end_idx] = val]
      <4>1. r = Put(g, val)
        BY <2>7 DEF g
      <4>2. g.end_idx < MaxLen /\ g.end_idx + 1 \in SlotsOf(g)
        BY <3>1
      <4>3. /\ r.status = "ok" /\ r.ok = TRUE
            /\ Good(r.list) /\ r.list.live
            /\ r.list.end_idx = g.end_idx + 1
            /\ r.list.data = [g.data EXCEPT ![g.end_idx] = val]
        BY <3>1, <4>1, <4>2, PutKeeps, Zenon
      <4> QED
        BY <3>1, <4>3
    <3>3. /\ r.list.data[l.end_idx] = val
          /\ \A i \in 0 .. l.end_idx - 1 : r.list.data[i] = g.data[i]
      <4>1. l.end_idx \in DOMAIN g.data /\ \A i \in 0 .. l.end_idx - 1 : i \in DOMAIN g.data
        <5>1. g.end_idx \in Slots(g.alloc_size, ElemSize) /\ Filled(g) /\ g.alloc_size \in u32
          BY <3>1 DEF Good, Filled, Header
        <5>2. /\ Slots(g.alloc_size, ElemSize) = 0 .. (g.alloc_size \div ElemSize) - 1
              /\ g.alloc_size \div ElemSize \in Nat
          BY <5>1, SlotsAre
        <5>3. DOMAIN g.data = Slots(g.alloc_size, ElemSize)
          BY <5>1 DEF Filled
        <5> QED
          BY <1>2, <3>1, <5>1, <5>2, <5>3
      <4> QED
        BY <1>2, <3>2, <4>1
    <3>4. \A i \in 0 .. l.end_idx - 1 : r.list.data[i] = l.data[i]
      BY <1>2, <3>1, <3>3
    <3> QED
      BY <3>2, <3>3, <3>4
  <2> QED
    BY <2>5, <2>6, <2>7
<1> QED
  BY <1>4, <1>5

(* m is l without the element at idx.                                      *)
RemovedFrom(m, l, idx) ==
  /\ m.end_idx = l.end_idx - 1
  /\ \A i \in 0 .. l.end_idx - 2 :
       m.data[i] = IF i = idx THEN l.data[l.end_idx - 1] ELSE l.data[i]

(* The hole is filled with the last element, whose slot becomes zero.      *)
LEMMA RemoveKeeps ==
  ASSUME ListAssumption, U32Assumption,
         NEW l, Good(l), NEW idx \in Nat, idx # l.end_idx
  PROVE  LET r == list_remove(l, idx)
         IN  /\ r.status = "ok" /\ Good(r.list) /\ r.list.live = l.live
             /\ Removes(l, idx) => r.ok = TRUE /\ RemovedFrom(r.list, l, idx)
             /\ ~Removes(l, idx) => r.ok = FALSE /\ r.list = l
<1> DEFINE r == list_remove(l, idx)
<1> DEFINE back == l.end_idx - 1
           m == [l EXCEPT !.data[idx] = l.data[back], !.data[back] = Zero,
                          !.end_idx = back]
<1>1. l.end_idx \in Nat /\ l.alloc_size \in u32 /\ Header(l) /\ l.live \in BOOLEAN
  BY ConstantTypes DEF Good, Header
<1>2. CASE ~Removes(l, idx)
  BY <1>2 DEF list_remove, Result
<1>3. CASE Removes(l, idx)
  <2>1. idx \in 0 .. l.end_idx - 1 /\ back \in 0 .. l.end_idx - 1 /\ l.end_idx > 0
    BY <1>1, <1>3 DEF Removes, list_empty
  <2>2. l.live /\ Filled(l) /\ l.element_size = ElemSize
    BY <1>1, <2>1 DEF Good
  <2>3. /\ l.alloc_size \div ElemSize \in Nat /\ l.alloc_size \div ElemSize < U32
        /\ Slots(l.alloc_size, ElemSize) = 0 .. (l.alloc_size \div ElemSize) - 1
        /\ SlotsOf(l) = Slots(l.alloc_size, ElemSize) /\ l.end_idx \in SlotsOf(l)
    BY <1>1, <2>2, SlotsAre DEF SlotsOf, Filled
  <2>4. idx \in SlotsOf(l) /\ back \in SlotsOf(l) /\ l.data[back] \in Val
    <3>1. idx \in SlotsOf(l) /\ back \in SlotsOf(l)
      BY <1>1, <2>1, <2>3
    <3> QED
      BY <2>2, <2>3, <3>1 DEF Filled
  <2>5. r.list = m /\ r.status = "ok" /\ r.ok = TRUE
    BY <1>3, <2>4 DEF list_remove, Result
  <2>6. /\ m.data = [[l.data EXCEPT ![idx] = l.data[back]] EXCEPT ![back] = Zero]
        /\ m.end_idx = back /\ m.live = l.live /\ m.alloc_size = l.alloc_size
        /\ m.element_size = l.element_size
    BY <1>1 DEF Header
  <2>7. Header(m)
    <3>1. back \in u32
      BY <1>1, <2>1, <2>3, ConstantTypes DEF u32
    <3> QED
      BY <1>1, <3>1 DEF Header
  <2> HIDE DEF m
  <2>8. Filled(m)
    <3>1. m.data \in [Slots(l.alloc_size, ElemSize) -> Val]
      BY <2>2, <2>4, <2>6, ConstantTypes, ZenonT(30) DEF Filled
    <3>2. ASSUME NEW i \in Slots(l.alloc_size, ElemSize), i >= back
          PROVE  m.data[i] = Zero
      <4>1. CASE i = back
        BY <2>2, <2>3, <2>4, <2>6, <4>1 DEF Filled
      <4>2. CASE i # back
        <5>1. i >= l.end_idx /\ i # idx
          BY <1>1, <2>1, <2>3, <3>2, <4>2
        <5> QED
          BY <2>2, <2>6, <4>2, <5>1 DEF Filled
      <4> QED
        BY <4>1, <4>2
    <3>3. back <= MaxLen
      BY <1>1, <2>2, ConstantTypes DEF Filled
    <3> QED
      BY <2>3, <2>4, <2>6, <3>1, <3>2, <3>3 DEF Filled
  <2>9. \A i \in 0 .. l.end_idx - 2 :
          m.data[i] = IF i = idx THEN l.data[back] ELSE l.data[i]
    <3>1. \A i \in 0 .. l.end_idx - 2 : i \in SlotsOf(l) /\ i # back
      BY <1>1, <2>3
    <3> QED
      BY <2>2, <2>3, <2>6, <3>1 DEF Filled
  <2>10. Good(m)
    BY <2>2, <2>6, <2>7, <2>8 DEF Good
  <2>11. RemovedFrom(m, l, idx)
    BY <2>6, <2>9 DEF RemovedFrom
  <2> QED
    BY <1>3, <2>5, <2>6, <2>10, <2>11
<1> QED
  BY <1>2, <1>3

(* The index that list_remove_val removes is that of an element.           *)
LEMMA RemoveValKeeps ==
  ASSUME ListAssumption, U32Assumption,
         NEW l, Good(l), NEW val,
         NEW r, r = list_remove_val(l, val)
  PROVE  r.status = "ok" /\ Good(r.list) /\ r.list.live = l.live
<1> DEFINE hits == {i \in 0 .. l.end_idx - 1 : l.data[i] = val}
<1>1. l.end_idx \in Nat
  BY ConstantTypes DEF Good, Header
<1>2. CASE ~list_contains(l, val)
  BY <1>2 DEF list_remove_val, Result
<1>3. CASE list_contains(l, val)
  <2>1. hits # {}
    BY <1>3 DEF list_contains, list_find
  <2>2. \E i \in hits : \A j \in hits : i <= j
    <3>1. hits \subseteq Nat
      BY <1>1
    <3> HIDE DEF hits
    <3> QED
      BY <2>1, <3>1, Least
  <2>3. list_find(l, val) \in hits
    BY <2>1, <2>2 DEF list_find
  <2>4. list_find(l, val) \in Nat /\ list_find(l, val) # l.end_idx
    BY <1>1, <2>3
  <2> QED
    BY <1>3, <2>4, RemoveKeeps DEF list_remove_val
<1> QED
  BY <1>2, <1>3

LEMMA ClearKeeps ==
  ASSUME ListAssumption, U32Assumption,
         NEW l, Good(l), l.live,
         NEW r, r = list_clear(l)
  PROVE  r.status = "ok" /\ Good(r.list) /\ r.list.live
<1> DEFINE d == [i \in SlotsOf(l) |-> Zero]
           m == [l EXCEPT !.data = d, !.end_idx = 0]
<1>1. l.end_idx \in Nat /\ l.alloc_size \in u32 /\ Header(l) /\ l.live = TRUE
      /\ Filled(l) /\ l.element_size = ElemSize
  BY ConstantTypes DEF Good, Header
<1>2. SlotsOf(l) = Slots(l.alloc_size, ElemSize) /\ 0 \in Slots(l.alloc_size, ElemSize)
  <2>1. /\ l.alloc_size \div ElemSize \in Nat
        /\ Slots(l.alloc_size, ElemSize) = 0 .. (l.alloc_size \div ElemSize) - 1
    BY <1>1, SlotsAre
  <2> QED
    BY <1>1, <2>1 DEF SlotsOf, Filled
<1>3. r.list = m /\ r.status = "ok"
  BY <1>1 DEF list_clear, Result
<1>4. /\ m.data = d /\ m.end_idx = 0 /\ m.live = l.live
      /\ m.alloc_size = l.alloc_size /\ m.element_size = l.element_size
  BY <1>1 DEF Header
<1>5. Header(m)
  <2>1. 0 \in u32
    BY ConstantTypes DEF u32
  <2> QED
    BY <1>1, <2>1 DEF Header
<1> HIDE DEF m
<1>6. Filled(m)
  BY <1>2, <1>4, ConstantTypes DEF Filled
<1> QED
  BY <1>1, <1>3, <1>4, <1>5, <1>6 DEF Good

(***************************************************************************)
(* The inductive invariant: every list is Good, and a list_merge under way *)
(* writes a list with a buffer, has room for what it has still to append,  *)
(* and reads elements that src had when it was called.                     *)
(***************************************************************************)

MergeRecord ==
  [on : {TRUE}, dest : Lists, src : Lists, i : Nat, end_idx : Nat,
   start : Seq(Val), stale : BOOLEAN, dropped : BOOLEAN]

Merging ==
  /\ merge \in {NoMerge} \cup MergeRecord
  /\ merge.on =>
       /\ merge \in MergeRecord
       /\ lists[merge.dest].live
       /\ merge.i <= merge.end_idx
       /\ merge.end_idx <= lists[merge.src].end_idx
       /\ (lists[merge.dest].end_idx + merge.end_idx) - merge.i <= MaxLen
       /\ merge.stale => merge.src = merge.dest

Inv ==
  /\ lists = [x \in Lists |-> lists[x]]
  /\ \A x \in Lists : Good(lists[x])
  /\ Merging
  /\ status \in {"ok", "fault", "abort"}
  /\ FaultOnlyInSelfMerge
  /\ MergeAppends

LEMMA InvImplies ==
  ASSUME ListAssumption, U32Assumption, Inv
  PROVE  TypeOK /\ SpareZeroTail
<1>1. ASSUME NEW x \in Lists
      PROVE  LET l == lists[x] IN
               /\ l.live \in BOOLEAN
               /\ l.alloc_size \in u32
               /\ l.end_idx \in u32
               /\ l.element_size \in {0, ElemSize}
               /\ l.data \in [ (IF l.live THEN Slots(l.alloc_size, l.element_size) ELSE {})
                              -> Val ]
               /\ l.live => l.end_idx \in SlotsOf(l)
               /\ ~l.live => l.end_idx = 0
               /\ \A i \in SlotsOf(l) : i >= l.end_idx => l.data[i] = Zero
  <2> DEFINE l == lists[x]
  <2>1. Good(l)
    BY <1>1 DEF Inv
  <2> HIDE DEF l
  <2>2. /\ l.live \in BOOLEAN /\ l.alloc_size \in u32 /\ l.end_idx \in u32
        /\ l.element_size \in {0, ElemSize}
    BY <2>1 DEF Good, Header
  <2>3. CASE l.live
    <3>1. Filled(l) /\ l.element_size = ElemSize
      BY <2>1, <2>3 DEF Good
    <3>2. SlotsOf(l) = Slots(l.alloc_size, ElemSize)
      BY <3>1 DEF Filled, SlotsOf
    <3> QED
      BY <2>2, <2>3, <3>1, <3>2 DEF Filled, l
  <2>4. CASE ~l.live
    BY <2>1, <2>2, <2>4 DEF Good, NoBuffer, SlotsOf, l
  <2> QED
    BY <2>2, <2>3, <2>4
<1>2. /\ merge.on \in BOOLEAN
      /\ merge.on => /\ merge.dest \in Lists
                     /\ merge.src \in Lists
                     /\ merge.i \in 0 .. merge.end_idx
  <2>1. CASE merge = NoMerge
    <3>1. merge.on = FALSE
      BY <2>1 DEF NoMerge
    <3> QED
      BY <3>1
  <2>2. CASE merge \in MergeRecord
    <3>1. /\ merge.on = TRUE /\ merge.dest \in Lists /\ merge.src \in Lists
          /\ merge.i \in Nat /\ merge.end_idx \in Nat
      BY <2>2 DEF MergeRecord
    <3>2. merge.i <= merge.end_idx
      BY <3>1 DEF Inv, Merging
    <3>3. merge.i \in 0 .. merge.end_idx
      BY <3>1, <3>2
    <3> QED
      BY <3>1, <3>3, Zenon
  <2> QED
    BY <2>1, <2>2 DEF Inv, Merging
<1>3. status \in {"ok", "fault", "abort"}
  BY DEF Inv
<1> QED
  BY <1>1, <1>2, <1>3 DEF TypeOK, SpareZeroTail

(* A call that changes one list while no list_merge is under way.          *)
LEMMA ListStep ==
  ASSUME Inv, ~merge.on, merge' = merge, status' = "ok",
         NEW x \in Lists, NEW l, Good(l),
         lists' = [lists EXCEPT ![x] = l]
  PROVE  Inv'
<1>1. lists' = [y \in Lists |-> IF y = x THEN l ELSE lists[y]]
  BY DEF Inv
<1>2. lists' = [y \in Lists |-> lists'[y]]
  BY <1>1
<1>3. \A y \in Lists : Good(lists'[y])
  BY <1>1 DEF Inv
<1>4. Merging' /\ ~merge'.on
  BY DEF Inv, Merging
<1>5. FaultOnlyInSelfMerge' /\ MergeAppends'
  BY <1>4 DEF FaultOnlyInSelfMerge, MergeAppends
<1> QED
  BY <1>2, <1>3, <1>4, <1>5 DEF Inv

LEMMA NoListIsGood ==
  ASSUME ListAssumption, U32Assumption
  PROVE  Good(NoList)
<1>1. 0 \in u32
  BY ConstantTypes DEF u32
<1> QED
  BY <1>1 DEF Good, Header, NoList

LEMMA InitInv ==
  ASSUME ListAssumption, U32Assumption, Init
  PROVE  Inv
<1>1. ~merge.on /\ merge = NoMerge /\ status = "ok"
  BY DEF Init, NoMerge
<1>2. lists = [x \in Lists |-> lists[x]] /\ \A x \in Lists : Good(lists[x])
  BY NoListIsGood DEF Init
<1> QED
  BY <1>1, <1>2 DEF Inv, Merging, FaultOnlyInSelfMerge, MergeAppends

(* A new list has a slot, since init_size has room for an element.         *)
LEMMA CreateKeepsInv ==
  ASSUME ListAssumption, U32Assumption, Careful, Inv, NEW x \in Lists, Create(x)
  PROVE  Inv'
<1>1. PICK init_size \in InitSizes, live \in BOOLEAN :
        lists' = [lists EXCEPT ![x] =
          [data |-> IF live THEN calloc(init_size, ElemSize) ELSE NoBuffer,
           live |-> live, alloc_size |-> init_size, end_idx |-> 0,
           element_size |-> ElemSize]]
  BY DEF Create
<1> DEFINE l == [data |-> IF live THEN calloc(init_size, ElemSize) ELSE NoBuffer,
                 live |-> live, alloc_size |-> init_size, end_idx |-> 0,
                 element_size |-> ElemSize]
<1>2. init_size \in u32 /\ 0 \in u32 /\ init_size \in Nat /\ ElemSize \in Nat \ {0}
  BY ConstantTypes DEF u32
<1>3. Header(l)
  BY <1>2 DEF Header
<1>4. ASSUME live PROVE Good(l)
  <2>1. init_size >= ElemSize * 1
    BY <1>2 DEF Careful
  <2>2. init_size \div ElemSize >= 1
    BY <1>2, <2>1, Quotient
  <2>3. /\ init_size \div ElemSize \in Nat
        /\ Slots(init_size, ElemSize) = 0 .. (init_size \div ElemSize) - 1
    BY <1>2, SlotsAre
  <2>4. 0 \in Slots(init_size, ElemSize)
    BY <2>2, <2>3
  <2>5. /\ l.data = [i \in Slots(init_size, ElemSize) |-> Zero] /\ l.live = TRUE
        /\ l.alloc_size = init_size /\ l.end_idx = 0 /\ l.element_size = ElemSize
    BY <1>4 DEF calloc
  <2> HIDE DEF l
  <2>6. Filled(l)
    BY <2>4, <2>5, ConstantTypes DEF Filled
  <2> QED
    BY <1>3, <2>5, <2>6 DEF Good
<1>5. ASSUME ~live PROVE Good(l)
  <2>1. l.data = NoBuffer /\ ~l.live /\ l.end_idx = 0
    BY <1>5
  <2> HIDE DEF l
  <2> QED
    BY <1>3, <2>1 DEF Good
<1>6. Good(l)
  BY <1>4, <1>5
<1>7. lists' = [lists EXCEPT ![x] = l]
  BY <1>1
<1> HIDE DEF l
<1>8. ~merge.on /\ merge' = merge /\ status' = "ok"
  BY DEF Create, Idle
<1> QED
  BY <1>6, <1>7, <1>8, ListStep

LEMMA DestroyKeepsInv ==
  ASSUME ListAssumption, U32Assumption, Inv, NEW x \in Lists, Destroy(x)
  PROVE  Inv'
<1>1. ~merge.on /\ merge' = merge /\ status' = "ok"
  BY DEF Destroy, Idle
<1>2. lists' = [lists EXCEPT ![x] = NoList]
  BY DEF Destroy
<1> QED
  BY <1>1, <1>2, NoListIsGood, ListStep

LEMMA AddKeepsInv ==
  ASSUME ListAssumption, U32Assumption, Careful, Inv,
         NEW x \in Lists, NEW val \in Val, Add(x, val)
  PROVE  Inv'
<1>1. PICK r \in list_add(lists[x], val) : Becomes("add", x, val, r)
  BY DEF Add
<1>2. Good(lists[x]) /\ lists[x].live /\ lists[x].end_idx < MaxLen
  BY DEF Inv, Add
<1>3. r.status = "ok" /\ Good(r.list)
  BY <1>1, <1>2, AddKeeps
<1>4. ~merge.on /\ merge' = merge
  BY DEF Add, Idle
<1>5. lists' = [lists EXCEPT ![x] = r.list] /\ status' = "ok"
  BY <1>1, <1>3 DEF Becomes
<1> QED
  BY <1>3, <1>4, <1>5, ListStep

LEMMA RemoveKeepsInv ==
  ASSUME ListAssumption, U32Assumption, Careful, Inv,
         NEW x \in Lists, NEW idx \in 0 .. MaxLen + 1, Remove(x, idx)
  PROVE  Inv'
<1> DEFINE r == list_remove(lists[x], idx)
<1>1. Good(lists[x]) /\ idx # lists[x].end_idx /\ idx \in Nat
  BY ConstantTypes DEF Inv, Remove, Careful
<1>2. lists' = [lists EXCEPT ![x] = r.list] /\ status' = r.status
  BY DEF Remove, Becomes
<1>3. r.status = "ok" /\ Good(r.list)
  BY <1>1, RemoveKeeps
<1> HIDE DEF r
<1>4. ~merge.on /\ merge' = merge
  BY DEF Remove, Idle
<1> QED
  BY <1>2, <1>3, <1>4, ListStep

LEMMA RemoveValKeepsInv ==
  ASSUME ListAssumption, U32Assumption, Inv,
         NEW x \in Lists, NEW val \in Val, RemoveVal(x, val)
  PROVE  Inv'
<1> DEFINE r == list_remove_val(lists[x], val)
<1>1. Good(lists[x])
  BY DEF Inv
<1>2. lists' = [lists EXCEPT ![x] = r.list] /\ status' = r.status
  BY DEF RemoveVal, Becomes
<1>3. r.status = "ok" /\ Good(r.list)
  BY <1>1, RemoveValKeeps
<1> HIDE DEF r
<1>4. ~merge.on /\ merge' = merge
  BY DEF RemoveVal, Idle
<1> QED
  BY <1>2, <1>3, <1>4, ListStep

LEMMA ClearKeepsInv ==
  ASSUME ListAssumption, U32Assumption, Inv, NEW x \in Lists, Clear(x)
  PROVE  Inv'
<1> DEFINE r == list_clear(lists[x])
<1>1. Good(lists[x]) /\ lists[x].live
  BY DEF Inv, Clear
<1>2. lists' = [lists EXCEPT ![x] = r.list] /\ status' = r.status
  BY DEF Clear, Becomes
<1>3. r.status = "ok" /\ Good(r.list)
  BY <1>1, ClearKeeps
<1> HIDE DEF r
<1>4. ~merge.on /\ merge' = merge
  BY DEF Clear, Idle
<1> QED
  BY <1>2, <1>3, <1>4, ListStep

(***************************************************************************)
(* list_merge.                                                             *)
(***************************************************************************)

(* A sequence that keeps all of another and is longer by one.              *)
LEMMA OneMore ==
  ASSUME NEW S, NEW s \in Seq(S), NEW t \in Seq(S), Len(t) = Len(s) + 1,
         \A j \in 1 .. Len(s) : t[j] = s[j]
  PROVE  t = Append(s, t[Len(s) + 1])
<1> DEFINE a == Append(s, t[Len(s) + 1])
<1>1. Len(s) \in Nat /\ t[Len(s) + 1] \in S
  BY LenProperties, ElementOfSeq
<1>2. /\ a \in Seq(S) /\ Len(a) = Len(s) + 1
      /\ \A j \in 1 .. Len(s) : a[j] = s[j]
      /\ a[Len(s) + 1] = t[Len(s) + 1]
  BY <1>1, AppendProperties
<1> HIDE DEF a
<1>3. \A j \in 1 .. Len(t) : t[j] = a[j]
  BY <1>1, <1>2
<1>4. t = a
  BY <1>2, <1>3, SeqEqual
<1> QED
  BY <1>4 DEF a

(* The prefix of what is read grows by one, though what is read may be     *)
(* what was written since.                                                 *)
LEMMA PrefixGrows ==
  ASSUME NEW S, NEW s \in Seq(S), NEW t \in Seq(S), NEW i \in Nat,
         i + 1 <= Len(s), i + 1 <= Len(t),
         \A j \in 1 .. i + 1 : t[j] = s[j]
  PROVE  /\ SubSeq(s, 1, i) \in Seq(S)
         /\ SubSeq(t, 1, i + 1) = Append(SubSeq(s, 1, i), s[i + 1])
<1> DEFINE before == SubSeq(s, 1, i)
           after == SubSeq(t, 1, i + 1)
<1>1. Len(s) \in Nat /\ Len(t) \in Nat
  BY LenProperties
<1>2. /\ before \in Seq(S) /\ Len(before) = i
      /\ \A j \in 1 .. i : before[j] = s[j]
  <2>1. \A j \in 1 .. i : s[j] \in S
    BY <1>1, ElementOfSeq
  <2> QED
    BY <2>1, SubSeqProperties
<1>3. /\ after \in Seq(S) /\ Len(after) = i + 1
      /\ \A j \in 1 .. i + 1 : after[j] = t[j]
  <2>1. \A j \in 1 .. i + 1 : t[j] \in S
    BY <1>1, ElementOfSeq
  <2> QED
    BY <2>1, SubSeqProperties
<1> HIDE DEF before, after
<1>4. \A j \in 1 .. Len(before) : after[j] = before[j]
  BY <1>2, <1>3
<1>5. after = Append(before, after[Len(before) + 1])
  BY <1>2, <1>3, <1>4, OneMore
<1>6. after[Len(before) + 1] = s[i + 1]
  BY <1>2, <1>3
<1> QED
  BY <1>2, <1>5, <1>6 DEF before, after

LEMMA ConcatAppend ==
  ASSUME NEW s \in Seq(Val), NEW t \in Seq(Val), NEW e \in Val
  PROVE  Append(s \o t, e) = s \o Append(t, e)
<1>1. << e >> \in Seq(Val) /\ s \o t \in Seq(Val)
  BY ConcatProperties
<1>2. Append(s \o t, e) = (s \o t) \o << e >>
  BY <1>1, AppendIsConcat, Zenon
<1>3. Append(t, e) = t \o << e >>
  BY AppendIsConcat, Zenon
<1>4. (s \o t) \o << e >> = s \o (t \o << e >>)
  BY <1>1, ConcatAssociative
<1> QED
  BY <1>2, <1>3, <1>4, Zenon

LEMMA MergeCallKeepsInv ==
  ASSUME ListAssumption, U32Assumption, Inv,
         NEW dest \in Lists, NEW src \in Lists, MergeCall(dest, src)
  PROVE  Inv'
<1>1. Good(lists[dest]) /\ Good(lists[src]) /\ lists[dest].live
  BY DEF Inv, MergeCall
<1>2. /\ lists[dest].end_idx \in Nat /\ lists[src].end_idx \in Nat
      /\ Items(lists[dest]) \in Seq(Val)
  BY <1>1, ItemsAre
<1>3. lists' = lists /\ status' = "ok" /\ status = "ok"
  BY DEF MergeCall, Idle
<1>4. /\ merge' \in MergeRecord /\ merge'.on = TRUE
      /\ merge'.dest = dest /\ merge'.src = src /\ merge'.i = 0
      /\ merge'.end_idx = lists[src].end_idx /\ merge'.start = Items(lists[dest])
      /\ merge'.stale = FALSE /\ merge'.dropped = FALSE
  BY <1>2 DEF MergeCall, MergeRecord
<1>5. (lists'[dest].end_idx + merge'.end_idx) - merge'.i <= MaxLen
  BY <1>2, <1>3, <1>4, ConstantTypes DEF MergeCall
<1>6. Merging'
  BY <1>1, <1>2, <1>3, <1>4, <1>5 DEF Merging
<1>7. Items(lists[dest]) = merge'.start \o SubSeq(Items(lists'[merge'.src]), 1, merge'.i)
  <2>1. SubSeq(Items(lists[src]), 1, 0) = << >>
    BY SubSeqEmpty
  <2> QED
    BY <1>2, <1>3, <1>4, <2>1, ConcatEmptySeq
<1>8. MergeAppends'
  BY <1>3, <1>4, <1>7 DEF MergeAppends
<1> QED
  BY <1>3, <1>6, <1>8 DEF Inv, FaultOnlyInSelfMerge

(* There is room for what list_merge reads next.                           *)
LEMMA MergeReady ==
  ASSUME ListAssumption, U32Assumption, Inv, MergeAdd
  PROVE  /\ merge.dest \in Lists /\ lists[merge.dest].live
         /\ lists[merge.dest].end_idx < MaxLen
<1>1. /\ merge \in MergeRecord /\ merge.dest \in Lists /\ merge.src \in Lists
      /\ merge.i \in Nat /\ merge.end_idx \in Nat
  BY DEF Inv, Merging, MergeAdd, MergeRecord
<1>2. /\ lists[merge.dest].live
      /\ merge.i < merge.end_idx
      /\ merge.end_idx <= lists[merge.src].end_idx
      /\ (lists[merge.dest].end_idx + merge.end_idx) - merge.i <= MaxLen
  BY DEF Inv, Merging, MergeAdd
<1>3. Good(lists[merge.dest]) /\ Good(lists[merge.src])
  BY <1>1 DEF Inv
<1>4. /\ lists[merge.dest].end_idx \in Nat /\ lists[merge.src].end_idx \in Nat
      /\ MaxLen \in Nat
  BY <1>3, ItemsAre, ConstantTypes
<1>5. lists[merge.dest].end_idx < MaxLen
  BY <1>1, <1>2, <1>4
<1> QED
  BY <1>1, <1>2, <1>5

LEMMA MergeAddKeepsInv ==
  ASSUME ListAssumption, U32Assumption, Careful, Inv, MergeAdd
  PROVE  Inv'
<1> DEFINE x == merge.dest
           y == merge.src
<1>1. /\ merge \in MergeRecord /\ x \in Lists /\ y \in Lists /\ merge.on = TRUE
      /\ merge.i \in Nat /\ merge.end_idx \in Nat /\ merge.start \in Seq(Val)
      /\ merge.stale \in BOOLEAN /\ merge.dropped \in BOOLEAN
  BY DEF Inv, Merging, MergeAdd, MergeRecord
<1>2. /\ lists[x].live
      /\ merge.i < merge.end_idx
      /\ merge.end_idx <= lists[y].end_idx
      /\ (lists[x].end_idx + merge.end_idx) - merge.i <= MaxLen
      /\ merge.stale => y = x
  BY DEF Inv, Merging, MergeAdd
<1>0. PICK val \in Val : \E r \in list_add(lists[x], val) :
        /\ val \in MergeReads(r)
        /\ Becomes("merge", x, val, r)
        /\ merge' = [merge EXCEPT !.i = @ + 1, !.dropped = @ \/ ~r.ok, !.stale = Freed(r)]
  BY DEF MergeAdd
<1>3. PICK r \in list_add(lists[x], val) :
        /\ val \in MergeReads(r)
        /\ Becomes("merge", x, val, r)
        /\ merge' = [merge EXCEPT !.i = @ + 1, !.dropped = @ \/ ~r.ok, !.stale = Freed(r)]
  BY <1>0
<1>4. Good(lists[x]) /\ Good(lists[y])
  BY <1>1 DEF Inv
<1>5. lists[x].end_idx \in Nat /\ lists[y].end_idx \in Nat /\ MaxLen \in Nat
  BY <1>4, ItemsAre, ConstantTypes
<1>6. val \in Val /\ lists[x].end_idx < MaxLen
  BY <1>3, MergeReady
<1>7. /\ r.status = "ok" /\ r.ok \in BOOLEAN
      /\ Good(r.list) /\ r.list.live
      /\ r.ok => /\ r.list.end_idx = lists[x].end_idx + 1
                 /\ r.list.data[lists[x].end_idx] = val
                 /\ \A i \in 0 .. lists[x].end_idx - 1 :
                      r.list.data[i] = lists[x].data[i]
      /\ ~r.ok => r.list = lists[x]
  BY <1>2, <1>4, <1>6, AddKeeps
<1> DEFINE moved == y = x /\ r.list.alloc_size # lists[x].alloc_size
<1>8. /\ merge' \in MergeRecord /\ merge'.on = TRUE /\ merge'.dest = x /\ merge'.src = y
      /\ merge'.i = merge.i + 1 /\ merge'.end_idx = merge.end_idx
      /\ merge'.start = merge.start
      /\ merge'.dropped = (merge.dropped \/ ~r.ok)
      /\ merge'.stale = (merge.stale \/ moved)
  <2> DEFINE m == [merge EXCEPT !.i = @ + 1, !.dropped = @ \/ ~r.ok,
                                !.stale = merge.stale \/ moved]
  <2>1. merge' = m
    BY <1>3 DEF Freed
  <2> HIDE DEF moved
  <2>2. m \in MergeRecord
    <3>1. (merge.dropped \/ ~r.ok) \in BOOLEAN /\ (merge.stale \/ moved) \in BOOLEAN
      OBVIOUS
    <3>2. merge.i + 1 \in Nat
      BY <1>1
    <3> QED
      BY <1>1, <3>1, <3>2, Zenon DEF MergeRecord
  <2>3. /\ m.on = merge.on /\ m.dest = x /\ m.src = y /\ m.i = merge.i + 1
        /\ m.end_idx = merge.end_idx /\ m.start = merge.start
    BY <1>1 DEF MergeRecord
  <2>4. m.dropped = (merge.dropped \/ ~r.ok)
    BY <1>1 DEF MergeRecord
  <2>5. m.stale = (merge.stale \/ moved)
    BY <1>1 DEF MergeRecord
  <2> HIDE DEF m
  <2> QED
    BY <1>1, <2>1, <2>2, <2>3, <2>4, <2>5
<1> HIDE DEF x, y
<1>9. /\ lists' = [lists EXCEPT ![x] = r.list] /\ status' = "ok"
      /\ lists'[x] = r.list /\ (y # x => lists'[y] = lists[y])
      /\ lists' = [z \in Lists |-> lists'[z]]
      /\ \A z \in Lists : Good(lists'[z])
  <2>1. lists' = [lists EXCEPT ![x] = r.list] /\ status' = "ok"
    BY <1>3, <1>7 DEF Becomes
  <2>2. lists' = [z \in Lists |-> IF z = x THEN r.list ELSE lists[z]]
    BY <2>1 DEF Inv
  <2> QED
    BY <1>1, <1>7, <2>1, <2>2 DEF Inv
<1>10. Merging'
  <2>1. merge.end_idx <= lists'[y].end_idx
    <3>1. lists'[y].end_idx \in Nat /\ lists'[y].end_idx >= lists[y].end_idx
      <4>1. CASE y # x
        BY <1>5, <1>9, <4>1
      <4>2. CASE y = x /\ r.ok
        <5>1. lists'[y].end_idx = lists[y].end_idx + 1
          BY <1>7, <1>9, <4>2 DEF x
        <5> QED
          BY <1>5, <5>1
      <4>3. CASE y = x /\ ~r.ok
        BY <1>5, <1>7, <1>9, <4>3 DEF x
      <4> QED
        BY <4>1, <4>2, <4>3
    <3> QED
      BY <1>1, <1>2, <1>5, <3>1
  <2>2. (lists'[x].end_idx + merge.end_idx) - (merge.i + 1) <= MaxLen
    <3>1. lists'[x].end_idx \in {lists[x].end_idx, lists[x].end_idx + 1}
      <4>1. CASE r.ok
        BY <1>7, <1>9, <4>1 DEF x
      <4>2. CASE ~r.ok
        BY <1>7, <1>9, <4>2 DEF x
      <4> QED
        BY <4>1, <4>2
    <3> QED
      BY <1>1, <1>2, <1>5, <3>1, SMTT(30)
  <2>3. merge'.i <= merge'.end_idx
    BY <1>1, <1>2, <1>8
  <2>4. merge'.stale => merge'.src = merge'.dest
    BY <1>2, <1>8 DEF x, y
  <2> QED
    BY <1>7, <1>8, <1>9, <2>1, <2>2, <2>3, <2>4 DEF Merging
<1>11. MergeAppends'
  <2>1. SUFFICES ASSUME ~merge'.dropped, ~merge'.stale
                 PROVE  Items(r.list) =
                          merge.start \o SubSeq(Items(lists'[y]), 1, merge.i + 1)
    BY <1>8, <1>9 DEF MergeAppends
  <2>2. r.ok /\ ~merge.stale /\ ~merge.dropped
    BY <1>1, <1>7, <1>8, <2>1
  <2>3. Items(lists[x]) = merge.start \o SubSeq(Items(lists[y]), 1, merge.i)
    BY <1>1, <2>2 DEF Inv, MergeAppends, x, y
  <2>4. val = lists[y].data[merge.i]
    <3>1. ~Freed(r)
      BY <1>8, <2>1 DEF Freed, x, y
    <3> QED
      BY <1>3, <3>1 DEF MergeReads, y
  <2>5. /\ Items(lists[y]) \in Seq(Val) /\ Len(Items(lists[y])) = lists[y].end_idx
        /\ \A j \in 1 .. lists[y].end_idx : Items(lists[y])[j] = lists[y].data[j - 1]
    BY <1>4, ItemsAre DEF y
  <2>6. /\ Items(lists[x]) \in Seq(Val) /\ Len(Items(lists[x])) = lists[x].end_idx
        /\ \A j \in 1 .. lists[x].end_idx : Items(lists[x])[j] = lists[x].data[j - 1]
    BY <1>4, ItemsAre DEF x
  <2>7. /\ Items(r.list) \in Seq(Val) /\ Len(Items(r.list)) = r.list.end_idx
        /\ \A j \in 1 .. r.list.end_idx : Items(r.list)[j] = r.list.data[j - 1]
    BY <1>7, ItemsAre
  <2>8. r.list.end_idx = lists[x].end_idx + 1 /\ r.list.data[lists[x].end_idx] = val
        /\ \A i \in 0 .. lists[x].end_idx - 1 : r.list.data[i] = lists[x].data[i]
    BY <1>7, <2>2 DEF x
  <2>9. /\ Items(r.list)[lists[x].end_idx + 1] = val
        /\ Items(lists[y])[merge.i + 1] = val
    <3>1. Items(r.list)[lists[x].end_idx + 1] = val
      BY <1>5, <2>7, <2>8
    <3>2. merge.i + 1 \in 1 .. lists[y].end_idx /\ (merge.i + 1) - 1 = merge.i
      BY <1>1, <1>2, <1>5
    <3>3. Items(lists[y])[merge.i + 1] = val
      BY <2>4, <2>5, <3>2
    <3> QED
      BY <3>1, <3>3
  <2>10. \A j \in 1 .. lists[x].end_idx : Items(r.list)[j] = Items(lists[x])[j]
    <3>1. ASSUME NEW j \in 1 .. lists[x].end_idx
          PROVE  Items(r.list)[j] = Items(lists[x])[j]
      <4>1. j \in 1 .. r.list.end_idx /\ j - 1 \in 0 .. lists[x].end_idx - 1
        BY <1>5, <2>8
      <4>2. Items(r.list)[j] = r.list.data[j - 1]
        BY <2>7, <4>1
      <4>3. Items(lists[x])[j] = lists[x].data[j - 1]
        BY <2>6
      <4> QED
        BY <2>8, <4>1, <4>2, <4>3
    <3> QED
      BY <3>1
  <2>11. merge.i + 1 <= lists[y].end_idx
    BY <1>1, <1>2, <1>5 DEF y
  <2>12. /\ Items(lists'[y]) \in Seq(Val) /\ merge.i + 1 <= Len(Items(lists'[y]))
         /\ \A j \in 1 .. merge.i + 1 : Items(lists'[y])[j] = Items(lists[y])[j]
    <3>1. CASE y # x
      BY <1>9, <2>5, <2>11, <3>1
    <3>2. CASE y = x
      <4>1. lists'[y] = r.list
        BY <1>9, <3>2
      <4>2. merge.i + 1 <= Len(Items(r.list))
        BY <1>1, <1>5, <2>7, <2>8, <2>11, <3>2 DEF x
      <4>3. \A j \in 1 .. merge.i + 1 : Items(r.list)[j] = Items(lists[x])[j]
        BY <1>1, <1>5, <2>10, <2>11, <3>2 DEF x
      <4> QED
        BY <2>7, <3>2, <4>1, <4>2, <4>3
    <3> QED
      BY <3>1, <3>2
  <2>13. Items(r.list) = Append(Items(lists[x]), val)
    <3>1. Len(Items(r.list)) = Len(Items(lists[x])) + 1
      BY <2>6, <2>7, <2>8
    <3>2. \A j \in 1 .. Len(Items(lists[x])) : Items(r.list)[j] = Items(lists[x])[j]
      BY <2>6, <2>10
    <3>3. Items(r.list) = Append(Items(lists[x]), Items(r.list)[Len(Items(lists[x])) + 1])
      BY <2>6, <2>7, <3>1, <3>2, OneMore, Zenon
    <3> QED
      BY <2>6, <2>9, <3>3
  <2>14. /\ SubSeq(Items(lists[y]), 1, merge.i) \in Seq(Val)
         /\ SubSeq(Items(lists'[y]), 1, merge.i + 1) =
              Append(SubSeq(Items(lists[y]), 1, merge.i), val)
    <3>1. merge.i + 1 <= Len(Items(lists[y]))
      BY <2>5, <2>11
    <3>2. /\ SubSeq(Items(lists[y]), 1, merge.i) \in Seq(Val)
          /\ SubSeq(Items(lists'[y]), 1, merge.i + 1) =
               Append(SubSeq(Items(lists[y]), 1, merge.i), Items(lists[y])[merge.i + 1])
      <4> DEFINE s == Items(lists[y])
                 t == Items(lists'[y])
                 i == merge.i
      <4>1. s \in Seq(Val) /\ t \in Seq(Val) /\ i \in Nat
        BY <1>1, <2>5, <2>12
      <4>2. i + 1 <= Len(s) /\ i + 1 <= Len(t) /\ \A j \in 1 .. i + 1 : t[j] = s[j]
        BY <2>12, <3>1
      <4> HIDE DEF s, t, i
      <4>3. \A p, q \in Seq(Val), k \in Nat :
              (k + 1 <= Len(p) /\ k + 1 <= Len(q) /\ \A j \in 1 .. k + 1 : q[j] = p[j])
                => /\ SubSeq(p, 1, k) \in Seq(Val)
                   /\ SubSeq(q, 1, k + 1) = Append(SubSeq(p, 1, k), p[k + 1])
        BY PrefixGrows
      <4>4. /\ SubSeq(s, 1, i) \in Seq(Val)
            /\ SubSeq(t, 1, i + 1) = Append(SubSeq(s, 1, i), s[i + 1])
        BY <4>1, <4>2, <4>3, Zenon
      <4> QED
        BY <4>4 DEF s, t, i
    <3> QED
      BY <2>9, <3>2
  <2>15. Append(merge.start \o SubSeq(Items(lists[y]), 1, merge.i), val) =
           merge.start \o Append(SubSeq(Items(lists[y]), 1, merge.i), val)
    <3> DEFINE s == merge.start
               t == SubSeq(Items(lists[y]), 1, merge.i)
    <3>1. s \in Seq(Val) /\ t \in Seq(Val) /\ val \in Val
      BY <1>1, <1>6, <2>14
    <3> HIDE DEF s, t
    <3>2. Append(s \o t, val) = s \o Append(t, val)
      BY <3>1, ConcatAppend
    <3> QED
      BY <3>2 DEF s, t
  <2> QED
    BY <2>3, <2>13, <2>14, <2>15, Zenon
<1> QED
  BY <1>9, <1>10, <1>11 DEF Inv, FaultOnlyInSelfMerge

LEMMA MergeFaultKeepsInv ==
  ASSUME Inv, MergeFault
  PROVE  Inv'
<1>1. /\ lists' = lists /\ merge' = [merge EXCEPT !.stale = TRUE]
      /\ status' = "fault" /\ merge.on /\ merge \in MergeRecord
  BY DEF MergeFault, Inv, Merging
<1>2. merge.src = merge.dest
  BY DEF MergeFault, Freed, Inv, Merging
<1>3. /\ merge' \in MergeRecord
      /\ merge'.on = TRUE /\ merge'.stale = TRUE
      /\ merge'.dest = merge.dest /\ merge'.src = merge.src /\ merge'.i = merge.i
      /\ merge'.end_idx = merge.end_idx
  BY <1>1 DEF MergeRecord
<1>4. Merging'
  BY <1>1, <1>2, <1>3 DEF Inv, Merging
<1>5. FaultOnlyInSelfMerge' /\ MergeAppends'
  BY <1>2, <1>3 DEF FaultOnlyInSelfMerge, MergeAppends
<1> QED
  BY <1>1, <1>4, <1>5 DEF Inv

LEMMA MergeReturnKeepsInv ==
  ASSUME Inv, MergeReturn
  PROVE  Inv'
<1>1. lists' = lists /\ merge' = NoMerge /\ status' = "ok"
  BY DEF MergeReturn
<1>2. ~merge'.on
  BY <1>1 DEF NoMerge
<1> QED
  BY <1>1, <1>2 DEF Inv, Merging, FaultOnlyInSelfMerge, MergeAppends

(***************************************************************************)
(* The theorems.                                                           *)
(***************************************************************************)

LEMMA NextKeepsInv ==
  ASSUME ListAssumption, U32Assumption, Careful, Inv, [Next]_vars
  PROVE  Inv'
<1>1. CASE UNCHANGED vars
  <2>1. lists' = lists /\ merge' = merge /\ status' = status
    BY <1>1 DEF vars
  <2> QED
    BY <2>1 DEF Inv, Merging, FaultOnlyInSelfMerge, MergeAppends
<1>2. ASSUME NEW x \in Lists, Create(x) PROVE Inv'
  BY <1>2, CreateKeepsInv
<1>3. ASSUME NEW x \in Lists, Destroy(x) PROVE Inv'
  BY <1>3, DestroyKeepsInv
<1>4. ASSUME NEW x \in Lists, Clear(x) PROVE Inv'
  BY <1>4, ClearKeepsInv
<1>5. ASSUME NEW x \in Lists, NEW val \in Val, Add(x, val) PROVE Inv'
  BY <1>5, AddKeepsInv
<1>6. ASSUME NEW x \in Lists, NEW val \in Val, RemoveVal(x, val) PROVE Inv'
  BY <1>6, RemoveValKeepsInv
<1>7. ASSUME NEW x \in Lists, NEW val \in Val, Find(x, val) PROVE Inv'
  <2>1. lists' = lists /\ merge' = merge /\ status' = status
    BY <1>7 DEF Find
  <2> QED
    BY <2>1 DEF Inv, Merging, FaultOnlyInSelfMerge, MergeAppends
<1>8. ASSUME NEW x \in Lists, NEW idx \in 0 .. MaxLen + 1, Remove(x, idx) PROVE Inv'
  BY <1>8, RemoveKeepsInv
<1>9. ASSUME NEW dest \in Lists, NEW src \in Lists, MergeCall(dest, src) PROVE Inv'
  BY <1>9, MergeCallKeepsInv
<1>10. CASE MergeAdd
  BY <1>10, MergeAddKeepsInv
<1>11. CASE MergeFault
  BY <1>11, MergeFaultKeepsInv
<1>12. CASE MergeReturn
  BY <1>12, MergeReturnKeepsInv
<1> QED
  BY <1>1, <1>2, <1>3, <1>4, <1>5, <1>6, <1>7, <1>8, <1>9, <1>10, <1>11, <1>12 DEF Next

(* The inductive invariant of the list holds in every reachable state.     *)
THEOREM Invariance ==
  ASSUME Careful
  PROVE  Spec => []Inv
<1>1. ListAssumption /\ U32Assumption
  BY ListAssumption, U32Assumption
<1>2. Init => Inv
  BY <1>1, InitInv
<1>3. Inv /\ [Next]_vars => Inv'
  BY <1>1, NextKeepsInv
<1> QED
  BY <1>2, <1>3, PTL DEF Spec

(* The headers keep the types of list.h and alloc_size pays for the slots  *)
(* of the buffer.                                                          *)
THEOREM TypeCorrect ==
  ASSUME Careful
  PROVE  Spec => []TypeOK
<1>1. Inv => TypeOK
  BY ListAssumption, U32Assumption, InvImplies
<1>2. Spec => []Inv
  BY Invariance
<1> QED
  BY <1>1, <1>2, PTL

(* A list always has a slot to spare, and no call leaves the bytes of an   *)
(* element in a slot that is not in use.                                   *)
THEOREM TailStaysZero ==
  ASSUME Careful
  PROVE  Spec => []SpareZeroTail
<1>1. Inv => SpareZeroTail
  BY ListAssumption, U32Assumption, InvImplies
<1>2. Spec => []Inv
  BY Invariance
<1> QED
  BY <1>1, <1>2, PTL

(* The lists stay inside their buffers and no assertion of list_add fails, *)
(* except while a list is merged into itself, from the iteration on that   *)
(* moves it to a larger buffer.                                            *)
THEOREM MemorySafety ==
  ASSUME Careful
  PROVE  Spec => []FaultOnlyInSelfMerge
<1>1. Inv => FaultOnlyInSelfMerge
  BY DEF Inv
<1>2. Spec => []Inv
  BY Invariance
<1> QED
  BY <1>1, <1>2, PTL

(* list_merge appends a prefix of src at every step, also when src is dest *)
(* and did not have to move, unless an allocation failed.                  *)
THEOREM MergesInOrder ==
  ASSUME Careful
  PROVE  Spec => []MergeAppends
<1>1. Inv => MergeAppends
  BY DEF Inv
<1>2. Spec => []Inv
  BY Invariance
<1> QED
  BY <1>1, <1>2, PTL

-----------------------------------------------------------------------------
(* The places of a value.                                                  *)
Places(l, val) == {i \in 0 .. l.end_idx - 1 : l.data[i] = val}

LEMMA PlacesFinite ==
  ASSUME ListAssumption, U32Assumption, NEW l, Good(l), NEW val \in Val
  PROVE  /\ l.end_idx \in Nat
         /\ IsFiniteSet(Places(l, val))
         /\ Cardinality(Places(l, val)) \in Nat
         /\ Count(l)[val] = Cardinality(Places(l, val))
<1>1. l.end_idx \in Nat
  BY ConstantTypes DEF Good, Header
<1>2. IsFiniteSet(0 .. l.end_idx - 1)
  BY <1>1, FS_Interval
<1>3. Places(l, val) \in SUBSET (0 .. l.end_idx - 1)
  BY DEF Places
<1>4. IsFiniteSet(Places(l, val))
  BY <1>2, <1>3, FS_Subset
<1>5. Cardinality(Places(l, val)) \in Nat
  BY <1>4, FS_CardinalityType
<1>6. Count(l)[val] = Cardinality(Places(l, val))
  BY DEF Count, Places
<1> QED
  BY <1>1, <1>4, <1>5, <1>6

(* A value is counted when it is in the list.                              *)
LEMMA Counted ==
  ASSUME ListAssumption, U32Assumption, NEW l, Good(l), NEW val \in Val
  PROVE  Count(l)[val] > 0 <=> Places(l, val) # {}
<1> DEFINE p == Places(l, val)
<1>1. IsFiniteSet(p) /\ Cardinality(p) \in Nat /\ Count(l)[val] = Cardinality(p)
  BY PlacesFinite
<1> HIDE DEF p
<1>2. Cardinality(p) = 0 <=> p = {}
  BY <1>1, FS_EmptySet
<1>3. Count(l)[val] > 0 <=> p # {}
  BY <1>1, <1>2
<1> QED
  BY <1>3 DEF p

LEMMA ContainsCounted ==
  ASSUME ListAssumption, U32Assumption, NEW l, Good(l), NEW val \in Val
  PROVE  /\ list_contains(l, val) = (Count(l)[val] > 0)
         /\ list_contains(l, val) => list_find(l, val) \in Places(l, val)
<1> DEFINE hits == Places(l, val)
<1>1. l.end_idx \in Nat
  BY PlacesFinite
<1>2. list_find(l, val) = IF hits = {} THEN -1 ELSE CHOOSE i \in hits : \A j \in hits : i <= j
  BY DEF list_find, Places
<1>3. hits \subseteq Nat
  BY <1>1 DEF Places
<1> HIDE DEF hits
<1>4. ASSUME hits # {} PROVE list_find(l, val) \in hits
  <2>1. \E k \in hits : \A j \in hits : k <= j
    BY <1>3, <1>4, Least
  <2> QED
    BY <1>2, <1>4, <2>1
<1>5. list_contains(l, val) <=> hits # {}
  <2>1. CASE hits = {}
    BY <1>2, <2>1 DEF list_contains
  <2>2. CASE hits # {}
    <3>1. list_find(l, val) \in Nat
      BY <1>3, <1>4, <2>2
    <3>2. list_find(l, val) # -1
      BY <3>1
    <3> QED
      BY <2>2, <3>2 DEF list_contains
  <2> QED
    BY <2>1, <2>2
<1>6. Count(l)[val] > 0 <=> hits # {}
  BY Counted DEF hits
<1>7. list_contains(l, val) = (Count(l)[val] > 0)
  BY <1>5, <1>6 DEF list_contains
<1> QED
  BY <1>4, <1>5, <1>7 DEF hits

(* An element more.                                                        *)
LEMMA CountAdds ==
  ASSUME ListAssumption, U32Assumption, NEW l, Good(l), NEW val \in Val,
         NEW m, Good(m), m.end_idx = l.end_idx + 1, m.data[l.end_idx] = val,
         \A i \in 0 .. l.end_idx - 1 : m.data[i] = l.data[i]
  PROVE  Count(m) = [Count(l) EXCEPT ![val] = @ + 1]
<1>1. l.end_idx \in Nat
  BY PlacesFinite
<1>2. Places(m, val) = Places(l, val) \cup {l.end_idx} /\ l.end_idx \notin Places(l, val)
  BY <1>1 DEF Places
<1>3. Count(m)[val] = Count(l)[val] + 1
  <2>1. IsFiniteSet(Places(l, val)) /\ Count(l)[val] = Cardinality(Places(l, val))
        /\ Count(m)[val] = Cardinality(Places(m, val))
    BY PlacesFinite
  <2>2. Cardinality(Places(l, val) \cup {l.end_idx}) = Cardinality(Places(l, val)) + 1
    BY <1>2, <2>1, FS_AddElement
  <2> QED
    BY <1>2, <2>1, <2>2
<1>4. ASSUME NEW w \in Val, w # val PROVE Count(m)[w] = Count(l)[w]
  <2>1. Places(m, w) = Places(l, w)
    BY <1>1, <1>4 DEF Places
  <2> QED
    BY <2>1, PlacesFinite
<1>5. Count(m) = [v \in Val |-> Count(m)[v]] /\ Count(l) = [v \in Val |-> Count(l)[v]]
  BY DEF Count
<1> QED
  BY <1>3, <1>4, <1>5

(* An element less: the last one moved to its place.                       *)
LEMMA CountRemoves ==
  ASSUME ListAssumption, U32Assumption, NEW l, Good(l),
         NEW idx \in 0 .. l.end_idx - 1, l.data[idx] \in Val,
         NEW m, Good(m), RemovedFrom(m, l, idx)
  PROVE  /\ Count(l)[l.data[idx]] > 0
         /\ Count(m) = [Count(l) EXCEPT ![l.data[idx]] = @ - 1]
<1> DEFINE back == l.end_idx - 1
           val == l.data[idx]
<1>0. /\ m.end_idx = l.end_idx - 1
      /\ \A i \in 0 .. l.end_idx - 2 :
           m.data[i] = IF i = idx THEN l.data[back] ELSE l.data[i]
  BY DEF RemovedFrom
<1>1. l.end_idx \in Nat /\ back \in 0 .. l.end_idx - 1
  BY PlacesFinite
<1>2. idx \in Places(l, val)
  BY DEF Places
<1>3. Count(l)[val] > 0
  BY <1>2, Counted
<1>4. ASSUME NEW w \in Val, w # val PROVE Count(m)[w] = Count(l)[w]
  <2>1. /\ IsFiniteSet(Places(l, w)) /\ Count(l)[w] = Cardinality(Places(l, w))
        /\ Cardinality(Places(l, w)) \in Nat
        /\ Count(m)[w] = Cardinality(Places(m, w))
    BY PlacesFinite
  <2>2. CASE l.data[back] # w
    <3>1. Places(m, w) = Places(l, w)
      BY <1>0, <1>1, <1>4, <2>2 DEF Places
    <3> QED
      BY <2>1, <3>1
  <2>3. CASE l.data[back] = w
    <3>1. idx # back /\ back \in Places(l, w) /\ idx \notin Places(l, w)
      BY <1>0, <1>1, <1>4, <2>3 DEF Places
    <3>2. Places(m, w) = (Places(l, w) \ {back}) \cup {idx}
      BY <1>0, <1>1, <1>4, <2>3, <3>1 DEF Places
    <3>3. /\ IsFiniteSet(Places(l, w) \ {back})
          /\ Cardinality(Places(l, w) \ {back}) = Cardinality(Places(l, w)) - 1
      <4> DEFINE p == Places(l, w)
      <4>1. IsFiniteSet(p) /\ back \in p
        BY <2>1, <3>1
      <4> HIDE DEF p, back
      <4>2. IsFiniteSet(p \ {back}) /\ Cardinality(p \ {back}) = Cardinality(p) - 1
        BY <4>1, FS_RemoveElement
      <4> QED
        BY <4>2 DEF p
    <3>4. Cardinality((Places(l, w) \ {back}) \cup {idx}) =
            Cardinality(Places(l, w) \ {back}) + 1
      BY <3>1, <3>3, FS_AddElement
    <3> QED
      BY <2>1, <3>2, <3>3, <3>4
  <2> QED
    BY <2>2, <2>3
<1>5. Count(m)[val] = Count(l)[val] - 1
  <2>1. /\ IsFiniteSet(Places(l, val)) /\ Count(l)[val] = Cardinality(Places(l, val))
        /\ Count(m)[val] = Cardinality(Places(m, val))
    BY PlacesFinite
  <2>2. CASE l.data[back] = val
    <3>0. \A i \in 0 .. back - 1 : m.data[i] = val <=> l.data[i] = val
      BY <1>0, <1>1, <2>2
    <3>1. back \in Places(l, val) /\ Places(m, val) = Places(l, val) \ {back}
      BY <1>0, <1>1, <2>2, <3>0 DEF Places
    <3>2. Cardinality(Places(l, val) \ {back}) = Cardinality(Places(l, val)) - 1
      <4> DEFINE p == Places(l, val)
      <4>1. IsFiniteSet(p) /\ back \in p
        BY <2>1, <3>1
      <4> HIDE DEF p, back
      <4>2. Cardinality(p \ {back}) = Cardinality(p) - 1
        BY <4>1, FS_RemoveElement
      <4> QED
        BY <4>2 DEF p
    <3> QED
      BY <2>1, <3>1, <3>2
  <2>3. CASE l.data[back] # val
    <3>1. Places(m, val) = Places(l, val) \ {idx}
      BY <1>0, <1>1, <2>3 DEF Places
    <3>2. Cardinality(Places(l, val) \ {idx}) = Cardinality(Places(l, val)) - 1
      BY <1>2, <2>1, FS_RemoveElement
    <3> QED
      BY <2>1, <3>1, <3>2
  <2> QED
    BY <2>2, <2>3
<1>6. Count(m) = [v \in Val |-> Count(m)[v]] /\ Count(l) = [v \in Val |-> Count(l)[v]]
  BY DEF Count
<1> HIDE DEF val
<1>7. Count(m) = [Count(l) EXCEPT ![val] = @ - 1]
  BY <1>4, <1>5, <1>6
<1> QED
  BY <1>3, <1>7 DEF val

(***************************************************************************)
(* Every step of the lists is one of the multisets.                        *)
(***************************************************************************)

count == [x \in Lists |-> Count(lists[x])]

LEMMA CountOf ==
  ASSUME NEW x \in Lists
  PROVE  count[x] = Count(lists[x])
BY DEF count

(* One list changed.                                                       *)
LEMMA OneCountChanges ==
  ASSUME Inv, NEW x \in Lists, NEW l, lists' = [lists EXCEPT ![x] = l]
  PROVE  count' = [count EXCEPT ![x] = Count(l)]
<1>1. lists' = [y \in Lists |-> IF y = x THEN l ELSE lists[y]]
  BY DEF Inv
<1>2. count' = [y \in Lists |-> Count(lists'[y])]
  BY DEF count
<1>3. \A y \in Lists : Count(lists'[y]) = IF y = x THEN Count(l) ELSE Count(lists[y])
  BY <1>1
<1> QED
  BY <1>2, <1>3 DEF count

LEMMA EmptyCount ==
  ASSUME NEW l, l.end_idx = 0
  PROVE  Count(l) = Multiset!None
<1>1. ASSUME NEW val \in Val PROVE Cardinality(Places(l, val)) = 0
  <2>1. Places(l, val) = {}
    BY DEF Places
  <2> QED
    BY <2>1, FS_EmptySet
<1>2. Count(l) = [val \in Val |-> Cardinality(Places(l, val))]
  BY DEF Count, Places
<1> QED
  BY <1>1, <1>2 DEF Multiset!None

LEMMA NoListCount ==
  Count(NoList) = Multiset!None
BY EmptyCount DEF NoList

(* A result of list_add, in a call of its own or in a list_merge.          *)
LEMMA AddRefines ==
  ASSUME ListAssumption, U32Assumption, Careful, Inv,
         NEW x \in Lists, lists[x].live, lists[x].end_idx < MaxLen,
         NEW val \in Val, NEW r \in list_add(lists[x], val),
         NEW op \in {"add", "merge"}, Becomes(op, x, val, r)
  PROVE  Multiset!Add(x, val)
<1>1. Good(lists[x])
  BY DEF Inv
<1>2. /\ r.ok \in BOOLEAN /\ Good(r.list)
      /\ r.ok => /\ r.list.end_idx = lists[x].end_idx + 1
                 /\ r.list.data[lists[x].end_idx] = val
                 /\ \A i \in 0 .. lists[x].end_idx - 1 :
                      r.list.data[i] = lists[x].data[i]
      /\ ~r.ok => r.list = lists[x]
  BY <1>1, AddKeeps
<1>3. /\ call' = [op |-> op, list |-> x, val |-> val, ok |-> r.ok]
      /\ count' = [count EXCEPT ![x] = Count(r.list)]
  <2>1. lists' = [lists EXCEPT ![x] = r.list]
    BY DEF Becomes
  <2> QED
    BY <2>1, OneCountChanges DEF Becomes, Return
<1>4. CASE r.ok
  <2>1. Count(r.list) = [Count(lists[x]) EXCEPT ![val] = @ + 1]
    BY <1>1, <1>2, <1>4, CountAdds
  <2>2. count' = [count EXCEPT ![x][val] = @ + 1]
    BY <1>3, <2>1 DEF count
  <2>3. call' = [op |-> op, list |-> x, val |-> val, ok |-> TRUE]
    BY <1>2, <1>3, <1>4
  <2> QED
    BY <2>2, <2>3 DEF Multiset!Add, Multiset!Did, count
<1>5. CASE ~r.ok
  <2>1. count' = count
    BY <1>2, <1>3, <1>5 DEF count
  <2>2. call' = [op |-> op, list |-> x, val |-> val, ok |-> FALSE]
    BY <1>2, <1>3, <1>5
  <2> QED
    BY <2>1, <2>2 DEF Multiset!Add, Multiset!Did, count
<1> QED
  BY <1>4, <1>5

LEMMA MergeAddRefines ==
  ASSUME ListAssumption, U32Assumption, Careful, Inv, MergeAdd
  PROVE  \E x \in Lists, val \in Val : Multiset!Add(x, val)
<1>1. PICK val \in Val : \E r \in list_add(lists[merge.dest], val) :
        Becomes("merge", merge.dest, val, r)
  BY DEF MergeAdd
<1>2. PICK r \in list_add(lists[merge.dest], val) : Becomes("merge", merge.dest, val, r)
  BY <1>1
<1>3. /\ val \in Val /\ merge.dest \in Lists /\ lists[merge.dest].live
      /\ lists[merge.dest].end_idx < MaxLen
  BY MergeReady
<1>4. Multiset!Add(merge.dest, val)
  BY <1>2, <1>3, AddRefines
<1> QED
  BY <1>3, <1>4

(* A result of list_remove for the index of an element.                    *)
LEMMA RemovedOne ==
  ASSUME ListAssumption, U32Assumption, NEW l, Good(l),
         NEW idx \in 0 .. l.end_idx - 1
  PROVE  /\ list_remove(l, idx).ok = TRUE
         /\ l.data[idx] \in Val
         /\ Count(l)[l.data[idx]] > 0
         /\ Count(list_remove(l, idx).list) = [Count(l) EXCEPT ![l.data[idx]] = @ - 1]
<1> DEFINE r == list_remove(l, idx)
<1>1. l.end_idx \in Nat /\ l.data[idx] \in Val
  BY ItemsAre
<1>2. idx \in Nat /\ idx # l.end_idx /\ Removes(l, idx)
  BY <1>1 DEF Removes, list_empty
<1>3. Good(r.list) /\ r.ok = TRUE /\ RemovedFrom(r.list, l, idx)
  BY <1>2, RemoveKeeps
<1> HIDE DEF r
<1>4. /\ Count(l)[l.data[idx]] > 0
      /\ Count(r.list) = [Count(l) EXCEPT ![l.data[idx]] = @ - 1]
  BY <1>1, <1>3, CountRemoves
<1> QED
  BY <1>1, <1>3, <1>4 DEF r

LEMMA RemoveCounts ==
  ASSUME ListAssumption, U32Assumption, Inv, NEW x \in Lists,
         NEW idx \in 0 .. lists[x].end_idx - 1,
         lists' = [lists EXCEPT ![x] = list_remove(lists[x], idx).list]
  PROVE  /\ list_remove(lists[x], idx).ok = TRUE
         /\ lists[x].data[idx] \in Val
         /\ count[x][lists[x].data[idx]] > 0
         /\ count' = [count EXCEPT ![x][lists[x].data[idx]] = @ - 1]
<1>1. Good(lists[x])
  BY DEF Inv
<1>2. /\ list_remove(lists[x], idx).ok = TRUE
      /\ lists[x].data[idx] \in Val
      /\ Count(lists[x])[lists[x].data[idx]] > 0
      /\ Count(list_remove(lists[x], idx).list) =
           [Count(lists[x]) EXCEPT ![lists[x].data[idx]] = @ - 1]
  BY <1>1, RemovedOne
<1>3. count' = [count EXCEPT ![x] = Count(list_remove(lists[x], idx).list)]
  BY OneCountChanges
<1> QED
  BY <1>2, <1>3 DEF count

LEMMA RemoveRefines ==
  ASSUME ListAssumption, U32Assumption, Careful, Inv,
         NEW x \in Lists, NEW idx \in 0 .. MaxLen + 1, Remove(x, idx)
  PROVE  \E val \in Val : Multiset!Remove(x, val)
<1> DEFINE l == lists[x]
           r == list_remove(l, idx)
           val == IF idx < l.end_idx THEN l.data[idx] ELSE Zero
<1>1. Good(l) /\ idx # l.end_idx /\ idx \in Nat /\ l.end_idx \in Nat
  BY ItemsAre, ConstantTypes DEF Inv, Remove, Careful
<1>2. /\ call' = [op |-> "remove", list |-> x, val |-> val, ok |-> r.ok]
      /\ lists' = [lists EXCEPT ![x] = r.list]
  BY DEF Remove, Becomes, Return
<1>3. CASE idx < l.end_idx
  <2>1. idx \in 0 .. l.end_idx - 1
    BY <1>1, <1>3
  <2>2. /\ r.ok = TRUE /\ val \in Val /\ count[x][val] > 0
        /\ count' = [count EXCEPT ![x][val] = @ - 1]
    BY <1>2, <1>3, <2>1, RemoveCounts
  <2> HIDE DEF val, r
  <2>3. call' = [op |-> "remove", list |-> x, val |-> val, ok |-> TRUE]
    BY <1>2, <2>2
  <2>4. Multiset!Remove(x, val)
    BY <2>2, <2>3 DEF Multiset!Remove, Multiset!Did, count
  <2> QED
    BY <2>2, <2>4
<1>4. CASE ~(idx < l.end_idx)
  <2>1. ~Removes(l, idx) /\ val = Zero
    BY <1>1, <1>4 DEF Removes
  <2>2. r.ok = FALSE /\ r.list = l
    BY <2>1 DEF list_remove, Result
  <2> HIDE DEF val, r
  <2>3. count' = count
    <3>1. count' = [count EXCEPT ![x] = Count(l)]
      BY <1>2, <2>2, OneCountChanges
    <3> QED
      BY <3>1 DEF count
  <2>4. call' = [op |-> "remove", list |-> x, val |-> Zero, ok |-> FALSE]
    BY <1>2, <2>1, <2>2
  <2>5. Multiset!Remove(x, Zero)
    BY <2>3, <2>4 DEF Multiset!Remove, Multiset!Did, count
  <2> QED
    BY <2>5, ConstantTypes
<1> QED
  BY <1>3, <1>4

LEMMA RemoveValRefines ==
  ASSUME ListAssumption, U32Assumption, Inv,
         NEW x \in Lists, NEW val \in Val, RemoveVal(x, val)
  PROVE  Multiset!RemoveVal(x, val)
<1> DEFINE l == lists[x]
           r == list_remove_val(l, val)
<1>1. Good(l)
  BY DEF Inv
<1>2. /\ call' = [op |-> "remove_val", list |-> x, val |-> val, ok |-> r.ok]
      /\ lists' = [lists EXCEPT ![x] = r.list]
  BY DEF RemoveVal, Becomes, Return
<1>3. list_contains(l, val) = (count[x][val] > 0)
  BY <1>1, ContainsCounted DEF count
<1>4. CASE list_contains(l, val)
  <2> DEFINE idx == list_find(l, val)
  <2>1. idx \in 0 .. l.end_idx - 1 /\ l.data[idx] = val
    BY <1>1, <1>4, ContainsCounted DEF Places
  <2>2. r = list_remove(l, idx)
    BY <1>4 DEF list_remove_val
  <2> HIDE DEF idx, r
  <2>3. r.ok = TRUE /\ count' = [count EXCEPT ![x][val] = @ - 1]
    <3>1. lists' = [lists EXCEPT ![x] = list_remove(lists[x], idx).list]
      BY <1>2, <2>2
    <3> QED
      BY <2>1, <2>2, <3>1, RemoveCounts
  <2>4. call' = [op |-> "remove_val", list |-> x, val |-> val, ok |-> count[x][val] > 0]
    BY <1>2, <1>3, <1>4, <2>3
  <2> QED
    BY <1>3, <1>4, <2>3, <2>4 DEF Multiset!RemoveVal, Multiset!Did, count
<1>5. CASE ~list_contains(l, val)
  <2>1. r.ok = FALSE /\ r.list = l
    BY <1>5 DEF list_remove_val, Result
  <2> HIDE DEF r
  <2>2. count' = count
    <3>1. count' = [count EXCEPT ![x] = Count(l)]
      BY <1>2, <2>1, OneCountChanges
    <3> QED
      BY <3>1 DEF count
  <2>3. call' = [op |-> "remove_val", list |-> x, val |-> val, ok |-> count[x][val] > 0]
    <3>1. (count[x][val] > 0) = FALSE
      BY <1>3, <1>5 DEF list_contains
    <3> QED
      BY <1>2, <2>1, <3>1
  <2> QED
    BY <1>3, <1>5, <2>2, <2>3 DEF Multiset!RemoveVal, Multiset!Did, count
<1> QED
  BY <1>4, <1>5

LEMMA NextRefines ==
  ASSUME ListAssumption, U32Assumption, Careful, Inv, [Next]_vars
  PROVE  [Multiset!Next]_<<count, call>>
<1>1. CASE UNCHANGED vars
  BY <1>1 DEF vars, count
<1>2. ASSUME NEW x \in Lists, Create(x) \/ Destroy(x) \/ Clear(x)
      PROVE  Multiset!Empty(x)
  <2>1. call'.op \in {"create", "destroy", "clear"}
    BY <1>2 DEF Create, Destroy, Clear, Return, Becomes
  <2>2. \E l : l.end_idx = 0 /\ lists' = [lists EXCEPT ![x] = l]
    <3>1. CASE Create(x)
      BY <3>1 DEF Create
    <3>2. CASE Destroy(x)
      BY <3>2 DEF Destroy, NoList
    <3>3. CASE Clear(x)
      <4> DEFINE r == list_clear(lists[x])
      <4>1. lists' = [lists EXCEPT ![x] = r.list]
        BY <3>3 DEF Clear, Becomes
      <4>2. Header(lists[x]) /\ lists[x].live
        BY <3>3 DEF Inv, Good, Clear
      <4>3. r.list.end_idx = 0
        BY <4>2 DEF list_clear, Result, Header
      <4> QED
        BY <4>1, <4>3
    <3> QED
      BY <1>2, <3>1, <3>2, <3>3
  <2>3. count' = [count EXCEPT ![x] = Multiset!None]
    <3>1. PICK l : l.end_idx = 0 /\ lists' = [lists EXCEPT ![x] = l]
      BY <2>2
    <3>2. count' = [count EXCEPT ![x] = Count(l)]
      BY <3>1, OneCountChanges
    <3>3. Count(l) = Multiset!None
      BY <3>1, EmptyCount
    <3> QED
      BY <3>2, <3>3
  <2> QED
    BY <2>1, <2>3 DEF Multiset!Empty, count
<1>3. ASSUME NEW x \in Lists, NEW val \in Val, Add(x, val)
      PROVE  Multiset!Add(x, val)
  <2>1. PICK r \in list_add(lists[x], val) : Becomes("add", x, val, r)
    BY <1>3 DEF Add
  <2>2. Good(lists[x]) /\ lists[x].live /\ lists[x].end_idx < MaxLen
    BY <1>3 DEF Inv, Add
  <2> QED
    BY <2>1, <2>2, AddRefines
<1>4. ASSUME NEW x \in Lists, NEW idx \in 0 .. MaxLen + 1, Remove(x, idx)
      PROVE  \E val \in Val : Multiset!Remove(x, val)
  BY <1>4, RemoveRefines
<1>5. ASSUME NEW x \in Lists, NEW val \in Val, RemoveVal(x, val)
      PROVE  Multiset!RemoveVal(x, val)
  BY <1>5, RemoveValRefines
<1>6. ASSUME NEW x \in Lists, NEW val \in Val, Find(x, val)
      PROVE  Multiset!Find(x, val)
  <2>1. Good(lists[x])
    BY DEF Inv
  <2>2. list_contains(lists[x], val) = (count[x][val] > 0)
    BY <2>1, ContainsCounted DEF count
  <2>3. call' = [op |-> "find", list |-> x, val |-> val, ok |-> list_contains(lists[x], val)]
    BY <1>6 DEF Find, Return
  <2>4. count' = count
    BY <1>6 DEF Find, count
  <2> QED
    BY <2>2, <2>3, <2>4 DEF Multiset!Find, Multiset!Did, count
<1>7. ASSUME NEW dest \in Lists, NEW src \in Lists, MergeCall(dest, src)
      PROVE  Multiset!MergeCall
  BY <1>7 DEF MergeCall, Return, Multiset!MergeCall
<1>8. ASSUME MergeAdd
      PROVE  \E x \in Lists, val \in Val : Multiset!Add(x, val)
  BY <1>8, MergeAddRefines
<1>9. ASSUME MergeFault \/ MergeReturn
      PROVE  Multiset!MergeCall
  BY <1>9 DEF MergeFault, MergeReturn, Return, Multiset!MergeCall
<1> QED
  BY <1>1, <1>2, <1>3, <1>4, <1>5, <1>6, <1>7, <1>8, <1>9 DEF Next, Multiset!Next

(* The lists are the multisets of list.h: whatever moves inside the        *)
(* buffers, every call adds or takes away the value it says, and answers   *)
(* for what it found.                                                      *)
THEOREM ImplementsMultiset ==
  ASSUME Careful
  PROVE  Spec => MultisetSpec
<1>1. Init => Multiset!Init
  BY NoListCount DEF Init, Multiset!Init
<1>2. ASSUME Inv, [Next]_vars
      PROVE  [Multiset!Next]_<<count, call>>
  BY <1>2, ListAssumption, U32Assumption, NextRefines
<1> QED
  BY <1>1, <1>2, Invariance, PTL DEF Spec, MultisetSpec, Multiset!Spec, count

=============================================================================
