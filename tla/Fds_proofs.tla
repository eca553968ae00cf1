----------------------------- MODULE Fds_proofs -----------------------------
(***************************************************************************)
(* Proofs about the flash data storage, for every number of pages, slots,  *)
(* files, keys and queue elements, and any number of power cuts.           *)
(*                                                                         *)
(* They are about behaviours in which no flash operation is given up: after*)
(* FlashTimeout the code reuses offsets and words get spoiled, which the   *)
(* runs show.  IInv says so: timeouts = 0 => Good.  Good has three parts.  *)
(*   FlashOK  what the pages hold, whatever RAM says of them; a power cut  *)
(*            may come at any word, so every stage of every flash operation*)
(*            preserves it (StageEffect), and a boot needs no more.        *)
(*   OnOK     what RAM says of the pages: roles, queue, numbers handed out,*)
(*            space reserved, and how far each operation has come.         *)
(*   ModeOK   what off, installing and initialized mean.                   *)
(*                                                                         *)
(* Every stage of a flash operation has one of three effects on the records*)
(* a reset would find (Effect): none, the record of the head of the queue  *)
(* appears, or one that the head is to remove goes.  The refinement of     *)
(* RecordStore is that, with what the queue asks for.                      *)
(***************************************************************************)
EXTENDS Fds, TLAPS, WellFoundedInduction, FiniteSetTheorems, SequenceTheorems

(* Induction over the naturals, for a set instead of a predicate.           *)
LEMMA SetInduction ==
    ASSUME NEW S, 0 \in S, \A n \in Nat : n \in S => n + 1 \in S
    PROVE  Nat \subseteq S
<1> DEFINE R == OpToRel(<, Nat)
           T == {n \in Nat : n \notin S}
<1> SUFFICES ASSUME T # {} PROVE FALSE
  OBVIOUS
<1>1. PICK x \in T : \A y \in T : ~ (<<y, x>> \in R)
  <2>1. IsWellFoundedOn(R, Nat)
    BY NatLessThanWellFounded
  <2>2. T \subseteq Nat
    OBVIOUS
  <2> HIDE DEF R, T
  <2> QED
    BY <2>1, <2>2, WFMin
<1>2. \A y \in T : ~ (y < x)
  <2>1. \A y \in Nat : y < x => <<y, x>> \in R
    BY DEF OpToRel
  <2> HIDE DEF R
  <2> QED
    BY <1>1, <2>1
<1>3. x # 0 /\ x - 1 \in Nat /\ x - 1 \notin T
  BY <1>2
<1> QED
  BY <1>3

(* The least of a set of numbers is one of them, and below the others.      *)
LEMMA MinOf ==
    ASSUME NEW S \in SUBSET Nat, S # {}
    PROVE  Min(S) \in S /\ \A y \in S : Min(S) <= y
<1> DEFINE R == OpToRel(<, Nat)
<1>1. PICK x \in S : \A y \in S : ~ (<<y, x>> \in R)
  <2>1. IsWellFoundedOn(R, Nat)
    BY NatLessThanWellFounded
  <2> HIDE DEF R
  <2> QED
    BY <2>1, WFMin
<1>2. \A y \in S : x <= y
  <2>1. \A y \in Nat : y < x => <<y, x>> \in R
    BY DEF OpToRel
  <2>2. x \in Nat /\ \A y \in S : y \in Nat
    OBVIOUS
  <2> HIDE DEF R
  <2>3. \A y \in S : ~ (y < x)
    BY <1>1, <2>1, <2>2
  <2> QED
    BY <2>2, <2>3
<1> QED
  BY <1>2 DEF Min

(* The greatest of a bounded set of numbers is one of them, and above the   *)
(* others.                                                                  *)
LEMMA MaxOf ==
    ASSUME NEW S \in SUBSET Int, S # {}, NEW b \in Int, \A y \in S : y <= b
    PROVE  Max(S) \in S /\ \A y \in S : y <= Max(S)
<1> DEFINE T == {b - y : y \in S}
<1>1. T \in SUBSET Nat /\ T # {}
  <2>1. \A y \in S : b - y \in Nat
    OBVIOUS
  <2> QED
    BY <2>1
<1>2. Min(T) \in T /\ \A z \in T : Min(T) <= z
  <2> HIDE DEF T
  <2> QED
    BY <1>1, MinOf
<1>3. PICK x \in S : Min(T) = b - x
  BY <1>2
<1>4. \A y \in S : b - x <= b - y
  BY <1>2, <1>3
<1>5. \A y \in S : y <= x
  BY <1>4
<1> QED
  BY <1>5 DEF Max

(* The first of a set of pairs is one of them.                              *)
LEMMA FirstOf ==
    ASSUME NEW S \in SUBSET (Nat \X Nat), S # {}
    PROVE  First(S) \in S /\ \A x \in S : First(S)[1] < x[1] \/ (First(S)[1] = x[1] /\ First(S)[2] <= x[2])
<1> DEFINE A == {x[1] : x \in S}
           B == {x[2] : x \in {y \in S : y[1] = Min(A)}}
<1>1. Min(A) \in A /\ \A y \in A : Min(A) <= y
  <2>1. A \in SUBSET Nat /\ A # {}
    OBVIOUS
  <2> HIDE DEF A
  <2> QED
    BY <2>1, MinOf
<1>2. Min(B) \in B /\ \A y \in B : Min(B) <= y
  <2>1. B \in SUBSET Nat /\ B # {}
    <3> HIDE DEF A
    <3>1. \A y \in S : y[2] \in Nat
      OBVIOUS
    <3>2. \E y \in S : y[1] = Min(A)
      BY <1>1 DEF A
    <3> QED
      BY <3>1, <3>2
  <2> HIDE DEF B
  <2> QED
    BY <2>1, MinOf
<1>3. PICK a \in S : a[1] = Min(A) /\ a[2] = Min(B)
  BY <1>2
<1>4. \A x \in S : a[1] < x[1] \/ (a[1] = x[1] /\ a[2] <= x[2])
  <2> SUFFICES ASSUME NEW x \in S PROVE a[1] < x[1] \/ (a[1] = x[1] /\ a[2] <= x[2])
    OBVIOUS
  <2>1. a[1] <= x[1] /\ a[1] \in Nat /\ x[1] \in Nat
    BY <1>1, <1>3
  <2>2. x[1] = a[1] => a[2] <= x[2]
    BY <1>2, <1>3
  <2> QED
    BY <2>1, <2>2
<1> HIDE DEF A, B
<1> QED
  BY <1>4 DEF First

-----------------------------------------------------------------------------
(* What the flash holds.                                                    *)

(* What the flash holds, for any contents f of it. *)
Places == 1 .. Slots
Tags == {"none", "magic", "swap", "data"}
Cell == [key : Keys \union {"none", "dirty"}, file : Files \union {NoFile}, id : Nat, data : Nat]
Page == [tag : Tags, slot : [Places -> Cell]]

Untagged(p) == p.tag \in {"none", "magic"}
\* the first n - 1 slots of a page are in use, and the others erased
Filled(p, n) ==
    \A j \in Places : IF j < n THEN p.slot[j].key # "none" ELSE p.slot[j] = Empty
\* the pages a boot takes records from, and the records on them
Alive(f, p) == f[p].tag = "data" \/ (f[p].tag = "swap" /\ \E q \in Phys : Untagged(f[q]))
Holds(f, p, i) == Alive(f, p) /\ Valid(f[p].slot[i])

Formed(f) ==
    /\ \A p \in Phys : \E n \in 1 .. Slots + 1 : Filled(f[p], n)
    /\ \A p \in Phys : Untagged(f[p]) => Filled(f[p], 1)
OneSwap(f) == \A p, q \in Phys : f[p].tag = "swap" /\ f[q].tag = "swap" => p = q
SomeSpare(f) == \E p \in Phys : f[p].tag # "data"
Numbered(f, w) == \A p \in Phys, i \in Places : Holds(f, p, i) => f[p].slot[i].data \in 1 .. w
Distinct(f) == \A p, q \in Phys, i, j \in Places :
    /\ Holds(f, p, i) /\ Holds(f, q, j)
    /\ f[p].slot[i].id = f[q].slot[j].id \/ f[p].slot[i].data = f[q].slot[j].data
    => p = q /\ i = j
FlashOK(f, w) ==
    f \in [Phys -> Page] /\ Formed(f) /\ OneSwap(f) /\ SomeSpare(f) /\ Numbered(f, w) /\ Distinct(f)

StoredIn(f) == UNION {{f[p].slot[i].data : i \in {j \in Places : Holds(f, p, j)}} : p \in Phys}
IdsIn(f) == UNION {{f[p].slot[i].id : i \in {j \in Places : Holds(f, p, j)}} : p \in Phys}
CellsIn(f) == UNION {{f[p].slot[i] : i \in {j \in Places : Holds(f, p, j)}} : p \in Phys}

Put(p, i, c) == [p EXCEPT !.slot[i] = c]
Write(f, a, i, c) == [f EXCEPT ![a] = Put(f[a], i, c)]

(* Who is among the stored records, their ids, and their words.             *)
LEMMA StoredMember ==
    ASSUME NEW f, NEW d
    PROVE  /\ d \in StoredIn(f) <=> \E p \in Phys, i \in Places : Holds(f, p, i) /\ f[p].slot[i].data = d
           /\ d \in IdsIn(f) <=> \E p \in Phys, i \in Places : Holds(f, p, i) /\ f[p].slot[i].id = d
           /\ d \in CellsIn(f) <=> \E p \in Phys, i \in Places : Holds(f, p, i) /\ f[p].slot[i] = d
BY DEF StoredIn, IdsIn, CellsIn

(* What the assumptions say of the constants.                               *)
LEMMA ConstantFacts ==
    /\ DataPages \in Nat \ {0} /\ Slots \in Nat \ {0} /\ QueueSize \in Nat \ {0}
    /\ Files \subseteq Nat \ {0}
    /\ "none" \notin Keys /\ "dirty" \notin Keys
BY ConstantsAssumption

(* An erased slot and an erased page.                                       *)
LEMMA EmptyFacts ==
    Empty \in Cell /\ Blank \in Page /\ ~ Valid(Empty) /\ Filled(Blank, 1) /\ Untagged(Blank)
<1>1. Empty \in Cell
  BY DEF Empty, Cell, NoFile
<1>2. ~ Valid(Empty)
  BY DEF Empty, Valid
<1>3. Blank \in Page /\ Untagged(Blank)
  BY <1>1 DEF Blank, Page, Tags, Untagged, Places
<1>4. Filled(Blank, 1)
  BY DEF Blank, Filled, Places
<1> QED
  BY <1>1, <1>2, <1>3, <1>4

(* A slot of a page changes. *)
LEMMA PutFacts ==
    ASSUME NEW p \in Page, NEW i \in Places, NEW c \in Cell
    PROVE  /\ Put(p, i, c) \in Page
           /\ Put(p, i, c).tag = p.tag
           /\ Put(p, i, c).slot[i] = c
           /\ \A j \in Places : j # i => Put(p, i, c).slot[j] = p.slot[j]
BY DEF Put, Page

(* Writing a slot in use leaves the first erased one where it was, writing  *)
(* that one moves it by one.                                                *)
LEMMA PutFilled ==
    ASSUME NEW p \in Page, NEW i \in Places, NEW c \in Cell, c.key # "none",
           NEW n \in 1 .. Slots + 1, Filled(p, n), i <= n
    PROVE  /\ i < n => Filled(Put(p, i, c), n)
           /\ i = n => Filled(Put(p, i, c), n + 1)
<1>1. /\ Put(p, i, c).slot[i] = c
      /\ \A j \in Places : j # i => Put(p, i, c).slot[j] = p.slot[j]
  BY PutFacts
<1>2. i \in Int /\ n \in Int /\ \A j \in Places : j \in Int
  BY ConstantFacts DEF Places
<1>3. ASSUME i < n, NEW j \in Places
      PROVE  IF j < n THEN Put(p, i, c).slot[j].key # "none" ELSE Put(p, i, c).slot[j] = Empty
  <2>1. CASE j = i
    BY <1>1, <1>3, <2>1
  <2>2. CASE j # i
    BY <1>1, <2>2 DEF Filled
  <2> QED
    BY <2>1, <2>2
<1>4. ASSUME i = n, NEW j \in Places
      PROVE  IF j < n + 1 THEN Put(p, i, c).slot[j].key # "none" ELSE Put(p, i, c).slot[j] = Empty
  <2>1. CASE j = i
    BY <1>1, <1>2, <1>4, <2>1
  <2>2. CASE j # i
    <3>1. j < n <=> j < n + 1
      BY <1>2, <1>4, <2>2
    <3> QED
      BY <1>1, <2>2, <3>1 DEF Filled
  <2> QED
    BY <2>1, <2>2
<1> QED
  BY <1>3, <1>4 DEF Filled

(* The page of a word that is programmed keeps its form. *)
LEMMA WriteForm ==
    ASSUME NEW f, NEW w, FlashOK(f, w), NEW a \in Phys, NEW i \in Places,
           NEW c \in Cell, c.key # "none", ~ Untagged(f[a]),
           NEW n \in 1 .. Slots + 1, Filled(f[a], n), i <= n
    PROVE  /\ Write(f, a, i, c) \in [Phys -> Page]
           /\ Formed(Write(f, a, i, c)) /\ OneSwap(Write(f, a, i, c)) /\ SomeSpare(Write(f, a, i, c))
           /\ \A p \in Phys : Write(f, a, i, c)[p].tag = f[p].tag
           /\ \A p \in Phys : Alive(Write(f, a, i, c), p) <=> Alive(f, p)
           /\ \A p \in Phys, j \in Places :
                 p # a \/ j # i => Write(f, a, i, c)[p].slot[j] = f[p].slot[j]
           /\ Write(f, a, i, c)[a].slot[i] = c
<1> DEFINE g == Write(f, a, i, c)
<1>1. f \in [Phys -> Page] /\ f[a] \in Page
  BY DEF FlashOK
<1>2. /\ g \in [Phys -> Page] /\ g[a] = Put(f[a], i, c)
      /\ \A p \in Phys : p # a => g[p] = f[p]
  BY <1>1, PutFacts DEF Write
<1> HIDE DEF g
<1>3. /\ \A p \in Phys : g[p].tag = f[p].tag
      /\ \A p \in Phys, j \in Places : p # a \/ j # i => g[p].slot[j] = f[p].slot[j]
      /\ g[a].slot[i] = c
  BY <1>1, <1>2, PutFacts
<1>4. Formed(g)
  <2>1. \E m \in 1 .. Slots + 1 : Filled(g[a], m)
    <3>1. CASE i < n
      BY <1>1, <1>2, <3>1, PutFilled
    <3>2. CASE i = n
      <4>1. n + 1 \in 1 .. Slots + 1
        BY <3>2, ConstantFacts DEF Places
      <4> QED
        BY <1>1, <1>2, <3>2, <4>1, PutFilled
    <3> QED
      BY <3>1, <3>2 DEF Places
  <2> QED
    BY <1>2, <1>3, <2>1 DEF Formed, FlashOK, Untagged
<1>5. OneSwap(g) /\ SomeSpare(g)
  BY <1>3 DEF OneSwap, SomeSpare, FlashOK
<1>6. \A p \in Phys : Alive(g, p) <=> Alive(f, p)
  BY <1>3 DEF Alive, Untagged
<1> QED
  BY <1>2, <1>3, <1>4, <1>5, <1>6 DEF g

(* Key, id and data of a record whose header is not complete: nothing shows. *)
LEMMA PartChanges ==
    ASSUME NEW f, NEW w, FlashOK(f, w), NEW a \in Phys, NEW i \in Places,
           NEW c \in Cell, c.key # "none", ~ Untagged(f[a]),
           NEW n \in 1 .. Slots + 1, Filled(f[a], n), i <= n,
           ~ Alive(f, a) \/ (~ Valid(c) /\ ~ Valid(f[a].slot[i]))
    PROVE  /\ FlashOK(Write(f, a, i, c), w)
           /\ StoredIn(Write(f, a, i, c)) = StoredIn(f)
           /\ IdsIn(Write(f, a, i, c)) = IdsIn(f) /\ CellsIn(Write(f, a, i, c)) = CellsIn(f)
<1> DEFINE g == Write(f, a, i, c)
<1>1. /\ g \in [Phys -> Page] /\ Formed(g) /\ OneSwap(g) /\ SomeSpare(g)
      /\ \A p \in Phys : Alive(g, p) <=> Alive(f, p)
      /\ \A p \in Phys, j \in Places : p # a \/ j # i => g[p].slot[j] = f[p].slot[j]
      /\ g[a].slot[i] = c
  BY WriteForm
<1> HIDE DEF g
<1>2. \A p \in Phys, j \in Places : Holds(g, p, j) <=> Holds(f, p, j)
  BY <1>1 DEF Holds
<1>3. \A p \in Phys, j \in Places : Holds(f, p, j) => g[p].slot[j] = f[p].slot[j]
  BY <1>1 DEF Holds
<1>4. Numbered(g, w)
  BY <1>2, <1>3 DEF Numbered, FlashOK
<1>5. Distinct(g)
  BY <1>2, <1>3 DEF Distinct, FlashOK
<1>6. StoredIn(g) = StoredIn(f) /\ IdsIn(g) = IdsIn(f) /\ CellsIn(g) = CellsIn(f)
  BY <1>2, <1>3 DEF StoredIn, IdsIn, CellsIn
<1> QED
  BY <1>1, <1>4, <1>5, <1>6 DEF FlashOK, g

(* The header of a new record is completed. *)
LEMMA RecordAppears ==
    ASSUME NEW f, NEW w, FlashOK(f, w), NEW a \in Phys, NEW i \in Places,
           NEW c \in Cell, Valid(c), f[a].tag = "data",
           NEW n \in 1 .. Slots + 1, Filled(f[a], n), i <= n, ~ Valid(f[a].slot[i]),
           c.id \notin IdsIn(f), c.data \notin StoredIn(f), c.data \in 1 .. w
    PROVE  /\ FlashOK(Write(f, a, i, c), w)
           /\ StoredIn(Write(f, a, i, c)) = StoredIn(f) \union {c.data}
           /\ IdsIn(Write(f, a, i, c)) = IdsIn(f) \union {c.id}
           /\ CellsIn(Write(f, a, i, c)) = CellsIn(f) \union {c}
<1> DEFINE g == Write(f, a, i, c)
<1>1. /\ g \in [Phys -> Page] /\ Formed(g) /\ OneSwap(g) /\ SomeSpare(g)
      /\ \A p \in Phys : Alive(g, p) <=> Alive(f, p)
      /\ \A p \in Phys, j \in Places : p # a \/ j # i => g[p].slot[j] = f[p].slot[j]
      /\ g[a].slot[i] = c
  <2>1. c.key # "none" /\ ~ Untagged(f[a])
    BY DEF Valid, Untagged
  <2> QED
    BY <2>1, WriteForm
<1> HIDE DEF g
<1>2. Holds(g, a, i) /\ ~ Holds(f, a, i)
  BY <1>1 DEF Holds, Alive
<1>3. \A p \in Phys, j \in Places : p # a \/ j # i => (Holds(g, p, j) <=> Holds(f, p, j))
  BY <1>1 DEF Holds
<1>4. Numbered(g, w)
  BY <1>1, <1>3 DEF Numbered, FlashOK
<1>5. \A p \in Phys, j \in Places : Holds(f, p, j) =>
         /\ p # a \/ j # i
         /\ Holds(g, p, j) /\ g[p].slot[j] = f[p].slot[j]
  BY <1>1, <1>2, <1>3
<1>6. \A p \in Phys, j \in Places : Holds(f, p, j) =>
         f[p].slot[j].id # c.id /\ f[p].slot[j].data # c.data
  BY StoredMember
<1>7. \A p \in Phys, j \in Places : Holds(g, p, j) => (p = a /\ j = i) \/ Holds(f, p, j)
  BY <1>3
<1>8. Distinct(g)
  BY <1>1, <1>5, <1>6, <1>7 DEF Distinct, FlashOK
<1>9. /\ StoredIn(g) = StoredIn(f) \union {c.data}
      /\ IdsIn(g) = IdsIn(f) \union {c.id}
      /\ CellsIn(g) = CellsIn(f) \union {c}
  BY <1>1, <1>2, <1>5, <1>7 DEF StoredIn, IdsIn, CellsIn
<1> QED
  BY <1>1, <1>4, <1>8, <1>9 DEF FlashOK, g

(* The key of a record is cleared. *)
LEMMA RecordGoes ==
    ASSUME NEW f, NEW w, FlashOK(f, w), NEW a \in Phys, NEW i \in Places,
           NEW c \in Cell, ~ Valid(c), c.key # "none", f[a].tag = "data", Valid(f[a].slot[i])
    PROVE  /\ FlashOK(Write(f, a, i, c), w)
           /\ StoredIn(Write(f, a, i, c)) = StoredIn(f) \ {f[a].slot[i].data}
           /\ IdsIn(Write(f, a, i, c)) \subseteq IdsIn(f)
           /\ CellsIn(Write(f, a, i, c)) = CellsIn(f) \ {f[a].slot[i]}
<1> DEFINE g == Write(f, a, i, c)
<1>0. PICK n \in 1 .. Slots + 1 : Filled(f[a], n)
  BY DEF FlashOK, Formed
<1>00. i <= n
  <2>1. i < n \/ f[a].slot[i] = Empty
    BY <1>0 DEF Filled
  <2> QED
    BY <2>1, EmptyFacts DEF Places
<1>1. /\ g \in [Phys -> Page] /\ Formed(g) /\ OneSwap(g) /\ SomeSpare(g)
      /\ \A p \in Phys : Alive(g, p) <=> Alive(f, p)
      /\ \A p \in Phys, j \in Places : p # a \/ j # i => g[p].slot[j] = f[p].slot[j]
      /\ g[a].slot[i] = c
  <2>1. ~ Untagged(f[a])
    BY DEF Untagged
  <2> QED
    BY <1>0, <1>00, <2>1, WriteForm
<1> HIDE DEF g
<1>2. Holds(f, a, i) /\ ~ Holds(g, a, i)
  BY <1>1 DEF Holds, Alive
<1>3. \A p \in Phys, j \in Places : p # a \/ j # i => (Holds(g, p, j) <=> Holds(f, p, j))
  BY <1>1 DEF Holds
<1>4. \A p \in Phys, j \in Places : Holds(g, p, j) =>
         Holds(f, p, j) /\ g[p].slot[j] = f[p].slot[j] /\ f[p].slot[j].data # f[a].slot[i].data
  BY <1>1, <1>2, <1>3 DEF Distinct, FlashOK
<1>5. Numbered(g, w)
  BY <1>4 DEF Numbered, FlashOK
<1>6. Distinct(g)
  BY <1>4 DEF Distinct, FlashOK
<1>7. \A p \in Phys, j \in Places : Holds(f, p, j) =>
         (p = a /\ j = i) \/ (Holds(g, p, j) /\ g[p].slot[j] = f[p].slot[j])
  BY <1>1, <1>3
<1>8. /\ StoredIn(g) = StoredIn(f) \ {f[a].slot[i].data}
      /\ IdsIn(g) \subseteq IdsIn(f)
      /\ CellsIn(g) = CellsIn(f) \ {f[a].slot[i]}
  BY <1>4, <1>7 DEF StoredIn, IdsIn, CellsIn
<1> QED
  BY <1>1, <1>5, <1>6, <1>8 DEF FlashOK, g

-----------------------------------------------------------------------------
(* Erasing and tagging.                                                     *)

(* Flash that holds the same records stays sound, and stores the same.      *)
LEMMA SameHolds ==
    ASSUME NEW f, NEW g, NEW w, FlashOK(f, w),
           g \in [Phys -> Page], Formed(g), OneSwap(g), SomeSpare(g),
           \A p \in Phys, j \in Places : Holds(g, p, j) <=> Holds(f, p, j),
           \A p \in Phys, j \in Places : Holds(f, p, j) => g[p].slot[j] = f[p].slot[j]
    PROVE  FlashOK(g, w) /\ StoredIn(g) = StoredIn(f) /\ IdsIn(g) = IdsIn(f) /\ CellsIn(g) = CellsIn(f)
<1>1. Numbered(g, w)
  BY DEF Numbered, FlashOK
<1>2. Distinct(g)
  BY DEF Distinct, FlashOK
<1>3. StoredIn(g) = StoredIn(f) /\ IdsIn(g) = IdsIn(f) /\ CellsIn(g) = CellsIn(f)
  BY DEF StoredIn, IdsIn, CellsIn
<1> QED
  BY <1>1, <1>2, <1>3 DEF FlashOK

Erase(f, a) == [f EXCEPT ![a] = Blank]
Tag(f, a, t) == [f EXCEPT ![a] = [f[a] EXCEPT !.tag = t]]

(* Erasing a page changes that page only.                                   *)
LEMMA EraseFacts ==
    ASSUME NEW f \in [Phys -> Page], NEW a \in Phys
    PROVE  /\ Erase(f, a) \in [Phys -> Page]
           /\ Erase(f, a)[a] = Blank
           /\ \A p \in Phys : p # a => Erase(f, a)[p] = f[p]
BY EmptyFacts DEF Erase

(* Writing a tag changes the tag of that page only.                         *)
LEMMA TagFacts ==
    ASSUME NEW f \in [Phys -> Page], NEW a \in Phys, NEW t \in Tags
    PROVE  /\ Tag(f, a, t) \in [Phys -> Page]
           /\ Tag(f, a, t)[a].tag = t
           /\ \A p \in Phys : p # a => Tag(f, a, t)[p] = f[p]
           /\ \A p \in Phys : Tag(f, a, t)[p].slot = f[p].slot
           /\ \A p \in Phys, n \in Int : Filled(Tag(f, a, t)[p], n) <=> Filled(f[p], n)
<1>1. Tag(f, a, t) \in [Phys -> Page] /\ Tag(f, a, t)[a].tag = t
  BY DEF Tag, Page
<1>2. \A p \in Phys : p # a => Tag(f, a, t)[p] = f[p]
  BY DEF Tag
<1>3. \A p \in Phys : Tag(f, a, t)[p].slot = f[p].slot
  BY DEF Tag, Page
<1> QED
  BY <1>1, <1>2, <1>3 DEF Filled

(* An erased page holds no record.                                          *)
LEMMA BlankFacts ==
    /\ Blank.tag = "none"
    /\ \A j \in Places : Blank.slot[j] = Empty /\ ~ Valid(Blank.slot[j])
    /\ 1 \in 1 .. Slots + 1
BY EmptyFacts, ConstantFacts DEF Blank, Places

\* a swap page is erased that no boot would take for more than a leftover
LEMMA SwapErased ==
    ASSUME NEW f, NEW w, FlashOK(f, w), NEW a \in Phys, f[a].tag = "swap",
           \A q \in Phys : ~ Untagged(f[q])
    PROVE  /\ FlashOK(Erase(f, a), w)
           /\ StoredIn(Erase(f, a)) = StoredIn(f) /\ IdsIn(Erase(f, a)) = IdsIn(f)
           /\ CellsIn(Erase(f, a)) = CellsIn(f)
<1> DEFINE g == Erase(f, a)
<1>1. g \in [Phys -> Page] /\ g[a] = Blank /\ \A p \in Phys : p # a => g[p] = f[p]
  BY EraseFacts DEF FlashOK
<1> HIDE DEF g
<1>2. Formed(g)
  BY <1>1, EmptyFacts, BlankFacts DEF FlashOK, Formed
<1>3. OneSwap(g) /\ SomeSpare(g)
  BY <1>1, BlankFacts DEF FlashOK, OneSwap, SomeSpare
<1>4. \A p \in Phys : p # a => f[p].tag # "swap"
  BY DEF FlashOK, OneSwap
<1>5. \A p \in Phys, j \in Places : Holds(g, p, j) <=> Holds(f, p, j)
  <2>1. \A j \in Places : ~ Holds(g, a, j) /\ ~ Holds(f, a, j)
    BY <1>1, BlankFacts DEF Holds, Alive, Untagged
  <2>2. \A p \in Phys, j \in Places : p # a => (Holds(g, p, j) <=> Holds(f, p, j))
    BY <1>1, <1>4 DEF Holds, Alive
  <2> QED
    BY <2>1, <2>2
<1>6. \A p \in Phys, j \in Places : Holds(f, p, j) => g[p].slot[j] = f[p].slot[j]
  <2>1. \A j \in Places : ~ Holds(f, a, j)
    BY DEF Holds, Alive, Untagged
  <2> QED
    BY <1>1, <2>1
<1> QED
  BY <1>1, <1>2, <1>3, <1>5, <1>6, SameHolds DEF g

\* the records of page a are on the swap page, and nothing else is
Copied(f, a, s) ==
    /\ \A j \in Places : Valid(f[a].slot[j]) => \E m \in Places : f[s].slot[m] = f[a].slot[j]
    /\ \A m \in Places : Valid(f[s].slot[m]) =>
          \E j \in Places : Valid(f[a].slot[j]) /\ f[s].slot[m] = f[a].slot[j]
    /\ \A m, l \in Places :
             (Valid(f[s].slot[m]) /\ Valid(f[s].slot[l]) /\ f[s].slot[m].id = f[s].slot[l].id)
                => m = l

\* a page that has been copied is erased: the swap page comes alive
LEMMA PageErased ==
    ASSUME NEW f, NEW w, FlashOK(f, w), NEW a \in Phys, NEW s \in Phys,
           f[a].tag = "data", f[s].tag = "swap", \A q \in Phys : ~ Untagged(f[q]),
           Copied(f, a, s)
    PROVE  /\ FlashOK(Erase(f, a), w)
           /\ StoredIn(Erase(f, a)) = StoredIn(f) /\ IdsIn(Erase(f, a)) = IdsIn(f)
           /\ CellsIn(Erase(f, a)) = CellsIn(f)
<1> DEFINE g == Erase(f, a)
<1>1. /\ g \in [Phys -> Page] /\ g[a] = Blank /\ \A p \in Phys : p # a => g[p] = f[p]
  BY EraseFacts DEF FlashOK
<1>2. a # s
  OBVIOUS
<1> HIDE DEF g
<1>3. Formed(g)
  BY <1>1, EmptyFacts, BlankFacts DEF FlashOK, Formed
<1>4. OneSwap(g) /\ SomeSpare(g)
  BY <1>1, BlankFacts DEF FlashOK, OneSwap, SomeSpare
<1>5. \A p \in Phys : p # s => f[p].tag # "swap"
  BY DEF FlashOK, OneSwap
<1>6. \A j \in Places : ~ Holds(g, a, j) /\ ~ Holds(f, s, j)
  BY <1>1, BlankFacts DEF Holds, Alive, Untagged
<1>7. \A j \in Places : Holds(g, s, j) <=> Valid(f[s].slot[j])
  <2>1. Untagged(g[a])
    BY <1>1, EmptyFacts
  <2>2. Alive(g, s)
    BY <1>1, <1>2, <2>1 DEF Alive
  <2> QED
    BY <1>1, <1>2, <2>2 DEF Holds
<1>8. \A j \in Places : Holds(f, a, j) <=> Valid(f[a].slot[j])
  BY DEF Holds, Alive
<1>9. \A p \in Phys, j \in Places : p # a /\ p # s => (Holds(g, p, j) <=> Holds(f, p, j))
  BY <1>1, <1>5 DEF Holds, Alive
\* each record that is held now was held before, with the same words
<1>10. \A p \in Phys, j \in Places : Holds(g, p, j) =>
          /\ p # a
          /\ p # s => Holds(f, p, j) /\ g[p].slot[j] = f[p].slot[j]
          /\ p = s => \E i \in Places : Holds(f, a, i) /\ g[s].slot[j] = f[a].slot[i]
  BY <1>1, <1>2, <1>6, <1>7, <1>8, <1>9 DEF Copied
<1>11. \A p \in Phys, j \in Places : Holds(f, p, j) =>
          \/ p # a /\ Holds(g, p, j) /\ g[p].slot[j] = f[p].slot[j]
          \/ p = a /\ \E m \in Places : Holds(g, s, m) /\ g[s].slot[m] = f[a].slot[j]
  BY <1>1, <1>2, <1>6, <1>7, <1>8, <1>9 DEF Copied
<1>12. \A p \in Phys, j \in Places : Holds(g, p, j) =>
          \E q \in Phys, i \in Places : Holds(f, q, i) /\ f[q].slot[i] = g[p].slot[j]
  BY <1>10
<1>13. \A p \in Phys, j \in Places : Holds(f, p, j) =>
          \E q \in Phys, i \in Places : Holds(g, q, i) /\ g[q].slot[i] = f[p].slot[j]
  BY <1>11
<1>14. Numbered(g, w)
  BY <1>12 DEF Numbered, FlashOK
<1>15. Distinct(g)
  <2> SUFFICES ASSUME NEW p \in Phys, NEW q \in Phys, NEW i \in Places, NEW j \in Places,
                      Holds(g, p, i), Holds(g, q, j),
                      g[p].slot[i].id = g[q].slot[j].id \/ g[p].slot[i].data = g[q].slot[j].data
               PROVE  p = q /\ i = j
    BY DEF Distinct
  <2>1. CASE p # s /\ q # s
    BY <1>10, <2>1 DEF Distinct, FlashOK
  <2>2. CASE p = s /\ q # s
    <3>1. PICK k \in Places : Holds(f, a, k) /\ g[s].slot[i] = f[a].slot[k]
      BY <1>10, <2>2
    <3> QED
      BY <1>10, <2>2, <3>1 DEF Distinct, FlashOK
  <2>3. CASE p # s /\ q = s
    <3>1. PICK k \in Places : Holds(f, a, k) /\ g[s].slot[j] = f[a].slot[k]
      BY <1>10, <2>3
    <3> QED
      BY <1>10, <2>3, <3>1 DEF Distinct, FlashOK
  <2>4. CASE p = s /\ q = s
    <3>1. PICK k \in Places : Holds(f, a, k) /\ g[s].slot[i] = f[a].slot[k]
      BY <1>10, <2>4
    <3>2. PICK l \in Places : Holds(f, a, l) /\ g[s].slot[j] = f[a].slot[l]
      BY <1>10, <2>4
    <3>3. k = l
      BY <2>4, <3>1, <3>2 DEF Distinct, FlashOK
    <3>4. g[s].slot[i].id = g[s].slot[j].id
      BY <3>1, <3>2, <3>3
    <3>5. g[s] = f[s] /\ Valid(f[s].slot[i]) /\ Valid(f[s].slot[j])
      BY <1>1, <1>2, <1>7, <2>4
    <3>6. f[s].slot[i].id = f[s].slot[j].id
      BY <3>4, <3>5
    <3>7. \A m, r \in Places :
                (Valid(f[s].slot[m]) /\ Valid(f[s].slot[r]) /\ f[s].slot[m].id = f[s].slot[r].id)
                   => m = r
      BY DEF Copied
    <3>8. i = j
      BY <3>5, <3>6, <3>7
    <3> QED
      BY <2>4, <3>8
  <2> QED
    BY <2>1, <2>2, <2>3, <2>4
<1>16. StoredIn(g) = StoredIn(f) /\ IdsIn(g) = IdsIn(f) /\ CellsIn(g) = CellsIn(f)
  <2>1. \A d : d \in StoredIn(g) <=> d \in StoredIn(f)
    <3>1. ASSUME NEW d, d \in StoredIn(g) PROVE d \in StoredIn(f)
      <4>1. PICK p \in Phys, j \in Places : Holds(g, p, j) /\ g[p].slot[j].data = d
        BY <3>1, StoredMember
      <4>2. PICK q \in Phys, i \in Places : Holds(f, q, i) /\ f[q].slot[i] = g[p].slot[j]
        BY <1>12, <4>1
      <4> QED
        BY <4>1, <4>2, StoredMember
    <3>2. ASSUME NEW d, d \in StoredIn(f) PROVE d \in StoredIn(g)
      <4>1. PICK p \in Phys, j \in Places : Holds(f, p, j) /\ f[p].slot[j].data = d
        BY <3>2, StoredMember
      <4>2. PICK q \in Phys, i \in Places : Holds(g, q, i) /\ g[q].slot[i] = f[p].slot[j]
        BY <1>13, <4>1
      <4> QED
        BY <4>1, <4>2, StoredMember
    <3> QED
      BY <3>1, <3>2
  <2>2. \A d : d \in IdsIn(g) <=> d \in IdsIn(f)
    <3>1. ASSUME NEW d, d \in IdsIn(g) PROVE d \in IdsIn(f)
      <4>1. PICK p \in Phys, j \in Places : Holds(g, p, j) /\ g[p].slot[j].id = d
        BY <3>1, StoredMember
      <4>2. PICK q \in Phys, i \in Places : Holds(f, q, i) /\ f[q].slot[i] = g[p].slot[j]
        BY <1>12, <4>1
      <4> QED
        BY <4>1, <4>2, StoredMember
    <3>2. ASSUME NEW d, d \in IdsIn(f) PROVE d \in IdsIn(g)
      <4>1. PICK p \in Phys, j \in Places : Holds(f, p, j) /\ f[p].slot[j].id = d
        BY <3>2, StoredMember
      <4>2. PICK q \in Phys, i \in Places : Holds(g, q, i) /\ g[q].slot[i] = f[p].slot[j]
        BY <1>13, <4>1
      <4> QED
        BY <4>1, <4>2, StoredMember
    <3> QED
      BY <3>1, <3>2
  <2>3. StoredIn(g) = StoredIn(f)
    BY <2>1
  <2>4. IdsIn(g) = IdsIn(f)
    BY <2>2
  <2>5. \A c : c \in CellsIn(g) <=> c \in CellsIn(f)
    <3>1. ASSUME NEW c, c \in CellsIn(g) PROVE c \in CellsIn(f)
      <4>1. PICK p \in Phys, j \in Places : Holds(g, p, j) /\ g[p].slot[j] = c
        BY <3>1, StoredMember
      <4>2. PICK q \in Phys, i \in Places : Holds(f, q, i) /\ f[q].slot[i] = g[p].slot[j]
        BY <1>12, <4>1
      <4> QED
        BY <4>1, <4>2, StoredMember
    <3>2. ASSUME NEW c, c \in CellsIn(f) PROVE c \in CellsIn(g)
      <4>1. PICK p \in Phys, j \in Places : Holds(f, p, j) /\ f[p].slot[j] = c
        BY <3>2, StoredMember
      <4>2. PICK q \in Phys, i \in Places : Holds(g, q, i) /\ g[q].slot[i] = f[p].slot[j]
        BY <1>13, <4>1
      <4> QED
        BY <4>1, <4>2, StoredMember
    <3> QED
      BY <3>1, <3>2
  <2>6. CellsIn(g) = CellsIn(f)
    BY <2>5
  <2> QED
    BY <2>3, <2>4, <2>6
<1> QED
  BY <1>1, <1>3, <1>4, <1>14, <1>15, <1>16 DEF FlashOK, g

\* the swap page becomes a data page while another waits for its tag
LEMMA SwapPromoted ==
    ASSUME NEW f, NEW w, FlashOK(f, w), NEW a \in Phys, f[a].tag = "swap",
           NEW q \in Phys, Untagged(f[q])
    PROVE  /\ FlashOK(Tag(f, a, "data"), w)
           /\ StoredIn(Tag(f, a, "data")) = StoredIn(f) /\ IdsIn(Tag(f, a, "data")) = IdsIn(f)
           /\ CellsIn(Tag(f, a, "data")) = CellsIn(f)
<1> DEFINE g == Tag(f, a, "data")
<1>1. /\ g \in [Phys -> Page] /\ g[a].tag = "data" /\ \A p \in Phys : p # a => g[p] = f[p]
      /\ \A p \in Phys : g[p].slot = f[p].slot
      /\ \A p \in Phys, n \in Int : Filled(g[p], n) <=> Filled(f[p], n)
  BY TagFacts DEF FlashOK, Tags
<1> HIDE DEF g
<1>2. Formed(g)
  BY <1>1 DEF FlashOK, Formed, Untagged
<1>3. a # q /\ Untagged(g[q])
  BY <1>1 DEF Untagged
<1>4. OneSwap(g) /\ SomeSpare(g)
  BY <1>1, <1>3 DEF FlashOK, OneSwap, SomeSpare, Untagged
<1>5. \A p \in Phys : Alive(g, p) <=> Alive(f, p)
  <2>1. \A p \in Phys : p # a => f[p].tag # "swap"
    BY DEF FlashOK, OneSwap
  <2> QED
    BY <1>1, <2>1 DEF Alive
<1>6. \A p \in Phys, j \in Places : Holds(g, p, j) <=> Holds(f, p, j)
  BY <1>1, <1>5 DEF Holds
<1> QED
  BY <1>1, <1>2, <1>4, <1>6, SameHolds DEF g

\* the first word of a tag
LEMMA MagicWritten ==
    ASSUME NEW f, NEW w, FlashOK(f, w), NEW a \in Phys, Untagged(f[a])
    PROVE  /\ FlashOK(Tag(f, a, "magic"), w)
           /\ StoredIn(Tag(f, a, "magic")) = StoredIn(f) /\ IdsIn(Tag(f, a, "magic")) = IdsIn(f)
           /\ CellsIn(Tag(f, a, "magic")) = CellsIn(f)
<1> DEFINE g == Tag(f, a, "magic")
<1>1. /\ g \in [Phys -> Page] /\ g[a].tag = "magic" /\ \A p \in Phys : p # a => g[p] = f[p]
      /\ \A p \in Phys : g[p].slot = f[p].slot
      /\ \A p \in Phys, n \in Int : Filled(g[p], n) <=> Filled(f[p], n)
  BY TagFacts DEF FlashOK, Tags
<1> HIDE DEF g
<1>2. \A p \in Phys : Untagged(g[p]) <=> Untagged(f[p])
  BY <1>1 DEF Untagged
<1>3. Formed(g)
  BY <1>1, <1>2, BlankFacts DEF FlashOK, Formed
<1>4. OneSwap(g) /\ SomeSpare(g)
  BY <1>1 DEF FlashOK, OneSwap, SomeSpare, Untagged
<1>5. \A p \in Phys : Alive(g, p) <=> Alive(f, p)
  BY <1>1, <1>2 DEF Alive, Untagged
<1>6. \A p \in Phys, j \in Places : Holds(g, p, j) <=> Holds(f, p, j)
  BY <1>1, <1>5 DEF Holds
<1> QED
  BY <1>1, <1>3, <1>4, <1>6, SameHolds DEF g

\* an erased page becomes the swap page
LEMMA SwapTagged ==
    ASSUME NEW f, NEW w, FlashOK(f, w), NEW a \in Phys, Untagged(f[a]),
           \A p \in Phys : f[p].tag # "swap"
    PROVE  /\ FlashOK(Tag(f, a, "swap"), w)
           /\ StoredIn(Tag(f, a, "swap")) = StoredIn(f) /\ IdsIn(Tag(f, a, "swap")) = IdsIn(f)
           /\ CellsIn(Tag(f, a, "swap")) = CellsIn(f)
<1> DEFINE g == Tag(f, a, "swap")
<1>1. /\ g \in [Phys -> Page] /\ g[a].tag = "swap" /\ \A p \in Phys : p # a => g[p] = f[p]
      /\ \A p \in Phys : g[p].slot = f[p].slot
      /\ \A p \in Phys, n \in Int : Filled(g[p], n) <=> Filled(f[p], n)
  BY TagFacts DEF FlashOK, Tags
<1> HIDE DEF g
<1>2. Formed(g)
  BY <1>1, BlankFacts DEF FlashOK, Formed, Untagged
<1>4. OneSwap(g) /\ SomeSpare(g)
  BY <1>1 DEF FlashOK, OneSwap, SomeSpare, Untagged
<1>5. \A p \in Phys : p # a => (Alive(g, p) <=> Alive(f, p))
  BY <1>1 DEF Alive
<1>6. \A j \in Places : ~ Valid(f[a].slot[j])
  BY EmptyFacts DEF FlashOK, Formed, Filled, Places
<1>7. \A p \in Phys, j \in Places : Holds(g, p, j) <=> Holds(f, p, j)
  BY <1>1, <1>5, <1>6 DEF Holds
<1> QED
  BY <1>1, <1>2, <1>4, <1>7, SameHolds DEF g

\* an erased page becomes a data page, the swap page being clean
LEMMA DataTagged ==
    ASSUME NEW f, NEW w, FlashOK(f, w), NEW a \in Phys, Untagged(f[a]),
           NEW s \in Phys, f[s].tag = "swap", Filled(f[s], 1)
    PROVE  /\ FlashOK(Tag(f, a, "data"), w)
           /\ StoredIn(Tag(f, a, "data")) = StoredIn(f) /\ IdsIn(Tag(f, a, "data")) = IdsIn(f)
           /\ CellsIn(Tag(f, a, "data")) = CellsIn(f)
<1> DEFINE g == Tag(f, a, "data")
<1>1. /\ g \in [Phys -> Page] /\ g[a].tag = "data" /\ \A p \in Phys : p # a => g[p] = f[p]
      /\ \A p \in Phys : g[p].slot = f[p].slot
      /\ \A p \in Phys, n \in Int : Filled(g[p], n) <=> Filled(f[p], n)
  BY TagFacts DEF FlashOK, Tags
<1> HIDE DEF g
<1>2. Formed(g)
  BY <1>1 DEF FlashOK, Formed, Untagged
<1>3. a # s /\ g[s].tag = "swap"
  BY <1>1 DEF Untagged
<1>4. OneSwap(g) /\ SomeSpare(g)
  BY <1>1, <1>3 DEF FlashOK, OneSwap, SomeSpare
<1>5. \A p \in Phys : p # a /\ p # s => (Alive(g, p) <=> Alive(f, p))
  <2>1. \A p \in Phys : p # s => f[p].tag # "swap"
    BY DEF FlashOK, OneSwap
  <2> QED
    BY <1>1, <2>1 DEF Alive
<1>6. \A j \in Places : ~ Valid(f[a].slot[j]) /\ ~ Valid(f[s].slot[j])
  BY EmptyFacts DEF FlashOK, Formed, Filled, Places
<1>7. \A p \in Phys, j \in Places : Holds(g, p, j) <=> Holds(f, p, j)
  BY <1>1, <1>5, <1>6 DEF Holds
<1> QED
  BY <1>1, <1>2, <1>4, <1>7, SameHolds DEF g

-----------------------------------------------------------------------------
(* The operators of the model.                                              *)

(* Slots and offsets are numbers.                                           *)
LEMMA FilledRange ==
    /\ \A n \in 1 .. Slots + 1 : n \in Int /\ n \in Nat
    /\ \A j \in Places : j \in Nat /\ j \in Int /\ j <= Slots /\ j \in 1 .. Slots + 1
    /\ Slots \in Nat /\ Slots + 1 \in 1 .. Slots + 1
BY ConstantFacts DEF Places

\* page_scan stops where the page is still erased, behind its records
LEMMA OffsetIs ==
    ASSUME NEW p \in Page, NEW n \in 1 .. Slots + 1, Filled(p, n)
    PROVE  WriteOffset(p) = n
<1> DEFINE S == {i \in 1 .. Slots : p.slot[i].key = "none"} \union {Slots + 1}
<1>1. S \in SUBSET Nat /\ S # {}
  BY ConstantFacts
<1>2. Min(S) \in S /\ \A y \in S : Min(S) <= y
  <2> HIDE DEF S
  <2> QED
    BY <1>1, MinOf
<1>3. \A i \in Places : i \in S => n <= i
  BY FilledRange DEF Filled
<1>4. n \in S
  <2>1. CASE n = Slots + 1
    BY <2>1
  <2>2. CASE n # Slots + 1
    <3>1. n \in Places
      BY <2>2, FilledRange DEF Places
    <3>2. p.slot[n] = Empty
      BY <3>1, FilledRange DEF Filled
    <3> QED
      BY <3>1, <3>2 DEF Empty, Places
  <2> QED
    BY <2>1, <2>2
<1>5. n <= Min(S)
  <2>1. n <= Slots + 1
    OBVIOUS
  <2>2. \A i \in S : i \in Places \/ i = Slots + 1
    BY DEF Places
  <2> HIDE DEF S
  <2> QED
    BY <1>2, <1>3, <2>1, <2>2
<1>6. Min(S) <= n /\ Min(S) \in Int
  BY <1>1, <1>2, <1>4
<1>7. Min(S) = n
  BY <1>5, <1>6
<1> QED
  BY <1>7 DEF WriteOffset

(* The walk over the records of a page meets every valid one.               *)
LEMMA RecordsAre ==
    ASSUME NEW p \in Page, NEW n \in 1 .. Slots + 1, Filled(p, n)
    PROVE  Records(p) = {i \in Places : Valid(p.slot[i])}
<1>1. WriteOffset(p) = n
  BY OffsetIs
<1>2. \A i \in Places : Valid(p.slot[i]) => i < n
  BY EmptyFacts DEF Filled
<1>3. 1 .. n - 1 \subseteq Places
  BY FilledRange DEF Places
<1>4. \A i \in Places : Valid(p.slot[i]) => i \in 1 .. n - 1
  BY <1>2, FilledRange DEF Places
<1> QED
  BY <1>1, <1>3, <1>4 DEF Records

(* page_can_tag accepts exactly the erased pages, tagged or not.            *)
LEMMA CanTag ==
    ASSUME NEW p \in Page
    PROVE  /\ PageCanTag(p) => Untagged(p)
           /\ Untagged(p) /\ Filled(p, 1) => PageCanTag(p) /\ p.slot = Blank.slot
<1>1. ASSUME Untagged(p), Filled(p, 1) PROVE p.slot = Blank.slot
  <2>1. p.slot \in [Places -> Cell] /\ Blank.slot \in [Places -> Cell]
    BY EmptyFacts DEF Page
  <2>2. \A j \in Places : p.slot[j] = Blank.slot[j]
    BY <1>1, FilledRange, BlankFacts DEF Filled, Places
  <2> QED
    BY <2>1, <2>2
<1> QED
  BY <1>1 DEF PageCanTag, Untagged

(* Every page of sound flash is of its kind and used from its start.        *)
LEMMA Formation ==
    ASSUME NEW f, NEW w, FlashOK(f, w), NEW p \in Phys
    PROVE  /\ f[p] \in Page
           /\ \E n \in 1 .. Slots + 1 : Filled(f[p], n)
           /\ Untagged(f[p]) => Filled(f[p], 1)
           /\ Records(f[p]) = {i \in Places : Valid(f[p].slot[i])}
           /\ f[p].tag \in Tags
           /\ \A i \in Places : f[p].slot[i] \in Cell
<1>1. f[p] \in Page /\ (\E n \in 1 .. Slots + 1 : Filled(f[p], n)) /\ (Untagged(f[p]) => Filled(f[p], 1))
  BY DEF FlashOK, Formed
<1> QED
  BY <1>1, RecordsAre DEF Page

(* What a reset would find, as the properties of the model have it.         *)
LEMMA StoredIs ==
    ASSUME NEW w, FlashOK(flash, w)
    PROVE  Stored = StoredIn(flash)
<1>1. \A p \in Phys : Survives(p) <=> Alive(flash, p)
  BY Formation, CanTag DEF Survives, Alive
<1>2. \A d : d \in Stored <=> \E p \in Phys, i \in Places : Holds(flash, p, i) /\ flash[p].slot[i].data = d
  BY <1>1, Formation DEF Stored, Holds
<1> QED
  BY <1>2, StoredMember

(* Writing a tag. *)
LEMMA TagStagesAre ==
    ASSUME NEW p \in Page, NEW t \in {"swap", "data"},
           Untagged(p) \/ (p.tag = "swap" /\ t = "data")
    PROVE  /\ TagStages(p, t) \in Seq(Page) /\ Len(TagStages(p, t)) = 2
           /\ TagStages(p, t)[1] = IF Untagged(p) THEN [p EXCEPT !.tag = "magic"] ELSE p
           /\ TagStages(p, t)[2] = [p EXCEPT !.tag = t]
<1>1. [p EXCEPT !.tag = Program(@, IF @ = "magic" THEN @ ELSE "none", t)] = [p EXCEPT !.tag = t]
  BY DEF Program, Untagged
<1>2. (IF p.tag = "none" THEN [p EXCEPT !.tag = "magic"] ELSE p)
        = IF Untagged(p) THEN [p EXCEPT !.tag = "magic"] ELSE p
  <2>1. p.tag = "magic" => [p EXCEPT !.tag = "magic"] = p
    BY DEF Page
  <2> QED
    BY <2>1 DEF Untagged
<1>3. [p EXCEPT !.tag = t] \in Page /\ [p EXCEPT !.tag = "magic"] \in Page
  BY DEF Page, Tags
<1> QED
  BY <1>1, <1>2, <1>3 DEF TagStages

(* A tag is written in whole, as far as the magic word, or not at all.      *)
LEMMA TagWritten ==
    ASSUME NEW f \in [Phys -> Page], NEW a \in Phys, NEW t \in {"swap", "data"},
           Untagged(f[a]) \/ (f[a].tag = "swap" /\ t = "data"),
           NEW k \in 1 .. Len(TagStages(f[a], t))
    PROVE  LET g == [f EXCEPT ![a] = TagStages(f[a], t)[k]]
           IN \/ k = 2 /\ g = Tag(f, a, t)
              \/ k = 1 /\ Untagged(f[a]) /\ g = Tag(f, a, "magic")
              \/ k = 1 /\ g = f
<1>1. f[a] \in Page
  OBVIOUS
<1>2. k \in {1, 2}
  <2>1. Len(TagStages(f[a], t)) = 2
    BY <1>1, TagStagesAre
  <2> QED
    BY <2>1
<1>3. CASE k = 2
  BY <1>1, <1>3, TagStagesAre DEF Tag
<1>4. CASE k = 1 /\ Untagged(f[a])
  BY <1>1, <1>4, TagStagesAre DEF Tag
<1>5. CASE k = 1 /\ ~ Untagged(f[a])
  <2>1. TagStages(f[a], t)[k] = f[a]
    BY <1>1, <1>5, TagStagesAre
  <2> QED
    BY <1>5, <2>1
<1> QED
  BY <1>2, <1>3, <1>4, <1>5

(* The words of a record that is written. *)
Content(op, n) == [key |-> IF n > 0 THEN op.key ELSE "none", file |-> IF n > 3 THEN op.file ELSE NoFile,
                   id |-> IF n > 1 THEN op.id ELSE 0, data |-> IF n > 2 THEN op.data ELSE 0]

(* Each step of a write adds one group of words to what the earlier ones    *)
(* wrote.                                                                   *)
LEMMA WordsProgrammed ==
    ASSUME NEW p \in Page, NEW i \in Places, NEW op, op.key \in Keys, op.file \in Files,
           op.id \in Nat, op.data \in Nat
    PROVE  /\ p.slot[i] = Content(op, 0) => WithKey(p, i, op.key) = Put(p, i, Content(op, 1))
           /\ p.slot[i] = Content(op, 1) => WithId(p, i, op.id) = Put(p, i, Content(op, 2))
           /\ p.slot[i] = Content(op, 2) => WithData(p, i, op.data) = Put(p, i, Content(op, 3))
           /\ p.slot[i] = Content(op, 3) => WithFile(p, i, op.file) = Put(p, i, Content(op, 4))
<1>1. ASSUME p.slot[i] = Content(op, 0) PROVE WithKey(p, i, op.key) = Put(p, i, Content(op, 1))
  <2>1. [p.slot[i] EXCEPT !.key = Program(@, "none", op.key)] = Content(op, 1)
    BY <1>1 DEF Content, Program
  <2> QED
    BY <2>1 DEF WithKey, Put, Page
<1>2. ASSUME p.slot[i] = Content(op, 1) PROVE WithId(p, i, op.id) = Put(p, i, Content(op, 2))
  <2>1. [p.slot[i] EXCEPT !.id = ProgramId(@, op.id)] = Content(op, 2)
    BY <1>2 DEF Content, ProgramId
  <2> QED
    BY <2>1 DEF WithId, Put, Page
<1>3. ASSUME p.slot[i] = Content(op, 2) PROVE WithData(p, i, op.data) = Put(p, i, Content(op, 3))
  <2>1. [p.slot[i] EXCEPT !.data = ProgramId(@, op.data)] = Content(op, 3)
    BY <1>3 DEF Content, ProgramId
  <2> QED
    BY <2>1 DEF WithData, Put, Page
<1>4. ASSUME p.slot[i] = Content(op, 3) PROVE WithFile(p, i, op.file) = Put(p, i, Content(op, 4))
  <2>1. [p.slot[i] EXCEPT !.file = ProgramId(@, op.file)] = Content(op, 4)
    BY <1>4 DEF Content, ProgramId, NoFile
  <2> QED
    BY <2>1 DEF WithFile, Put, Page
<1> QED
  BY <1>1, <1>2, <1>3, <1>4

(* What a partly written record is: no record, until the last word is       *)
(* there.                                                                   *)
LEMMA ContentFacts ==
    ASSUME NEW op, op.key \in Keys, op.file \in Files, op.id \in Nat \ {0}, op.data \in Nat
    PROVE  /\ Content(op, 0) = Empty
           /\ \A n \in 1 .. 4 : Content(op, n) \in Cell /\ Content(op, n).key # "none"
           /\ \A n \in 0 .. 3 : ~ Valid(Content(op, n))
           /\ Valid(Content(op, 4)) /\ Content(op, 4).id = op.id /\ Content(op, 4).data = op.data
<1>1. Content(op, 0) = Empty
  BY DEF Content, Empty
<1>2. \A n \in 1 .. 4 : Content(op, n) \in Cell /\ Content(op, n).key # "none"
  BY ConstantFacts DEF Content, Cell, NoFile
<1>3. \A n \in 0 .. 3 : Content(op, n).file = NoFile
  BY DEF Content
<1>4. Content(op, 4).key = op.key /\ Content(op, 4).file = op.file
      /\ Content(op, 4).id = op.id /\ Content(op, 4).data = op.data
  BY DEF Content
<1> QED
  BY <1>1, <1>2, <1>3, <1>4, ConstantFacts DEF Valid, NoFile

Dirtied(c) == [c EXCEPT !.key = "dirty"]

(* A flagged record is one no longer.                                       *)
LEMMA DirtyFacts ==
    ASSUME NEW p \in Page, NEW i \in Places
    PROVE  /\ WithKey(p, i, "dirty") = Put(p, i, Dirtied(p.slot[i]))
           /\ Dirtied(p.slot[i]) \in Cell /\ ~ Valid(Dirtied(p.slot[i])) /\ Dirtied(p.slot[i]).key # "none"
<1>1. p.slot[i] \in Cell
  BY DEF Page
<1>2. [p.slot[i] EXCEPT !.key = Program(@, "none", "dirty")] = Dirtied(p.slot[i])
  BY DEF Dirtied, Program
<1>3. WithKey(p, i, "dirty") = Put(p, i, Dirtied(p.slot[i]))
  BY <1>2 DEF WithKey, Put, Page
<1>4. Dirtied(p.slot[i]) \in Cell /\ Dirtied(p.slot[i]).key = "dirty"
  BY <1>1 DEF Dirtied, Cell
<1> QED
  BY <1>3, <1>4 DEF Valid

-----------------------------------------------------------------------------
(* The scan of a boot.                                                      *)

(* The recursive function that scans the pages is what its equation says.   *)
LEMMA ScanDef ==
    /\ Scan[0] = ScanStart
    /\ \A n \in 0 .. DataPages : Scan[n + 1] = ScanPage(Scan[n], n)
<1> DEFINE Scans(f, n) == f = [k \in 0 .. n |-> IF k = 0 THEN ScanStart ELSE ScanPage(f[k - 1], k - 1)]
           N == DataPages + 1
           S == {n \in Nat : \E f : Scans(f, n)}
<1>1. 0 \in S
  <2> DEFINE f == [k \in 0 .. 0 |-> ScanStart]
  <2>1. \A k \in 0 .. 0 : k = 0
    OBVIOUS
  <2>2. f = [k \in 0 .. 0 |-> IF k = 0 THEN ScanStart ELSE ScanPage(f[k - 1], k - 1)]
    BY <2>1
  <2> HIDE DEF f
  <2> QED
    BY <2>2
<1>2. ASSUME NEW n \in Nat, n \in S PROVE n + 1 \in S
  <2>1. PICK f : Scans(f, n)
    BY <1>2
  <2> DEFINE g == [k \in 0 .. n + 1 |-> IF k \in 0 .. n THEN f[k] ELSE ScanPage(f[n], n)]
             h == [k \in 0 .. n + 1 |-> IF k = 0 THEN ScanStart ELSE ScanPage(g[k - 1], k - 1)]
  <2>2. \A k \in 0 .. n : f[k] = IF k = 0 THEN ScanStart ELSE ScanPage(f[k - 1], k - 1)
    <3> HIDE DEF g, h
    <3> QED
      BY <2>1
  <2>3. \A k \in 0 .. n : g[k] = f[k]
    BY <1>2
  <2>4. g[n + 1] = ScanPage(f[n], n)
    BY <1>2
  <2>5. \A k \in 0 .. n + 1 : g[k] = h[k]
    <3> SUFFICES ASSUME NEW k \in 0 .. n + 1 PROVE g[k] = h[k]
      OBVIOUS
    <3>1. h[k] = IF k = 0 THEN ScanStart ELSE ScanPage(g[k - 1], k - 1)
      <4> HIDE DEF g
      <4> QED
        OBVIOUS
    <3> HIDE DEF g, h
    <3>2. CASE k = 0
      BY <1>2, <2>2, <2>3, <3>1, <3>2
    <3>3. CASE k \in 1 .. n
      <4>1. k - 1 \in 0 .. n /\ k \in 0 .. n /\ k # 0
        BY <1>2, <3>3
      <4> QED
        BY <2>2, <2>3, <3>1, <4>1
    <3>4. CASE k = n + 1
      <4>1. k # 0 /\ k - 1 = n /\ n \in 0 .. n
        BY <1>2, <3>4
      <4> QED
        BY <2>3, <2>4, <3>1, <3>4, <4>1
    <3> QED
      BY <1>2, <3>2, <3>3, <3>4
  <2>6. g = h
    <3>1. g = [k \in 0 .. n + 1 |-> g[k]] /\ h = [k \in 0 .. n + 1 |-> h[k]]
      OBVIOUS
    <3> HIDE DEF g, h
    <3> QED
      BY <2>5, <3>1
  <2>7. Scans(g, n + 1)
    <3> HIDE DEF g
    <3> QED
      BY <2>6
  <2> HIDE DEF g, h, Scans
  <2> QED
    BY <1>2, <2>7
<1>3. Nat \subseteq S
  <2> HIDE DEF S
  <2> QED
    BY <1>1, <1>2, SetInduction
<1>4. PICK f : Scans(f, N)
  <2>1. N \in Nat
    BY ConstantFacts
  <2>2. N \in S
    <3> HIDE DEF S, N
    <3> QED
      BY <1>3, <2>1
  <2> HIDE DEF Scans, N
  <2> QED
    BY <2>2
<1>5. Scans(Scan, N)
  <2>1. Scan = CHOOSE g : Scans(g, N)
    BY DEF Scan
  <2> HIDE DEF Scans
  <2> QED
    BY <1>4, <2>1
<1>6. \A k \in 0 .. N : Scan[k] = IF k = 0 THEN ScanStart ELSE ScanPage(Scan[k - 1], k - 1)
  BY <1>5
<1>7. 0 \in 0 .. N
  BY ConstantFacts
<1>8. \A n \in 0 .. DataPages : n + 1 \in 0 .. N /\ n + 1 # 0 /\ (n + 1) - 1 = n
  BY ConstantFacts
<1> QED
  BY <1>6, <1>7, <1>8

PageInfo == [type : {"data", "erased"}, addr : Phys, offset : 1 .. Slots + 1,
             reserved : 0 .. Slots, open : Nat, canGc : BOOLEAN]
ScanInfo == [type : {"data", "erased", "undefined"}, addr : Phys \union {NoPage}, offset : 0 .. Slots + 1,
             reserved : 0 .. Slots, open : Nat, canGc : BOOLEAN]
ScanPages == [Index -> ScanInfo]
ScanOffset == 0 .. Slots + 1
Looks == {"erased", "data", "clean", "dirty"}

\* what RAM says of a page agrees with the page
Ready4(q) == \/ q.type = "data" /\ flash[q.addr].tag = "data"
             \/ q.type = "erased" /\ Untagged(flash[q.addr])
Sound(q) == q \in PageInfo /\ Filled(flash[q.addr], q.offset) /\ q.reserved = 0 /\ q.open = 0 /\ Ready4(q)

\* the elements of pp below n are the pages of A, each once
Lists(pp, n, A) ==
    /\ \A i \in Index : i < n => Sound(pp[i]) /\ pp[i].addr \in A
    /\ \A i, j \in Index : i < n /\ j < n /\ pp[i].addr = pp[j].addr => i = j
    /\ \A p \in A : \E i \in Index : i < n /\ pp[i].addr = p

Before(k) == {p \in Phys : p < k}

ScanTypes(s) ==
    /\ s \in [pages : ScanPages, next : Nat, swap : Phys \union {NoPage}, offset : ScanOffset,
              provisional : BOOLEAN, cur : Index, latest : Nat, seen : SUBSET Looks]
    /\ s.swap = NoPage => ~ s.provisional
    /\ s.swap # NoPage => s.offset \in 1 .. Slots + 1 /\ Filled(flash[s.swap], s.offset)
ScanPlaces(s, k) ==
    /\ s.swap = NoPage => s.next = k + 1
    /\ s.swap # NoPage => s.next = k /\ s.swap \in Before(k)
    /\ Lists(s.pages, s.next, Before(k) \ {s.swap})
ScanSwap(s, k) ==
    /\ s.swap = NoPage => \A p \in Before(k) : flash[p].tag = "data"
    /\ s.swap # NoPage => \/ flash[s.swap].tag = "swap"
                          \/ /\ Untagged(flash[s.swap]) /\ s.provisional /\ s.offset = 1
                             /\ \A p \in Before(k) : flash[p].tag # "swap"
ScanSeen(s, k) ==
    /\ "data" \in s.seen <=> \E p \in Before(k) : flash[p].tag = "data"
    /\ "erased" \in s.seen <=> \E p \in Before(k) : Untagged(flash[p])
    /\ "clean" \in s.seen <=> \E p \in Before(k) : flash[p].tag = "swap" /\ Filled(flash[p], 1)
    /\ "dirty" \in s.seen <=> \E p \in Before(k) : flash[p].tag = "swap" /\ ~ Filled(flash[p], 1)
    /\ "erased" \in s.seen /\ (\E p \in Before(k) : flash[p].tag = "swap") =>
          s.cur < s.next /\ s.pages[s.cur].type = "erased"
ScanLatest(s, k) == \A p \in Before(k), i \in Places :
    flash[p].tag \in {"data", "swap"} /\ Valid(flash[p].slot[i]) => flash[p].slot[i].id <= s.latest
ScanOK(s, k) == ScanTypes(s) /\ ScanPlaces(s, k) /\ ScanSwap(s, k) /\ ScanSeen(s, k) /\ ScanLatest(s, k)

(* Physical pages and the elements of the page table are numbers.           *)
LEMMA PhysFacts ==
    /\ \A p \in Phys : p \in Nat /\ p \in Int /\ p # NoPage /\ p <= DataPages
    /\ \A i \in Index : i \in Nat /\ i \in Int /\ 1 <= i /\ i <= DataPages
    /\ \A i \in Nat : 1 <= i /\ i <= DataPages => i \in Index
    /\ \A k \in Nat : k <= DataPages => k \in Phys
    /\ NoPage \notin Phys
    /\ DataPages \in Nat /\ 1 <= DataPages
BY ConstantFacts DEF Phys, Index, NoPage

(* The pages the scan has passed.                                           *)
LEMMA BeforeFacts ==
    /\ Before(0) = {}
    /\ \A k \in Phys : Before(k + 1) = Before(k) \union {k} /\ k \notin Before(k) /\ k + 1 # 0
    /\ Before(DataPages + 1) = Phys
    /\ \A k : Before(k) \subseteq Phys
BY PhysFacts DEF Before

\* a page as RAM knows it at first, and with an address
LEMMA NewPageFacts ==
    /\ NewPage \in [type : {"data"}, addr : {NoPage}, offset : {0}, reserved : {0}, open : {0}, canGc : BOOLEAN]
    /\ NewPage \in ScanInfo
    /\ PageInfo \subseteq ScanInfo
<1>1. NewPage \in [type : {"data"}, addr : {NoPage}, offset : {0}, reserved : {0}, open : {0}, canGc : BOOLEAN]
  BY DEF NewPage
<1>2. 0 \in 0 .. Slots + 1 /\ 0 \in 0 .. Slots
  BY ConstantFacts
<1>3. NewPage \in ScanInfo
  BY <1>1, <1>2 DEF ScanInfo
<1> DEFINE O == 1 .. Slots + 1
           P == 0 .. Slots + 1
           R == 0 .. Slots
<1>4. O \subseteq P
  OBVIOUS
<1>5. PageInfo \subseteq ScanInfo
  <2>1. PageInfo = [type : {"data", "erased"}, addr : Phys, offset : O, reserved : R, open : Nat, canGc : BOOLEAN]
    BY DEF PageInfo
  <2>2. ScanInfo = [type : {"data", "erased", "undefined"}, addr : Phys \union {NoPage}, offset : P, reserved : R,
                    open : Nat, canGc : BOOLEAN]
    BY DEF ScanInfo
  <2> HIDE DEF O, P, R
  <2> QED
    BY <1>4, <2>1, <2>2
<1> QED
  BY <1>1, <1>3, <1>5

(* The scan lists one page more.                                            *)
LEMMA ListGrows ==
    ASSUME NEW pp \in ScanPages, NEW n \in Index, NEW A \in SUBSET Phys, Lists(pp, n, A),
           NEW q, Sound(q), q.addr \notin A
    PROVE  /\ [pp EXCEPT ![n] = q] \in ScanPages
           /\ Lists([pp EXCEPT ![n] = q], n + 1, A \union {q.addr})
<1> DEFINE pq == [pp EXCEPT ![n] = q]
<1>1. q \in ScanInfo
  BY NewPageFacts DEF Sound
<1>2. pq \in ScanPages /\ pq[n] = q /\ \A i \in Index : i # n => pq[i] = pp[i]
  BY <1>1 DEF ScanPages
<1>3. \A i \in Index : i < n + 1 <=> i < n \/ i = n
  BY PhysFacts
<1>4. ~ (n < n)
  BY PhysFacts
<1> HIDE DEF pq
<1>5. \A i \in Index : i < n + 1 => Sound(pq[i]) /\ pq[i].addr \in A \union {q.addr}
  BY <1>2, <1>3 DEF Lists
<1>6. \A i, j \in Index : i < n + 1 /\ j < n + 1 /\ pq[i].addr = pq[j].addr => i = j
  BY <1>2, <1>3, <1>4 DEF Lists
<1>7. \A p \in A \union {q.addr} : \E i \in Index : i < n + 1 /\ pq[i].addr = p
  BY <1>2, <1>3, <1>4 DEF Lists
<1> QED
  BY <1>2, <1>5, <1>6, <1>7 DEF Lists, pq

\* finitely many slots, so the ids of a page have a bound
LEMMA IdsBounded ==
    ASSUME NEW p, \A i \in Places : p.slot[i].id \in Int
    PROVE  \E b \in Nat : \A i \in Places : p.slot[i].id <= b
<1> DEFINE S == {n \in Nat : \E b \in Nat : \A i \in Places : i <= n => p.slot[i].id <= b}
<1>1. \A i \in Places : p.slot[i].id \in Int
  OBVIOUS
<1>2. 0 \in S
  BY FilledRange DEF Places
<1>3. ASSUME NEW n \in Nat, n \in S PROVE n + 1 \in S
  <2>1. PICK b \in Nat : \A i \in Places : i <= n => p.slot[i].id <= b
    BY <1>3
  <2>2. CASE n + 1 \in Places
    <3> DEFINE d == IF p.slot[n + 1].id <= b THEN b ELSE p.slot[n + 1].id
    <3>1. d \in Nat /\ b <= d /\ p.slot[n + 1].id <= d
      <4>1. p.slot[n + 1].id \in Int
        BY <1>1, <2>2
      <4> QED
        BY <4>1
    <3> HIDE DEF d
    <3>2. ASSUME NEW i \in Places, i <= n + 1 PROVE p.slot[i].id <= d
      <4>1. CASE i = n + 1
        BY <3>1, <4>1
      <4>2. CASE i # n + 1
        <5>1. i <= n
          BY <3>2, <4>2, FilledRange
        <5>2. p.slot[i].id <= b /\ p.slot[i].id \in Int
          BY <1>1, <2>1, <5>1
        <5> QED
          BY <3>1, <5>2
      <4> QED
        BY <4>1, <4>2
    <3> QED
      BY <3>1, <3>2
  <2>3. CASE n + 1 \notin Places
    <3>1. \A i \in Places : i <= n + 1 => i <= n
      BY <2>3, FilledRange
    <3> QED
      BY <2>1, <3>1
  <2> QED
    BY <2>2, <2>3
<1>4. Slots \in S
  <2> HIDE DEF S
  <2> QED
    BY <1>2, <1>3, SetInduction, FilledRange
<1> QED
  BY <1>4, FilledRange

(* The latest record id of a scan is above those of the page it has just    *)
(* scanned.                                                                 *)
LEMMA LatestIs ==
    ASSUME NEW w, FlashOK(flash, w), NEW p \in Phys, NEW s, s.latest \in Nat
    PROVE  /\ LatestId(s, flash[p]) \in Nat /\ s.latest <= LatestId(s, flash[p])
           /\ \A i \in Places : Valid(flash[p].slot[i]) => flash[p].slot[i].id <= LatestId(s, flash[p])
<1> DEFINE S == {flash[p].slot[i].id : i \in Records(flash[p])} \union {s.latest}
<1>1. /\ Records(flash[p]) = {i \in Places : Valid(flash[p].slot[i])} /\ flash[p] \in Page
      /\ \A i \in Places : flash[p].slot[i].id \in Nat
  BY Formation DEF Cell
<1>2. S \in SUBSET Nat /\ S # {}
  BY <1>1
<1>3. PICK b \in Nat : \A i \in Places : flash[p].slot[i].id <= b
  BY <1>1, IdsBounded
<1>4. \A y \in S : y <= b + s.latest
  <2>1. \A i \in Places : flash[p].slot[i].id <= b + s.latest
    BY <1>1, <1>3
  <2>2. s.latest <= b + s.latest
    OBVIOUS
  <2> QED
    BY <1>1, <2>1, <2>2
<1>5. b + s.latest \in Nat
  OBVIOUS
<1>6. Max(S) \in S /\ \A y \in S : y <= Max(S)
  <2> HIDE DEF S
  <2> QED
    <3>1. S \in SUBSET Int /\ b + s.latest \in Int
      BY <1>2, <1>5
    <3> QED
      BY <1>2, <1>4, <3>1, MaxOf
<1>7. Max(S) = LatestId(s, flash[p])
  BY DEF LatestId
<1>8. Max(S) \in Nat /\ s.latest <= Max(S)
  BY <1>2, <1>6
<1>9. \A i \in Places : Valid(flash[p].slot[i]) => flash[p].slot[i].id <= Max(S)
  BY <1>1, <1>6
<1> QED
  BY <1>7, <1>8, <1>9

(* The scan starts with nothing seen.                                       *)
LEMMA ScanBegins == ScanOK(ScanStart, 0)
<1>1. ScanTypes(ScanStart)
  <2>1. NewPage \in ScanInfo
    BY NewPageFacts
  <2>2. [i \in Index |-> NewPage] \in ScanPages
    BY <2>1 DEF ScanPages
  <2>3. 0 \in ScanOffset /\ 1 \in Index
    BY ConstantFacts, PhysFacts DEF ScanOffset
  <2> QED
    BY <2>2, <2>3 DEF ScanTypes, ScanStart, Looks
<1>2. ScanPlaces(ScanStart, 0)
  BY BeforeFacts, PhysFacts DEF ScanPlaces, ScanStart, Lists
<1>3. ScanSwap(ScanStart, 0) /\ ScanSeen(ScanStart, 0) /\ ScanLatest(ScanStart, 0)
  BY BeforeFacts DEF ScanSwap, ScanSeen, ScanLatest, ScanStart
<1> QED
  BY <1>1, <1>2, <1>3 DEF ScanOK

\* while no swap page was met there is room for one more page
LEMMA RoomLeft ==
    ASSUME NEW w, FlashOK(flash, w), NEW k \in Phys, NEW s, ScanOK(s, k),
           s.swap # NoPage \/ flash[k].tag = "data"
    PROVE  s.next \in Index
<1>1. CASE s.swap # NoPage
  BY <1>1, PhysFacts DEF ScanOK, ScanPlaces, Before
<1>2. CASE s.swap = NoPage
  <2>1. s.next = k + 1 /\ \A p \in Before(k + 1) : flash[p].tag = "data"
    BY <1>2, BeforeFacts DEF ScanOK, ScanPlaces, ScanSwap
  <2>2. k # DataPages
    BY <2>1, BeforeFacts DEF FlashOK, SomeSpare
  <2> QED
    BY <2>1, <2>2, PhysFacts
<1> QED
  BY <1>1, <1>2

ScanRec == [pages : ScanPages, next : Nat, swap : Phys \union {NoPage}, offset : ScanOffset,
            provisional : BOOLEAN, cur : Index, latest : Nat, seen : SUBSET Looks]

(* What page_scan enters for an erased page.                                *)
LEMMA ErasedFacts ==
    ASSUME NEW a \in Phys
    PROVE  /\ Erased(a) \in PageInfo /\ Erased(a) \in ScanInfo
           /\ Erased(a).addr = a /\ Erased(a).type = "erased"
           /\ Untagged(flash[a]) /\ Filled(flash[a], 1) => Sound(Erased(a))
<1>1. Erased(a) \in [type : {"erased"}, addr : {a}, offset : {1}, reserved : {0}, open : {0}, canGc : BOOLEAN]
  BY NewPageFacts DEF Erased
<1>2. 1 \in 1 .. Slots + 1 /\ 0 \in 0 .. Slots
  BY ConstantFacts
<1>3. Erased(a) \in PageInfo
  BY <1>1, <1>2 DEF PageInfo
<1>4. Erased(a) \in ScanInfo
  BY <1>3, NewPageFacts
<1> QED
  BY <1>1, <1>3, <1>4 DEF Sound, Ready4

(* An erased page takes the next place of the page table.                   *)
LEMMA AddErasedFacts ==
    ASSUME NEW s \in ScanRec, s.next \in Index, NEW a \in Phys
    PROVE  /\ AddErased(s, a) \in ScanRec
           /\ AddErased(s, a).pages = [s.pages EXCEPT ![s.next] = Erased(a)]
           /\ AddErased(s, a).pages[s.next] = Erased(a)
           /\ AddErased(s, a).cur = s.next /\ AddErased(s, a).next = s.next + 1
           /\ AddErased(s, a).swap = s.swap /\ AddErased(s, a).offset = s.offset
           /\ AddErased(s, a).provisional = s.provisional
           /\ AddErased(s, a).latest = s.latest /\ AddErased(s, a).seen = s.seen
<1>1. s.pages \in ScanPages /\ s.next \in Nat
  BY DEF ScanRec
<1>2. /\ [s.pages EXCEPT ![s.next] = Erased(a)] \in ScanPages
      /\ [s.pages EXCEPT ![s.next] = Erased(a)][s.next] = Erased(a)
  BY <1>1, ErasedFacts DEF ScanPages
<1>3. AddErased(s, a) = [s EXCEPT !.pages = [s.pages EXCEPT ![s.next] = Erased(a)], !.cur = s.next, !.next = s.next + 1]
  BY DEF ScanRec, AddErased
<1>4. s.next + 1 \in Nat
  BY <1>1
<1> DEFINE pp == [s.pages EXCEPT ![s.next] = Erased(a)]
<1> HIDE DEF pp
<1> QED
  BY <1>1, <1>2, <1>3, <1>4 DEF ScanRec, pp

(* A scan that is of its types is of the record of them.                    *)
LEMMA ScanRecIs == \A s : ScanTypes(s) => s \in ScanRec
BY DEF ScanTypes, ScanRec

(* How page_identify tells the pages of sound flash apart.                  *)
LEMMA Kinds ==
    ASSUME NEW w, FlashOK(flash, w), NEW k \in Phys
    PROVE  /\ PageIdentify(flash[k]) = "undefined" <=> Untagged(flash[k])
           /\ PageIdentify(flash[k]) = "data" <=> flash[k].tag = "data"
           /\ PageCanTag(flash[k]) <=> Untagged(flash[k])
           /\ Untagged(flash[k]) \/ flash[k].tag = "data" \/ flash[k].tag = "swap"
BY Formation, CanTag DEF PageIdentify, Untagged, Tags

\* an erased page when there is a swap page already
LEMMA ScanErased ==
    ASSUME NEW w, FlashOK(flash, w), NEW k \in Phys, NEW s, ScanOK(s, k),
           Untagged(flash[k]), s.swap # NoPage
    PROVE  ScanOK(ScanPage(s, k), k + 1)
<1> DEFINE t == ScanPage(s, k)
<1>1. s \in ScanRec /\ s.next \in Index
  BY ScanRecIs, RoomLeft DEF ScanOK
<1>2. t = [AddErased(s, k) EXCEPT !.seen = @ \union {"erased"}]
  <2>1. PageIdentify(flash[k]) = "undefined" /\ PageCanTag(flash[k]) /\ PageIdentify(flash[k]) # "data"
    BY Kinds
  <2> QED
    BY <2>1 DEF ScanPage
<1>3. /\ t \in ScanRec /\ t.pages = [s.pages EXCEPT ![s.next] = Erased(k)] /\ t.pages[s.next] = Erased(k)
      /\ t.cur = s.next /\ t.next = s.next + 1 /\ t.swap = s.swap /\ t.offset = s.offset
      /\ t.provisional = s.provisional /\ t.latest = s.latest /\ t.seen = s.seen \union {"erased"}
  <2> DEFINE u == AddErased(s, k)
  <2>1. /\ u \in ScanRec /\ u.pages = [s.pages EXCEPT ![s.next] = Erased(k)] /\ u.pages[s.next] = Erased(k)
        /\ u.cur = s.next /\ u.next = s.next + 1 /\ u.swap = s.swap /\ u.offset = s.offset
        /\ u.provisional = s.provisional /\ u.latest = s.latest /\ u.seen = s.seen
    BY <1>1, AddErasedFacts
  <2> HIDE DEF t, u
  <2>2. u.seen \union {"erased"} \in SUBSET Looks
    BY <2>1 DEF ScanRec, Looks
  <2>3. t = [u EXCEPT !.seen = u.seen \union {"erased"}]
    BY <1>2 DEF u
  <2>4. /\ t \in ScanRec /\ t.pages = u.pages /\ t.cur = u.cur /\ t.next = u.next /\ t.swap = u.swap
        /\ t.offset = u.offset /\ t.provisional = u.provisional /\ t.latest = u.latest
        /\ t.seen = u.seen \union {"erased"}
    BY <2>1, <2>2, <2>3 DEF ScanRec
  <2> QED
    BY <2>1, <2>4
<1> HIDE DEF t
<1>4. ScanTypes(t)
  BY <1>3 DEF ScanOK, ScanTypes, ScanRec
<1>5. /\ Before(k + 1) = Before(k) \union {k} /\ k \notin Before(k) /\ Before(k) \subseteq Phys
      /\ s.next = k /\ s.swap \in Before(k) /\ s.swap # k
  BY BeforeFacts DEF ScanOK, ScanPlaces
<1>6. ScanPlaces(t, k + 1)
  <2>1. Lists(s.pages, s.next, Before(k) \ {s.swap}) /\ s.pages \in ScanPages
    BY <1>1 DEF ScanOK, ScanPlaces, ScanRec
  <2>2. Sound(Erased(k)) /\ Erased(k).addr = k
    BY Formation, ErasedFacts
  <2>3. Lists(t.pages, s.next + 1, (Before(k) \ {s.swap}) \union {k})
    BY <1>1, <1>3, <1>5, <2>1, <2>2, ListGrows
  <2>4. (Before(k) \ {s.swap}) \union {k} = Before(k + 1) \ {s.swap}
    BY <1>5
  <2> QED
    BY <1>3, <1>5, <2>3, <2>4 DEF ScanPlaces
<1>7. ScanSwap(t, k + 1)
  BY <1>3, <1>5 DEF ScanOK, ScanSwap, Untagged
<1>8. ScanSeen(t, k + 1)
  <2>1. t.cur < t.next /\ t.pages[t.cur].type = "erased"
    BY <1>1, <1>3, PhysFacts, ErasedFacts
  <2> QED
    BY <1>3, <1>5, <2>1 DEF ScanOK, ScanSeen, Untagged
<1>9. ScanLatest(t, k + 1)
  BY <1>3, <1>5 DEF ScanOK, ScanLatest, Untagged
<1> QED
  BY <1>4, <1>6, <1>7, <1>8, <1>9 DEF ScanOK, t

\* the first erased page, taken for the swap page
LEMMA ScanFirstErased ==
    ASSUME NEW w, FlashOK(flash, w), NEW k \in Phys, NEW s, ScanOK(s, k),
           Untagged(flash[k]), s.swap = NoPage
    PROVE  ScanOK(ScanPage(s, k), k + 1)
<1> DEFINE t == ScanPage(s, k)
<1>1. s \in ScanRec
  BY ScanRecIs DEF ScanOK
<1>2. t = [s EXCEPT !.swap = k, !.offset = 1, !.provisional = TRUE, !.seen = @ \union {"erased"}]
  <2>1. PageIdentify(flash[k]) = "undefined" /\ PageCanTag(flash[k]) /\ PageIdentify(flash[k]) # "data"
    BY Kinds
  <2> QED
    BY <2>1 DEF ScanPage
<1>3. /\ t \in ScanRec /\ t.pages = s.pages
      /\ t.cur = s.cur /\ t.next = s.next /\ t.swap = k /\ t.offset = 1
      /\ t.provisional = TRUE /\ t.latest = s.latest /\ t.seen = s.seen \union {"erased"}
  <2> HIDE DEF t
  <2>1. 1 \in ScanOffset
    BY ConstantFacts DEF ScanOffset
  <2>2. s.seen \union {"erased"} \in SUBSET Looks
    BY <1>1 DEF ScanRec, Looks
  <2> QED
    BY <1>1, <1>2, <2>1, <2>2 DEF ScanRec
<1> HIDE DEF t
<1>4. ScanTypes(t)
  BY <1>3, Formation, PhysFacts, ConstantFacts DEF ScanOK, ScanTypes, ScanRec
<1>5. /\ Before(k + 1) = Before(k) \union {k} /\ k \notin Before(k) /\ Before(k) \subseteq Phys
      /\ s.next = k + 1 /\ t.swap \in Before(k + 1)
      /\ \A p \in Before(k) : flash[p].tag = "data"
  BY <1>3, BeforeFacts DEF ScanOK, ScanPlaces, ScanSwap
<1>6. ScanPlaces(t, k + 1)
  <2>1. Before(k) \ {s.swap} = Before(k + 1) \ {k}
    BY <1>5, PhysFacts
  <2> QED
    BY <1>3, <1>5, <2>1, PhysFacts DEF ScanOK, ScanPlaces
<1>7. ScanSwap(t, k + 1)
  <2>1. k # NoPage
    BY PhysFacts
  <2>2. \A p \in Before(k + 1) : flash[p].tag # "swap"
    BY <1>5 DEF Untagged
  <2> QED
    BY <1>3, <2>1, <2>2 DEF ScanSwap
<1>8. ScanSeen(t, k + 1)
  BY <1>3, <1>5 DEF ScanOK, ScanSeen, Untagged
<1>9. ScanLatest(t, k + 1)
  BY <1>3, <1>5 DEF ScanOK, ScanLatest, Untagged
<1> QED
  BY <1>4, <1>6, <1>7, <1>8, <1>9 DEF ScanOK, t

\* a data page
LEMMA ScanData ==
    ASSUME NEW w, FlashOK(flash, w), NEW k \in Phys, NEW s, ScanOK(s, k), flash[k].tag = "data"
    PROVE  ScanOK(ScanPage(s, k), k + 1)
<1> DEFINE t == ScanPage(s, k)
           q == [NewPage EXCEPT !.addr = k, !.offset = WriteOffset(flash[k]),
                     !.canGc = \E i \in 1 .. WriteOffset(flash[k]) - 1 : ~ Valid(flash[k].slot[i])]
<1>1. s \in ScanRec /\ s.next \in Index
  BY ScanRecIs, RoomLeft DEF ScanOK
<1>2. t = [s EXCEPT !.pages[s.next] = q, !.next = @ + 1, !.latest = LatestId(s, flash[k]),
                    !.seen = @ \union {"data"}]
  <2>1. PageIdentify(flash[k]) = "data" /\ PageIdentify(flash[k]) # "undefined"
    BY Kinds
  <2> QED
    BY <2>1 DEF ScanPage
<1>3. Sound(q) /\ q.addr = k /\ q \in ScanInfo
  <2>1. PICK n \in 1 .. Slots + 1 : Filled(flash[k], n)
    BY Formation
  <2>2. WriteOffset(flash[k]) = n
    BY <2>1, Formation, OffsetIs
  <2>3. /\ q.addr = k /\ q.type = "data" /\ q.offset = n /\ q.reserved = 0 /\ q.open = 0
        /\ q \in PageInfo /\ q \in ScanInfo
    <3> DEFINE b == \E i \in 1 .. WriteOffset(flash[k]) - 1 : ~ Valid(flash[k].slot[i])
    <3>1. b \in BOOLEAN
      OBVIOUS
    <3>2. q = [NewPage EXCEPT !.addr = k, !.offset = n, !.canGc = b]
      BY <2>2
    <3> HIDE DEF q, b
    <3>3. q \in [type : {"data"}, addr : {k}, offset : {n}, reserved : {0}, open : {0}, canGc : BOOLEAN]
      BY <3>1, <3>2, NewPageFacts
    <3>4. 0 \in 0 .. Slots
      BY ConstantFacts
    <3>5. q \in PageInfo
      BY <3>3, <3>4 DEF PageInfo
    <3> QED
      BY <3>3, <3>5, NewPageFacts
  <2> HIDE DEF q
  <2> QED
    BY <2>1, <2>3 DEF Sound, Ready4
<1> HIDE DEF q
<1>4. /\ LatestId(s, flash[k]) \in Nat /\ s.latest <= LatestId(s, flash[k])
      /\ \A i \in Places : Valid(flash[k].slot[i]) => flash[k].slot[i].id <= LatestId(s, flash[k])
  BY <1>1, LatestIs DEF ScanRec
<1>5. /\ t \in ScanRec /\ t.pages = [s.pages EXCEPT ![s.next] = q]
      /\ t.cur = s.cur /\ t.next = s.next + 1 /\ t.swap = s.swap /\ t.offset = s.offset
      /\ t.provisional = s.provisional /\ t.latest = LatestId(s, flash[k]) /\ t.seen = s.seen \union {"data"}
  <2> HIDE DEF t
  <2>1. [s.pages EXCEPT ![s.next] = q] \in ScanPages
    BY <1>1, <1>3 DEF ScanRec, ScanPages
  <2>2. s.seen \union {"data"} \in SUBSET Looks
    BY <1>1 DEF ScanRec, Looks
  <2>3. s.next + 1 \in Nat
    BY <1>1 DEF ScanRec
  <2> DEFINE pp == [s.pages EXCEPT ![s.next] = q]
  <2>4. t = [s EXCEPT !.pages = pp, !.next = s.next + 1, !.latest = LatestId(s, flash[k]),
                      !.seen = s.seen \union {"data"}]
    BY <1>1, <1>2 DEF ScanRec
  <2> HIDE DEF pp
  <2> QED
    BY <1>1, <1>4, <2>1, <2>2, <2>3, <2>4 DEF ScanRec, pp
<1> HIDE DEF t
<1>6. ScanTypes(t)
  BY <1>5 DEF ScanOK, ScanTypes, ScanRec
<1>7. /\ Before(k + 1) = Before(k) \union {k} /\ k \notin Before(k) /\ Before(k) \subseteq Phys
      /\ s.swap # k /\ (s.swap # NoPage => s.swap \in Before(k))
      /\ s.next = IF s.swap = NoPage THEN k + 1 ELSE k
  BY BeforeFacts, PhysFacts DEF ScanOK, ScanPlaces
<1>8. ScanPlaces(t, k + 1)
  <2>1. Lists(s.pages, s.next, Before(k) \ {s.swap}) /\ s.pages \in ScanPages
    BY <1>1 DEF ScanOK, ScanPlaces, ScanRec
  <2>2. Lists(t.pages, s.next + 1, (Before(k) \ {s.swap}) \union {k})
    BY <1>1, <1>3, <1>5, <1>7, <2>1, ListGrows
  <2>3. (Before(k) \ {s.swap}) \union {k} = Before(k + 1) \ {s.swap}
    BY <1>7
  <2> QED
    BY <1>5, <1>7, <2>2, <2>3 DEF ScanPlaces
<1>9. ScanSwap(t, k + 1)
  BY <1>5, <1>7 DEF ScanOK, ScanSwap
<1>10. ScanSeen(t, k + 1)
  <2>1. "erased" \in t.seen /\ (\E p \in Before(k + 1) : flash[p].tag = "swap") =>
           t.cur < t.next /\ t.pages[t.cur].type = "erased"
    <3> SUFFICES ASSUME "erased" \in t.seen, \E p \in Before(k + 1) : flash[p].tag = "swap"
                 PROVE  t.cur < t.next /\ t.pages[t.cur].type = "erased"
      OBVIOUS
    <3>1. "erased" \in s.seen /\ \E p \in Before(k) : flash[p].tag = "swap"
      BY <1>5, <1>7
    <3>2. s.cur < s.next /\ s.pages[s.cur].type = "erased" /\ s.cur \in Index
      BY <1>1, <3>1 DEF ScanOK, ScanSeen, ScanRec
    <3>3. s.cur < s.next + 1 /\ s.cur # s.next
      BY <1>1, <3>2, PhysFacts
    <3> QED
      BY <1>1, <1>5, <3>2, <3>3 DEF ScanRec
  <2> QED
    BY <1>5, <1>7, <2>1 DEF ScanOK, ScanSeen, Untagged
<1>11. ScanLatest(t, k + 1)
  <2> SUFFICES ASSUME NEW p \in Before(k + 1), NEW i \in Places,
                      flash[p].tag \in {"data", "swap"}, Valid(flash[p].slot[i])
               PROVE  flash[p].slot[i].id <= t.latest
    BY DEF ScanLatest
  <2>1. CASE p = k
    BY <1>4, <1>5, <2>1
  <2>2. CASE p # k
    <3>1. flash[p].slot[i].id <= s.latest /\ p \in Phys
      BY <1>7, <2>2 DEF ScanOK, ScanLatest
    <3>2. flash[p].slot[i].id \in Nat /\ s.latest \in Nat
      BY <1>1, <3>1, Formation DEF Cell, ScanRec
    <3> QED
      BY <1>4, <1>5, <3>1, <3>2
  <2> QED
    BY <2>1, <2>2
<1> QED
  BY <1>6, <1>8, <1>9, <1>10, <1>11 DEF ScanOK, t

\* the swap page
LEMMA ScanSwapPage ==
    ASSUME NEW w, FlashOK(flash, w), NEW k \in Phys, NEW s, ScanOK(s, k), flash[k].tag = "swap"
    PROVE  ScanOK(ScanPage(s, k), k + 1)
<1> DEFINE t == ScanPage(s, k)
           u == IF s.provisional THEN AddErased(s, s.swap) ELSE s
           look == IF WriteOffset(flash[k]) = 1 THEN "clean" ELSE "dirty"
<1>1. s \in ScanRec
  BY ScanRecIs DEF ScanOK
<1>2. t = [u EXCEPT !.swap = k, !.offset = WriteOffset(flash[k]), !.latest = LatestId(s, flash[k]),
                    !.seen = @ \union {look}]
  <2>1. PageIdentify(flash[k]) # "data" /\ PageIdentify(flash[k]) # "undefined"
    BY Kinds DEF Untagged
  <2> QED
    BY <2>1 DEF ScanPage
<1>3. /\ Before(k + 1) = Before(k) \union {k} /\ k \notin Before(k) /\ Before(k) \subseteq Phys
      /\ k # NoPage /\ k \in Before(k + 1) /\ \A p \in Before(k) : flash[p].tag # "swap"
  BY BeforeFacts, PhysFacts DEF FlashOK, OneSwap
<1>4. /\ s.provisional <=> s.swap # NoPage
      /\ s.swap = NoPage => s.next = k + 1 /\ \A p \in Before(k) : flash[p].tag = "data"
      /\ s.swap # NoPage => s.swap \in Before(k) /\ Untagged(flash[s.swap]) /\ s.next = k
  BY <1>3 DEF ScanOK, ScanTypes, ScanPlaces, ScanSwap
<1>5. s.swap # NoPage => s.next \in Index /\ s.swap \in Phys
  BY <1>3, <1>4, RoomLeft
<1>6. /\ u \in ScanRec /\ u.next = k + 1 /\ u.latest = s.latest /\ u.seen = s.seen
      /\ s.swap = NoPage => u = s
      /\ s.swap # NoPage => /\ u.pages = [s.pages EXCEPT ![s.next] = Erased(s.swap)]
                            /\ u.pages[s.next] = Erased(s.swap) /\ u.cur = s.next
  <2>1. CASE s.swap = NoPage
    BY <1>1, <1>4, <2>1
  <2>2. CASE s.swap # NoPage
    <3>1. u = AddErased(s, s.swap)
      BY <1>4, <2>2
    <3> HIDE DEF u
    <3> QED
      BY <1>1, <1>4, <1>5, <2>2, <3>1, AddErasedFacts
  <2> QED
    BY <2>1, <2>2
<1> HIDE DEF u
<1>7. PICK n \in 1 .. Slots + 1 : Filled(flash[k], n) /\ WriteOffset(flash[k]) = n
  BY Formation, OffsetIs
<1>8. Filled(flash[k], 1) <=> n = 1
  <2>1. 1 \in 1 .. Slots + 1
    BY ConstantFacts
  <2> QED
    BY <1>7, <2>1, Formation, OffsetIs
<1>9. /\ LatestId(s, flash[k]) \in Nat /\ s.latest <= LatestId(s, flash[k])
      /\ \A i \in Places : Valid(flash[k].slot[i]) => flash[k].slot[i].id <= LatestId(s, flash[k])
  BY <1>1, LatestIs DEF ScanRec
<1>10. look = IF n = 1 THEN "clean" ELSE "dirty"
  BY <1>7
<1> HIDE DEF look
<1>11. /\ t \in ScanRec /\ t.pages = u.pages /\ t.cur = u.cur /\ t.next = k + 1 /\ t.swap = k /\ t.offset = n
       /\ t.latest = LatestId(s, flash[k]) /\ t.seen = s.seen \union {look}
  <2> HIDE DEF t
  <2>1. n \in ScanOffset
    BY <1>7, FilledRange DEF ScanOffset
  <2>2. u.seen \union {look} \in SUBSET Looks
    BY <1>6, <1>10 DEF ScanRec, Looks
  <2>3. t = [u EXCEPT !.swap = k, !.offset = n, !.latest = LatestId(s, flash[k]), !.seen = u.seen \union {look}]
    BY <1>2, <1>6, <1>7 DEF ScanRec
  <2> QED
    BY <1>6, <1>9, <2>1, <2>2, <2>3 DEF ScanRec
<1> HIDE DEF t
<1>12. ScanTypes(t)
  BY <1>3, <1>7, <1>11 DEF ScanTypes, ScanRec
<1>13. ScanPlaces(t, k + 1)
  <2>1. Lists(s.pages, s.next, Before(k) \ {s.swap}) /\ s.pages \in ScanPages
    BY <1>1 DEF ScanOK, ScanPlaces, ScanRec
  <2>2. Before(k + 1) \ {k} = Before(k)
    BY <1>3
  <2>3. Lists(u.pages, k + 1, Before(k))
    <3>1. CASE s.swap = NoPage
      <4>1. Before(k) \ {s.swap} = Before(k)
        BY <1>3, <3>1, PhysFacts
      <4> QED
        BY <1>4, <1>6, <2>1, <3>1, <4>1
    <3>2. CASE s.swap # NoPage
      <4>1. Sound(Erased(s.swap)) /\ Erased(s.swap).addr = s.swap
        BY <1>4, <1>5, <3>2, Formation, ErasedFacts
      <4>2. Lists(u.pages, s.next + 1, (Before(k) \ {s.swap}) \union {s.swap})
        BY <1>3, <1>5, <1>6, <2>1, <3>2, <4>1, ListGrows
      <4>3. (Before(k) \ {s.swap}) \union {s.swap} = Before(k)
        BY <1>4, <3>2
      <4> QED
        BY <1>4, <3>2, <4>2, <4>3
    <3> QED
      BY <3>1, <3>2
  <2> QED
    BY <1>3, <1>11, <2>2, <2>3 DEF ScanPlaces
<1>14. ScanSwap(t, k + 1)
  BY <1>3, <1>11 DEF ScanSwap
<1>15. ScanSeen(t, k + 1)
  <2>1. "erased" \in t.seen => t.cur < t.next /\ t.pages[t.cur].type = "erased"
    <3> SUFFICES ASSUME "erased" \in t.seen PROVE t.cur < t.next /\ t.pages[t.cur].type = "erased"
      OBVIOUS
    <3>1. "erased" \in s.seen
      BY <1>10, <1>11
    <3>2. s.swap # NoPage
      BY <1>4, <3>1 DEF ScanOK, ScanSeen, Untagged
    <3>3. t.cur = s.next /\ t.next = s.next + 1 /\ t.pages[t.cur] = Erased(s.swap)
      BY <1>4, <1>6, <1>11, <3>2
    <3> QED
      BY <1>5, <3>2, <3>3, PhysFacts, ErasedFacts
  <2>2. /\ "data" \in t.seen <=> "data" \in s.seen
        /\ "erased" \in t.seen <=> "erased" \in s.seen
        /\ "clean" \in t.seen <=> "clean" \in s.seen \/ n = 1
        /\ "dirty" \in t.seen <=> "dirty" \in s.seen \/ n # 1
    BY <1>10, <1>11
  <2> QED
    BY <1>3, <1>8, <2>1, <2>2 DEF ScanOK, ScanSeen, Untagged
<1>16. ScanLatest(t, k + 1)
  <2> SUFFICES ASSUME NEW p \in Before(k + 1), NEW i \in Places,
                      flash[p].tag \in {"data", "swap"}, Valid(flash[p].slot[i])
               PROVE  flash[p].slot[i].id <= t.latest
    BY DEF ScanLatest
  <2>1. CASE p = k
    BY <1>9, <1>11, <2>1
  <2>2. CASE p # k
    <3>1. flash[p].slot[i].id <= s.latest /\ p \in Phys
      BY <1>3, <2>2 DEF ScanOK, ScanLatest
    <3>2. flash[p].slot[i].id \in Nat /\ s.latest \in Nat
      BY <1>1, <3>1, Formation DEF Cell, ScanRec
    <3> QED
      BY <1>9, <1>11, <3>1, <3>2
  <2> QED
    BY <2>1, <2>2
<1> QED
  BY <1>12, <1>13, <1>14, <1>15, <1>16 DEF ScanOK, t

(* Every page of the flash has been given its role when the scan ends.      *)
LEMMA ScanEnds ==
    ASSUME NEW w, FlashOK(flash, w)
    PROVE  ScanOK(PagesInit, DataPages + 1)
<1> DEFINE S == {n \in Nat : n <= DataPages + 1 => ScanOK(Scan[n], n)}
<1>1. 0 \in S
  BY ScanDef, ScanBegins
<1>2. ASSUME NEW n \in Nat, n \in S PROVE n + 1 \in S
  <2> SUFFICES ASSUME n + 1 <= DataPages + 1 PROVE ScanOK(Scan[n + 1], n + 1)
    OBVIOUS
  <2>1. n \in Phys /\ n <= DataPages + 1 /\ n \in 0 .. DataPages
    BY PhysFacts
  <2>2. ScanOK(Scan[n], n)
    BY <1>2, <2>1
  <2>3. Scan[n + 1] = ScanPage(Scan[n], n)
    BY <2>1, ScanDef
  <2>4. Untagged(flash[n]) \/ flash[n].tag = "data" \/ flash[n].tag = "swap"
    BY <2>1, Kinds
  <2>5. ScanOK(ScanPage(Scan[n], n), n + 1)
    BY <2>1, <2>2, <2>4, ScanErased, ScanFirstErased, ScanData, ScanSwapPage
  <2> QED
    BY <2>3, <2>5
<1>3. DataPages + 1 \in S
  <2>1. DataPages + 1 \in Nat
    BY ConstantFacts
  <2> HIDE DEF S
  <2> QED
    BY <1>1, <1>2, <2>1, SetInduction
<1> QED
  BY <1>3, ConstantFacts DEF PagesInit

-----------------------------------------------------------------------------
(* The inductive invariant.                                                 *)

\* The invariant is about runs in which no flash operation has been given up.
\* It is stated in parts: what the flash holds, the roles of the pages, the
\* queue, and what each operation has done so far.
Flying == flashing # NoFlash
OnPage(i) == flash[pages[i].addr]
OnSwap == flash[swap.addr]

PageList == [Index -> PageInfo]
SwapInfo == [addr : Phys, offset : 1 .. Slots + 1]
Roles ==
    /\ pages \in PageList /\ swap \in SwapInfo
    /\ \A i, j \in Index : pages[i].addr = pages[j].addr => i = j
    /\ \A i \in Index : pages[i].addr # swap.addr
    /\ \A p \in Phys : p = swap.addr \/ \E i \in Index : pages[i].addr = p

\* An operation is being executed, or its users are told, or there is none.
Working == queue # <<>> /\ \/ hand = "run" /\ ~ Flying
                           \/ hand = "idle" /\ Flying
Telling == queue # <<>> /\ hand = "event" /\ ~ Flying
Resting == queue = <<>> /\ hand = "idle" /\ ~ Flying

\* Operations, in the queue and at its head.
IsWriteOp(op) == op.code \in {"write", "update"}
Codes == {"init", "write", "update", "delete", "delete file", "gc"}
Steps == {"none", "begin", "find", "id", "data", "finalize", "flag", "done",
          "tag swap", "tag data", "erase swap", "promote swap"}
OpType == [code : Codes, step : Steps, page : 0 .. DataPages, id : Nat, data : Nat,
           file : Files \union {NoFile}, key : Keys \union {"none"}, target : Nat \union {-1}]
OpOK(op) ==
    /\ IsWriteOp(op) => /\ op.page \in Index /\ op.file \in Files /\ op.key \in Keys
                        /\ op.id \in 1 .. latest /\ op.data \in 1 .. writes
    /\ op.code = "write" => op.step \in {"begin", "id", "data", "finalize", "done"}
    /\ op.code = "update" => op.step \in {"find", "id", "data", "finalize", "flag", "done"}
    /\ op.code = "delete" => op.step \in {"flag", "done"}
    /\ op.code = "delete file" => op.step = "flag"
Waits(op) ==
    /\ op.code # "init"
    /\ op.code = "write" => op.step = "begin"
    /\ op.code = "update" => op.step = "find"
    /\ op.code = "delete" => op.step = "flag"
QueueOK ==
    /\ latest \in Nat /\ writes \in Nat
    /\ queue \in Seq(OpType) /\ Len(queue) <= QueueSize
    /\ \A k \in 1 .. Len(queue) : OpOK(queue[k]) /\ (k > 1 => Waits(queue[k]))
    /\ \A k, l \in 1 .. Len(queue) :
        /\ IsWriteOp(queue[k]) /\ IsWriteOp(queue[l])
        /\ queue[k].id = queue[l].id \/ queue[k].data = queue[l].data
        => k = l

\* How many of the four groups of words of the record are in flash.
Writing == Working /\ IsWriteOp(Op)
FlagsOld == Flying /\ Op.code = "update" /\ Op.step = "done"
Groups == [begin |-> 0, find |-> 0, id |-> 1, data |-> 2, finalize |-> 3, flag |-> 4, done |-> 4]
Level == IF Flying /\ ~ FlagsOld THEN Groups[Op.step] - 1 ELSE Groups[Op.step]
OldThere ==
    /\ old.page \in Index /\ old.addr = pages[old.page].addr /\ old.slot \in Places
    /\ Valid(flash[old.addr].slot[old.slot]) /\ flash[old.addr].slot[old.slot].id = Op.target
    /\ Op.target # Op.id
WritingOK == Writing =>
    /\ OnPage(Op.page).slot[WriteSlot] = Content(Op, Level)
    /\ Flying => Op.step \notin {"begin", "find"}
    /\ Flying /\ ~ FlagsOld => flashing =
          [addr |-> WriteAddr, stages |-> <<Put(OnPage(Op.page), WriteSlot, Content(Op, Level + 1))>>]
    /\ FlagsOld => flashing =
          [addr |-> old.addr, stages |-> <<WithKey(flash[old.addr], old.slot, "dirty")>>]
    /\ Op.code = "update" /\ (Op.step \in {"id", "data", "finalize", "flag"} \/ FlagsOld) => OldThere

\* Ids and data are handed out once; those of a record that is not complete yet
\* are on no other record.
Uncommitted(k) == IsWriteOp(queue[k]) /\ (k = 1 => Working /\ Level < 4)
NumbersOK ==
    /\ IdsIn(flash) \subseteq 1 .. latest
    /\ \A k \in 1 .. Len(queue) : Uncommitted(k) =>
          queue[k].id \notin IdsIn(flash) /\ queue[k].data \notin StoredIn(flash)

\* Each queued write has its space reserved on its page.
WritesOn(i) == {queue[k].id : k \in {l \in 1 .. Len(queue) :
                   IsWriteOp(queue[l]) /\ queue[l].page = i /\ (l = 1 => ~ Telling)}}
SpaceOK == \A i \in Index :
    /\ Cardinality(WritesOn(i)) <= pages[i].reserved
    /\ pages[i].offset + pages[i].reserved <= Slots + 1

\* The write offset in RAM is where the page is still erased.
AllData == \A i \in Index : OnPage(i).tag = "data"
CleanSwap == OnSwap.tag = "swap" /\ Filled(OnSwap, 1) /\ swap.offset = 1
Upto(i) == IF Writing /\ Op.page = i /\ Level > 0 THEN pages[i].offset + 1 ELSE pages[i].offset
GcWorks == Working /\ Op.code = "gc"
GcErased(i) == GcWorks /\ gc.state = "erase" /\ ~ Flying /\ i = gc.cur
OffsetsOK == \A i \in Index : GcErased(i) \/ Filled(OnPage(i), Upto(i))

\* Deleting.
Deleting == Working /\ Op.code \in {"delete", "delete file"}
DeletingOK == Deleting /\ Flying =>
    \E i \in Index, j \in Places :
        /\ flashing = [addr |-> pages[i].addr, stages |-> <<WithKey(OnPage(i), j, "dirty")>>]
        /\ Valid(OnPage(i).slot[j])
        /\ Op.code = "delete" => Op.step = "done" /\ OnPage(i).slot[j].id = Op.target
        /\ Op.code = "delete file" => OnPage(i).slot[j].file = Op.file
TokOK == tok = TokStart \/ /\ Working /\ Op.code = "delete file"
                           /\ tok.page \in Index /\ tok.addr = pages[tok.page].addr
                           /\ tok.slot \in Places

\* Collecting.
GcInfo == [state : {"begin", "copy", "erase", "promote", "discard", "tag"}, cur : Index,
           src : 0 .. Slots, todo : SUBSET Index, resume : {FALSE}]
\* which of the valid records among the first b slots of page c
\* are on the swap page, in its first n - 1 slots.
CopiedUpTo(c, b, n) ==
    /\ Filled(OnSwap, n) /\ n <= b + 1
    /\ \A j \in Places : j <= b /\ Valid(OnPage(c).slot[j]) =>
          \E m \in Places : m < n /\ OnSwap.slot[m] = OnPage(c).slot[j]
    /\ \A m \in Places : m < n =>
          \E j \in Places : j <= b /\ Valid(OnPage(c).slot[j]) /\ OnSwap.slot[m] = OnPage(c).slot[j]
    /\ \A m, l \in Places : m < n /\ l < n /\ OnSwap.slot[m].id = OnSwap.slot[l].id => m = l
GcCopying ==
    /\ gc.state = "copy" /\ AllData /\ OnSwap.tag = "swap"
    /\ gc.src \in Places /\ Valid(OnPage(gc.cur).slot[gc.src])
    /\ Flying => /\ flashing = [addr |-> swap.addr,
                                stages |-> CopyStages(OnSwap, swap.offset, OnPage(gc.cur).slot[gc.src])]
                 /\ CopiedUpTo(gc.cur, gc.src - 1, swap.offset)
    /\ ~ Flying => swap.offset <= Slots /\ CopiedUpTo(gc.cur, gc.src, swap.offset + 1)
GcErasing ==
    /\ gc.state = "erase" /\ OnSwap.tag = "swap" /\ Filled(OnSwap, swap.offset)
    /\ swap.offset <= pages[gc.cur].offset
    /\ \A i \in Index \ {gc.cur} : OnPage(i).tag = "data"
    /\ Flying => /\ flashing = [addr |-> pages[gc.cur].addr, stages |-> <<Blank>>]
                 /\ AllData /\ CopiedUpTo(gc.cur, Slots, swap.offset)
    /\ ~ Flying => OnPage(gc.cur) = Blank
GcPromoting ==
    /\ gc.state = "promote" /\ OnSwap = Blank /\ swap.offset = 1
    /\ \A i \in Index \ {gc.cur} : OnPage(i).tag = "data"
    /\ Flying => /\ flashing = [addr |-> pages[gc.cur].addr, stages |-> TagStages(OnPage(gc.cur), "data")]
                 /\ OnPage(gc.cur).tag = "swap"
    /\ ~ Flying => AllData
GcDiscarding ==
    /\ gc.state = "discard" /\ AllData /\ swap.offset = 1
    /\ Flying => OnSwap.tag = "swap" /\ flashing = [addr |-> swap.addr, stages |-> <<Blank>>]
    /\ ~ Flying => OnSwap = Blank
GcTagging ==
    /\ gc.state = "tag" /\ AllData /\ gc.src = 0
    /\ Flying => /\ OnSwap = Blank /\ swap.offset = 1
                 /\ flashing = [addr |-> swap.addr, stages |-> TagStages(OnSwap, "swap")]
    /\ ~ Flying => CleanSwap
GcRuns == GcCopying \/ GcErasing \/ GcPromoting \/ GcDiscarding \/ GcTagging
GcOK ==
    /\ gc \in GcInfo
    /\ GcWorks /\ gc.state # "begin" => GcRuns
    /\ ~ (GcWorks /\ gc.state # "begin") =>
          /\ gc.state = "begin" /\ gc.src = 0
          /\ GcWorks => ~ Flying
          /\ phase = "initialized" => AllData /\ CleanSwap

\* Installing: the steps of the operation, at rest and in flash.
Tagged(i) == Ready4(pages[i])
InstallFresh == swap.offset = 1 /\ Untagged(OnSwap) /\ Filled(OnSwap, 1)
InstallErases ==
    /\ Op.step = "tag swap" /\ Flying /\ flashing = [addr |-> swap.addr, stages |-> <<Blank>>]
    /\ AllData /\ OnSwap.tag = "swap" /\ swap.offset = 1
    /\ \A i \in Index : Tagged(i)
InstallPromotes ==
    /\ Op.step = "tag swap" /\ Flying /\ InstallFresh
    /\ \E i \in Index :
         /\ flashing = [addr |-> pages[i].addr, stages |-> TagStages(OnPage(i), "data")]
         /\ pages[i].type = "data" /\ OnPage(i).tag = "swap"
         /\ \A j \in Index \ {i} : Tagged(j)
InstallTagsSwap ==
    /\ Op.step = "tag data" /\ Flying /\ InstallFresh
    /\ flashing = [addr |-> swap.addr, stages |-> TagStages(OnSwap, "swap")]
    /\ \A i \in Index : Tagged(i)
InstallTagsData ==
    /\ Op.step = "tag data" /\ Flying /\ CleanSwap
    /\ \E i \in Index :
         /\ flashing = [addr |-> pages[i].addr, stages |-> TagStages(OnPage(i), "data")]
         /\ pages[i].type = "data" /\ Untagged(OnPage(i))
         /\ \A j \in Index \ {i} : Tagged(j)
InstallWaits ==
    /\ ~ Flying /\ \A i \in Index : Tagged(i)
    /\ \/ Op.step = "tag swap" /\ InstallFresh
       \/ Op.step = "tag data" /\ CleanSwap
       \/ Op.step = "erase swap" /\ AllData /\ OnSwap.tag = "swap"
       \/ /\ Op.step = "promote swap" /\ OnSwap.tag = "swap" /\ Filled(OnSwap, swap.offset)
          /\ pages[gc.cur].type = "erased"
InstallOK ==
    /\ Working /\ Len(queue) = 1 /\ Op.code = "init" /\ opened = NoDesc
    /\ \A i \in Index : Filled(OnPage(i), pages[i].offset) /\ pages[i].reserved = 0
    /\ InstallErases \/ InstallPromotes \/ InstallTagsSwap \/ InstallTagsData \/ InstallWaits
InitializedOK ==
    /\ Working \/ Telling \/ Resting
    /\ queue # <<>> /\ Op.code = "init" => Telling
    /\ \A i \in Index : pages[i].type = "data"
    /\ OffsetsOK
OffOK ==
    /\ Resting /\ writes \in Nat
    /\ pages = NoPages /\ swap = NoSwap /\ gc = GcIdle
    /\ latest = 0 /\ tok = TokStart /\ opened = NoDesc

OnOK == Roles /\ QueueOK /\ NumbersOK /\ SpaceOK /\ WritingOK /\ DeletingOK /\ TokOK /\ GcOK
ModeOK ==
    /\ result = "success" \/ hand = "event"
    /\ phase \in {"off", "installing", "initialized"}
    /\ phase = "off" => OffOK
    /\ phase = "installing" => InstallOK
    /\ phase = "initialized" => InitializedOK
Good == FlashOK(flash, writes) /\ ModeOK /\ (phase # "off" => OnOK)
IInv == timeouts \in Nat /\ (timeouts = 0 => Good)

-----------------------------------------------------------------------------

(* The operation at the head of a queue that is not empty.                  *)
LEMMA OpFacts ==
    ASSUME QueueOK, queue # <<>>
    PROVE  /\ Op = queue[1] /\ Op \in OpType /\ OpOK(Op) /\ 1 \in 1 .. Len(queue)
           /\ Len(queue) \in Nat /\ 1 <= Len(queue)
<1>1. queue \in Seq(OpType) /\ \A k \in 1 .. Len(queue) : OpOK(queue[k])
  BY DEF QueueOK
<1>2. Len(queue) \in Nat /\ 1 <= Len(queue) /\ queue[1] \in OpType /\ Head(queue) = queue[1]
  BY <1>1
<1> QED
  BY <1>1, <1>2 DEF Op

(* What holds when queue_process runs.                                      *)
LEMMA RunFacts ==
    ASSUME Good, hand = "run"
    PROVE  /\ Working /\ ~ Flying /\ result = "success" /\ OnOK /\ FlashOK(flash, writes)
           /\ Roles /\ QueueOK /\ NumbersOK /\ SpaceOK /\ WritingOK /\ DeletingOK /\ TokOK /\ GcOK
           /\ phase = "installing" <=> Op.code = "init"
           /\ phase = "initialized" <=> Op.code # "init"
           /\ Op.code = "init" => InstallOK
           /\ Op.code # "init" => InitializedOK
           /\ queue # <<>> /\ Proceeds
<1>1. phase # "off"
  BY DEF Good, ModeOK, OffOK, Resting
<1>2. phase = "installing" \/ phase = "initialized"
  BY <1>1 DEF Good, ModeOK
<1>3. result = "success"
  BY DEF Good, ModeOK
<1>4. phase = "installing" => Working /\ Op.code = "init" /\ InstallOK
  BY DEF Good, ModeOK, InstallOK
<1>5. phase = "initialized" => Working /\ Op.code # "init" /\ InitializedOK
  BY DEF Good, ModeOK, InitializedOK, Telling, Resting, Working
<1>6. Working
  BY <1>2, <1>4, <1>5
<1> QED
  BY <1>1, <1>2, <1>3, <1>4, <1>5, <1>6 DEF Good, OnOK, Working, Proceeds

(* The page table and the swap page, one by one.                            *)
LEMMA RolesFacts ==
    ASSUME Roles
    PROVE  /\ \A i \in Index : /\ pages[i] \in PageInfo /\ pages[i].addr \in Phys
                               /\ pages[i].offset \in 1 .. Slots + 1 /\ pages[i].offset \in Nat
                               /\ pages[i].reserved \in 0 .. Slots /\ pages[i].reserved \in Nat
                               /\ pages[i].open \in Nat /\ pages[i].canGc \in BOOLEAN
                               /\ pages[i].addr # swap.addr
           /\ swap.addr \in Phys /\ swap.offset \in 1 .. Slots + 1 /\ swap.offset \in Nat
<1>1. \A i \in Index : pages[i] \in PageInfo /\ pages[i].addr # swap.addr
  BY DEF Roles, PageList
<1>2. swap \in SwapInfo
  BY DEF Roles
<1>3. (\A n \in 1 .. Slots + 1 : n \in Nat) /\ (\A n \in 0 .. Slots : n \in Nat)
  BY ConstantFacts
<1> DEFINE O == 1 .. Slots + 1
           R == 0 .. Slots
<1>4. PageInfo = [type : {"data", "erased"}, addr : Phys, offset : O, reserved : R, open : Nat, canGc : BOOLEAN]
  BY DEF PageInfo
<1>5. SwapInfo = [addr : Phys, offset : O]
  BY DEF SwapInfo
<1>6. (\A n \in O : n \in Nat) /\ (\A n \in R : n \in Nat)
  BY <1>3
<1> HIDE DEF O, R
<1>7. \A i \in Index : /\ pages[i].addr \in Phys /\ pages[i].offset \in O /\ pages[i].reserved \in R
                       /\ pages[i].open \in Nat /\ pages[i].canGc \in BOOLEAN
  BY <1>1, <1>4
<1>8. swap.addr \in Phys /\ swap.offset \in O
  BY <1>2, <1>5
<1> QED
  BY <1>1, <1>6, <1>7, <1>8 DEF O, R

(* What a step of the operation at the head leaves of the queue.            *)
HeadKeeps ==
    /\ queue' \in Seq(OpType) /\ Len(queue') = Len(queue) /\ queue' # <<>>
    /\ \A k \in 1 .. Len(queue) : k # 1 => queue'[k] = queue[k]
    /\ queue'[1].code = queue[1].code /\ queue'[1].page = queue[1].page /\ queue'[1].id = queue[1].id
    /\ queue'[1].data = queue[1].data /\ queue'[1].key = queue[1].key /\ queue'[1].target = queue[1].target
    /\ Op' = queue'[1]

(* Setting the step of the head leaves the rest of the queue alone.         *)
LEMMA StepSet ==
    ASSUME QueueOK, queue # <<>>, NEW st \in Steps, SetStep(st)
    PROVE  HeadKeeps /\ queue'[1].step = st /\ queue'[1].file = queue[1].file
<1>1. queue \in Seq(OpType) /\ 1 \in 1 .. Len(queue) /\ queue[1] \in OpType
  BY OpFacts DEF QueueOK
<1> DEFINE b == [queue[1] EXCEPT !.step = st]
<1>2. b \in OpType /\ b.step = st /\ b.code = queue[1].code /\ b.page = queue[1].page /\ b.id = queue[1].id
      /\ b.data = queue[1].data /\ b.file = queue[1].file /\ b.key = queue[1].key
      /\ b.target = queue[1].target
  <2> DEFINE P == 0 .. DataPages
  <2>1. OpType = [code : Codes, step : Steps, page : P, id : Nat, data : Nat,
                  file : Files \union {NoFile}, key : Keys \union {"none"}, target : Nat \union {-1}]
    BY DEF OpType
  <2> HIDE DEF P
  <2> QED
    BY <1>1, <2>1
<1>3. queue' = [queue EXCEPT ![1] = b]
  BY DEF SetStep
<1> HIDE DEF b
<1>4. queue' \in Seq(OpType) /\ Len(queue') = Len(queue) /\ queue'[1] = b
      /\ \A k \in 1 .. Len(queue) : k # 1 => queue'[k] = queue[k]
  BY <1>1, <1>2, <1>3
<1>5. queue' # <<>> /\ Head(queue') = queue'[1]
  BY <1>1, <1>4
<1> QED
  BY <1>2, <1>4, <1>5 DEF HeadKeeps, Op

(* So does leaving the queue alone.                                         *)
LEMMA SameHead ==
    ASSUME QueueOK, queue # <<>>, queue' = queue
    PROVE  HeadKeeps
BY OpFacts DEF HeadKeeps, QueueOK, Op

\* nothing of the pages changes in RAM that the flash or the queue depends on
PagesKeep ==
    /\ pages' \in PageList
    /\ \A i \in Index : /\ pages'[i].addr = pages[i].addr /\ pages'[i].offset = pages[i].offset
                        /\ pages'[i].reserved = pages[i].reserved /\ pages'[i].type = pages[i].type

(* A page table that is left alone keeps its places and spaces.             *)
LEMMA SamePages == ASSUME Roles, pages' = pages PROVE PagesKeep
BY DEF PagesKeep, Roles

(* So does one in which a page may now be collected.                        *)
LEMMA CanGcSet ==
    ASSUME Roles, NEW i \in Index, pages' = [pages EXCEPT ![i].canGc = TRUE]
    PROVE  PagesKeep
<1> DEFINE q == [pages[i] EXCEPT !.canGc = TRUE]
<1>1. pages[i] \in PageInfo /\ pages \in PageList
  BY DEF Roles, PageList
<1>2. q \in PageInfo /\ q.addr = pages[i].addr /\ q.offset = pages[i].offset
      /\ q.reserved = pages[i].reserved /\ q.type = pages[i].type
  <2> DEFINE O == 1 .. Slots + 1
             R == 0 .. Slots
  <2>1. PageInfo = [type : {"data", "erased"}, addr : Phys, offset : O, reserved : R, open : Nat, canGc : BOOLEAN]
    BY DEF PageInfo
  <2> HIDE DEF O, R
  <2> QED
    BY <1>1, <2>1
<1>3. pages' = [pages EXCEPT ![i] = q]
  BY DEF PageList
<1> HIDE DEF q
<1> QED
  BY <1>1, <1>2, <1>3 DEF PagesKeep, PageList

(* What depends on the places of the pages and on the flash stays.          *)
LEMMA KeepFacts ==
    ASSUME Roles, PagesKeep, swap' = swap, flash' = flash
    PROVE  /\ Roles' /\ (AllData' <=> AllData) /\ (CleanSwap' <=> CleanSwap)
           /\ \A i \in Index : OnPage(i)' = OnPage(i)
           /\ OnSwap' = OnSwap
<1>1. \A i \in Index : OnPage(i)' = OnPage(i)
  BY DEF PagesKeep, OnPage
<1>2. OnSwap' = OnSwap
  BY DEF OnSwap
<1>3. Roles'
  BY DEF Roles, PagesKeep
<1>4. AllData' <=> AllData
  BY <1>1 DEF AllData
<1>5. CleanSwap' <=> CleanSwap
  BY <1>2 DEF CleanSwap
<1> QED
  BY <1>1, <1>2, <1>3, <1>4, <1>5

(* The queue stays in order when its head takes a step.                     *)
LEMMA HeadQueueOK ==
    ASSUME QueueOK, queue # <<>>, HeadKeeps, UNCHANGED <<latest, writes>>, OpOK(queue[1])'
    PROVE  QueueOK'
<1>1. /\ queue \in Seq(OpType) /\ Len(queue) <= QueueSize /\ Len(queue) \in Nat
      /\ queue' \in Seq(OpType) /\ Len(queue') = Len(queue)
      /\ \A k \in 1 .. Len(queue) : k # 1 => queue'[k] = queue[k]
  BY OpFacts DEF QueueOK, HeadKeeps
<1>2. \A k \in 1 .. Len(queue) : /\ queue'[k].code = queue[k].code /\ queue'[k].id = queue[k].id
                                 /\ queue'[k].data = queue[k].data
  BY <1>1 DEF HeadKeeps
<1>3. \A k \in 1 .. Len(queue) : OpOK(queue[k])' /\ (k > 1 => Waits(queue[k])')
  <2> SUFFICES ASSUME NEW k \in 1 .. Len(queue) PROVE OpOK(queue[k])' /\ (k > 1 => Waits(queue[k])')
    OBVIOUS
  <2>1. CASE k = 1
    BY <2>1
  <2>2. CASE k # 1
    <3>1. queue'[k] = queue[k] /\ OpOK(queue[k]) /\ (k > 1 => Waits(queue[k]))
      BY <1>1, <2>2 DEF QueueOK
    <3> QED
      BY <3>1 DEF OpOK, Waits
  <2> QED
    BY <2>1, <2>2
<1>4. \A k, l \in 1 .. Len(queue) :
        /\ IsWriteOp(queue'[k]) /\ IsWriteOp(queue'[l])
        /\ queue'[k].id = queue'[l].id \/ queue'[k].data = queue'[l].data
        => k = l
  BY <1>2 DEF QueueOK, IsWriteOp
<1> QED
  BY <1>1, <1>3, <1>4 DEF QueueOK

(* Ids and data stay unused when the head takes a step.                     *)
LEMMA HeadNumbersOK ==
    ASSUME QueueOK, NumbersOK, HeadKeeps, flash' = flash, latest' = latest,
           Uncommitted(1)' => Uncommitted(1)
    PROVE  NumbersOK'
<1>1. \A k \in 1 .. Len(queue) : queue'[k].id = queue[k].id /\ queue'[k].data = queue[k].data
  BY DEF HeadKeeps
<1>2. \A k \in 1 .. Len(queue) : Uncommitted(k)' => Uncommitted(k)
  <2> SUFFICES ASSUME NEW k \in 1 .. Len(queue), Uncommitted(k)' PROVE Uncommitted(k)
    OBVIOUS
  <2>1. CASE k = 1
    BY <2>1
  <2>2. CASE k # 1
    BY <2>2 DEF Uncommitted, HeadKeeps
  <2> QED
    BY <2>1, <2>2
<1>3. Len(queue') = Len(queue)
  BY DEF HeadKeeps
<1> QED
  BY <1>1, <1>2, <1>3 DEF NumbersOK

(* The writes queued for a page are finitely many.                          *)
LEMMA WritesOnFinite ==
    ASSUME QueueOK, NEW i
    PROVE  IsFiniteSet(WritesOn(i)) /\ Cardinality(WritesOn(i)) \in Nat
<1>1. latest \in Nat
  BY DEF QueueOK
<1>2. WritesOn(i) \in SUBSET (1 .. latest)
  BY DEF WritesOn, QueueOK, OpOK
<1>3. IsFiniteSet(1 .. latest)
  BY <1>1, FS_Interval
<1>4. IsFiniteSet(WritesOn(i))
  BY <1>2, <1>3, FS_Subset
<1> QED
  BY <1>4, FS_CardinalityType

\* what is reserved and used of each page can be counted
Spaced == \A i \in Index : pages[i].reserved \in Nat /\ pages[i].offset \in Nat

(* Space is enough for fewer writes, too.                                   *)
LEMMA SpaceStays ==
    ASSUME Spaced, QueueOK, SpaceOK,
           \A i \in Index : /\ pages'[i].reserved = pages[i].reserved /\ pages'[i].offset = pages[i].offset
                            /\ WritesOn(i)' \subseteq WritesOn(i)
    PROVE  SpaceOK'
<1> SUFFICES ASSUME NEW i \in Index
             PROVE  /\ Cardinality(WritesOn(i)') <= pages'[i].reserved
                    /\ pages'[i].offset + pages'[i].reserved <= Slots + 1
  BY DEF SpaceOK
<1>1. Cardinality(WritesOn(i)') <= Cardinality(WritesOn(i)) /\ Cardinality(WritesOn(i)') \in Nat
      /\ Cardinality(WritesOn(i)) \in Nat
  BY WritesOnFinite, FS_Subset, FS_CardinalityType
<1>2. Cardinality(WritesOn(i)) <= pages[i].reserved /\ pages[i].offset + pages[i].reserved <= Slots + 1
  BY DEF SpaceOK
<1>3. pages[i].reserved \in Nat
  BY DEF Spaced
<1> DEFINE c == Cardinality(WritesOn(i))
           d == Cardinality(WritesOn(i)')
           r == pages[i].reserved
<1>4. d <= r
  <2>1. c \in Nat /\ d \in Nat /\ r \in Nat /\ d <= c /\ c <= r
    BY <1>1, <1>2, <1>3
  <2> HIDE DEF c, d, r
  <2> QED
    BY <2>1
<1> QED
  BY <1>2, <1>4

(* A step of the head adds no write.                                        *)
LEMMA HeadWrites ==
    ASSUME HeadKeeps, ~ Telling
    PROVE  \A i : WritesOn(i)' \subseteq WritesOn(i)
<1>1. \A k \in 1 .. Len(queue) : /\ queue'[k].id = queue[k].id /\ queue'[k].page = queue[k].page
                                 /\ IsWriteOp(queue'[k]) <=> IsWriteOp(queue[k])
  BY DEF HeadKeeps, IsWriteOp
<1>2. Len(queue') = Len(queue)
  BY DEF HeadKeeps
<1> QED
  BY <1>1, <1>2 DEF WritesOn

(* The write at the head has its space, until it is told of its end.        *)
LEMMA SpaceHeld ==
    ASSUME Spaced, QueueOK, SpaceOK, queue # <<>>, ~ Telling, IsWriteOp(Op)
    PROVE  /\ Op.page \in Index /\ Op.id \in WritesOn(Op.page)
           /\ pages[Op.page].reserved # 0
           /\ 1 <= pages[Op.page].offset => pages[Op.page].offset \in Places
<1>1. Op = queue[1] /\ OpOK(Op) /\ 1 \in 1 .. Len(queue)
  BY OpFacts
<1>2. Op.page \in Index /\ Op.id \in WritesOn(Op.page)
  BY <1>1 DEF OpOK, WritesOn
<1> DEFINE c == Cardinality(WritesOn(Op.page))
           o == pages[Op.page].offset
           r == pages[Op.page].reserved
<1>3. c # 0 /\ c \in Nat /\ c <= r /\ o + r <= Slots + 1 /\ r \in Nat /\ o \in Nat /\ Slots \in Nat
  BY <1>2, WritesOnFinite, FS_EmptySet, ConstantFacts DEF Spaced, SpaceOK
<1>4. r # 0 /\ (1 <= o => o \in Places)
  <2> HIDE DEF c, o, r
  <2> QED
    BY <1>3 DEF Places
<1> HIDE DEF c
<1> QED
  BY <1>2, <1>4

(* When it ends, its space is free again or used.                           *)
LEMMA SpaceFreed ==
    ASSUME Spaced, QueueOK, SpaceOK, queue # <<>>, ~ Telling, IsWriteOp(Op), queue' = queue, Telling',
           \A i \in Index \ {Op.page} : pages'[i] = pages[i],
           pages'[Op.page].reserved = pages[Op.page].reserved - 1,
           \/ pages'[Op.page].offset = pages[Op.page].offset
           \/ pages'[Op.page].offset = pages[Op.page].offset + 1
    PROVE  SpaceOK'
<1>1. Op = queue[1] /\ Op.page \in Index /\ Op.id \in WritesOn(Op.page)
  BY SpaceHeld, OpFacts
<1> SUFFICES ASSUME NEW i \in Index
             PROVE  /\ Cardinality(WritesOn(i)') <= pages'[i].reserved
                    /\ pages'[i].offset + pages'[i].reserved <= Slots + 1
  BY DEF SpaceOK
<1>2. WritesOn(i)' \subseteq WritesOn(i)
  BY DEF WritesOn
<1> DEFINE X == WritesOn(i)'
           Y == WritesOn(i)
           x == Cardinality(X)
           y == Cardinality(Y)
           o == pages[i].offset
           r == pages[i].reserved
<1>3. y <= r /\ o + r <= Slots + 1 /\ r \in Nat /\ o \in Nat /\ y \in Nat /\ IsFiniteSet(Y) /\ Slots \in Nat
  BY WritesOnFinite, ConstantFacts DEF Spaced, SpaceOK
<1>4. CASE i # Op.page
  <2>1. x <= y /\ x \in Nat
    BY <1>2, <1>3, FS_Subset, FS_CardinalityType
  <2>2. x <= r
    <3> HIDE DEF x, y, r
    <3> QED
      BY <1>3, <2>1
  <2> QED
    BY <1>3, <1>4, <2>2
<1>5. CASE i = Op.page
  <2>1. Op.id \notin X
    <3> SUFFICES ASSUME NEW k \in 1 .. Len(queue), IsWriteOp(queue[k]), queue[k].id = Op.id, k # 1
                 PROVE  FALSE
      BY DEF WritesOn
    <3> QED
      BY <1>1, OpFacts DEF QueueOK
  <2>2. X \in SUBSET (Y \ {Op.id}) /\ Op.id \in Y
    BY <1>1, <1>2, <1>5, <2>1
  <2> HIDE DEF X, Y
  <2>3. IsFiniteSet(Y \ {Op.id}) /\ Cardinality(Y \ {Op.id}) = y - 1
    BY <1>3, <2>2, FS_RemoveElement
  <2>4. x <= y - 1 /\ x \in Nat
    BY <2>2, <2>3, FS_Subset, FS_CardinalityType
  <2> HIDE DEF x, y
  <2>5. pages'[i].reserved = r - 1 /\ (pages'[i].offset = o \/ pages'[i].offset = o + 1)
    BY <1>5
  <2> HIDE DEF o, r
  <2>6. x <= r - 1 /\ o + (r - 1) <= Slots + 1 /\ (o + 1) + (r - 1) <= Slots + 1
    BY <1>3, <2>4
  <2> QED
    BY <2>5, <2>6 DEF x, X
<1> QED
  BY <1>4, <1>5

(* A new write takes space that is neither used nor reserved.               *)
LEMMA SpaceTaken ==
    ASSUME Spaced, QueueOK, SpaceOK, NEW m \in Index, pages[m].offset + pages[m].reserved <= Slots, NEW a,
           \A i \in Index : /\ pages'[i].offset = pages[i].offset
                            /\ i # m => pages'[i].reserved = pages[i].reserved /\ WritesOn(i)' \subseteq WritesOn(i),
           pages'[m].reserved = pages[m].reserved + 1, WritesOn(m)' \subseteq WritesOn(m) \union {a}
    PROVE  SpaceOK'
<1> SUFFICES ASSUME NEW i \in Index
             PROVE  /\ Cardinality(WritesOn(i)') <= pages'[i].reserved
                    /\ pages'[i].offset + pages'[i].reserved <= Slots + 1
  BY DEF SpaceOK
<1> DEFINE A == WritesOn(i)
           B == WritesOn(i)'
           x == Cardinality(A)
           y == Cardinality(B)
           u == pages[i].offset
           r == pages[i].reserved
<1>1. x <= r /\ u + r <= Slots + 1 /\ r \in Nat /\ u \in Nat /\ x \in Nat /\ IsFiniteSet(A) /\ Slots \in Nat
  BY WritesOnFinite, ConstantFacts DEF Spaced, SpaceOK
<1>2. (i # m => B \subseteq A) /\ B \subseteq A \union {a}
  OBVIOUS
<1>3. y <= x + 1 /\ (i # m => y <= x) /\ y \in Nat
  <2> HIDE DEF A, B
  <2>1. IsFiniteSet(A \union {a}) /\ Cardinality(A \union {a}) = IF a \in A THEN x ELSE x + 1
    BY <1>1, FS_AddElement
  <2>2. y <= Cardinality(A \union {a}) /\ y \in Nat
    BY <1>2, <2>1, FS_Subset, FS_CardinalityType
  <2>3. i # m => y <= x
    BY <1>1, <1>2, FS_Subset
  <2> HIDE DEF x, y
  <2>4. y <= x + 1
    BY <1>1, <2>1, <2>2
  <2> QED
    BY <2>2, <2>3, <2>4
<1>4. CASE i # m
  <2>1. y <= r
    <3> HIDE DEF x, y, r
    <3> QED
      BY <1>1, <1>3, <1>4
  <2> QED
    BY <1>1, <1>4, <2>1
<1>5. CASE i = m
  <2>1. pages'[i].offset = u /\ pages'[i].reserved = r + 1 /\ u + r <= Slots
    BY <1>5
  <2> HIDE DEF x, u, r
  <2>2. y <= r + 1 /\ u + (r + 1) <= Slots + 1
    <3> HIDE DEF y
    <3> QED
      BY <1>1, <1>3, <2>1
  <2> QED
    BY <2>1, <2>2
<1> QED
  BY <1>4, <1>5

(* The space that is reserved stays enough when the head takes a step.      *)
LEMMA HeadSpaceOK ==
    ASSUME Roles, QueueOK, SpaceOK, HeadKeeps, PagesKeep, ~ Telling
    PROVE  SpaceOK'
<1>1. Spaced
  BY RolesFacts DEF Spaced
<1> QED
  BY <1>1, HeadWrites, SpaceStays DEF PagesKeep

-----------------------------------------------------------------------------
(* Steps of writes and updates.                                             *)

(* A step of an operation that writes or deletes: what it has to show.      *)
LEMMA StepKeeps ==
    ASSUME Good, hand = "run", Op.code \notin {"init", "gc"}, HeadKeeps, PagesKeep,
           UNCHANGED <<flash, swap, gc, phase, latest, writes>>,
           Working' \/ Telling', result' = "success" \/ hand' = "event",
           OpOK(queue[1])', WritingOK', DeletingOK', TokOK',
           Uncommitted(1)' => Uncommitted(1),
           \A i \in Index : Upto(i)' = Upto(i)
    PROVE  Good'
<1>1. /\ Working /\ ~ Flying /\ FlashOK(flash, writes) /\ queue # <<>>
      /\ Roles /\ QueueOK /\ NumbersOK /\ SpaceOK /\ GcOK /\ phase = "initialized" /\ InitializedOK
  BY RunFacts
<1>2. Op = queue[1] /\ Op' = queue'[1] /\ Op'.code = Op.code
  BY <1>1, OpFacts DEF HeadKeeps
<1>3. Roles' /\ (AllData' <=> AllData) /\ (CleanSwap' <=> CleanSwap) /\ \A i \in Index : OnPage(i)' = OnPage(i)
  BY <1>1, KeepFacts
<1>4. QueueOK'
  BY <1>1, HeadQueueOK
<1>5. NumbersOK'
  BY <1>1, HeadNumbersOK
<1>6. SpaceOK'
  <2>1. ~ Telling
    BY <1>1 DEF Telling, Working
  <2> QED
    BY <1>1, <2>1, HeadSpaceOK
<1>7. ~ GcWorks /\ ~ GcWorks'
  BY <1>2 DEF GcWorks
<1>8. GcOK'
  BY <1>1, <1>3, <1>7 DEF GcOK
<1>9. OffsetsOK'
  BY <1>1, <1>3, <1>7 DEF InitializedOK, OffsetsOK, GcErased
<1>10. InitializedOK'
  BY <1>1, <1>2, <1>9 DEF InitializedOK, PagesKeep
<1>11. FlashOK(flash, writes)'
  BY <1>1
<1>12. ModeOK'
  BY <1>1, <1>10 DEF ModeOK
<1>13. OnOK'
  BY <1>3, <1>4, <1>5, <1>6, <1>8 DEF OnOK
<1> QED
  BY <1>11, <1>12, <1>13 DEF Good

(* Starting a flash operation: the queue waits for its end.                 *)
LEMMA ExecuteFacts ==
    ASSUME NEW a \in Phys, NEW st, Execute(a, st), queue' # <<>>
    PROVE  /\ Flying' /\ Working' /\ ~ Telling' /\ result' = result /\ hand' = "idle"
           /\ flashing' = [addr |-> a, stages |-> st]
<1>1. flashing' = [addr |-> a, stages |-> st] /\ hand' = "idle" /\ result' = result
  BY DEF Execute
<1>2. flashing' # NoFlash
  BY <1>1, PhysFacts DEF NoFlash
<1> QED
  BY <1>1, <1>2 DEF Flying, Working, Telling

(* Ending an operation of the queue: its users are told next.               *)
LEMMA FinishFacts ==
    ASSUME NEW r, Finish(r), ~ Flying, queue' # <<>>
    PROVE  /\ ~ Flying' /\ ~ Working' /\ Telling' /\ hand' = "event"
BY DEF Finish, Flying, Working, Telling

\* Where the head writes, and what is there.
LEMMA WriteFacts ==
    ASSUME Good, hand = "run", Op.code \in {"write", "update"}
    PROVE  /\ Writing /\ IsWriteOp(Op) /\ ~ FlagsOld /\ Level = Groups[Op.step]
           /\ Op.page \in Index /\ Op.file \in Files /\ Op.key \in Keys /\ Op.id \in Nat \ {0} /\ Op.data \in Nat
           /\ WriteAddr \in Phys /\ WriteSlot \in Places /\ WriteSlot \in Nat
           /\ flash[WriteAddr] \in Page /\ flash[WriteAddr] = OnPage(Op.page)
           /\ flash[WriteAddr].slot[WriteSlot] = Content(Op, Level)
           /\ OnPage(Op.page).tag = "data"
<1>1. /\ Working /\ ~ Flying /\ FlashOK(flash, writes) /\ queue # <<>>
      /\ Roles /\ QueueOK /\ SpaceOK /\ WritingOK /\ GcOK /\ phase = "initialized"
  BY RunFacts
<1>2. Writing /\ IsWriteOp(Op) /\ ~ FlagsOld /\ Level = Groups[Op.step]
  BY <1>1 DEF Writing, IsWriteOp, FlagsOld, Level
<1>3. /\ Op.page \in Index /\ Op.file \in Files /\ Op.key \in Keys /\ Op.id \in 1 .. latest
      /\ Op.data \in 1 .. writes /\ Op = queue[1] /\ 1 \in 1 .. Len(queue) /\ latest \in Nat /\ writes \in Nat
  BY <1>1, <1>2, OpFacts DEF OpOK, QueueOK
<1>4. WriteAddr \in Phys /\ flash[WriteAddr] = OnPage(Op.page)
  BY <1>1, <1>3, RolesFacts DEF WriteAddr, OnPage
<1>5. flash[WriteAddr] \in Page
  BY <1>1, <1>4, Formation
<1>6. WriteSlot \in Places /\ WriteSlot \in Nat
  <2>1. Op.id \in WritesOn(Op.page)
    <3>1. ~ Telling
      BY <1>1 DEF Working, Telling
    <3> QED
      BY <1>2, <1>3, <3>1 DEF WritesOn
  <2>2. Cardinality(WritesOn(Op.page)) # 0 /\ Cardinality(WritesOn(Op.page)) \in Nat
    BY <1>1, <2>1, WritesOnFinite, FS_EmptySet
  <2> DEFINE c == Cardinality(WritesOn(Op.page))
             r == pages[Op.page].reserved
             o == pages[Op.page].offset
  <2>3. c <= r /\ o + r <= Slots + 1 /\ r \in Nat /\ o \in 1 .. Slots + 1 /\ o \in Nat
    BY <1>1, <1>3, RolesFacts DEF SpaceOK
  <2>4. o = WriteSlot
    BY DEF WriteSlot
  <2>5. c # 0 /\ c \in Nat
    BY <2>2
  <2> HIDE DEF c, r, o
  <2>6. 1 <= o /\ o <= Slots
    BY <2>3, <2>5, ConstantFacts
  <2>7. o \in Places
    BY <2>3, <2>6, ConstantFacts DEF Places
  <2> QED
    BY <2>3, <2>4, <2>7
<1>7. flash[WriteAddr].slot[WriteSlot] = Content(Op, Level)
  BY <1>1, <1>2, <1>4 DEF WritingOK
<1>8. OnPage(Op.page).tag = "data"
  BY <1>1, <1>2, <1>3 DEF GcOK, GcWorks, IsWriteOp, AllData
<1>9. Op.id \in Nat \ {0} /\ Op.data \in Nat
  BY <1>3
<1> QED
  BY <1>2, <1>3, <1>4, <1>5, <1>6, <1>7, <1>8, <1>9

(* The next group of words of the record goes to flash.                     *)
LEMMA WordsGo ==
    ASSUME Good, hand = "run", Op.code \in {"write", "update"}, NEW st \in Steps,
           SetStep(st), Execute(WriteAddr, <<Put(OnPage(Op.page), WriteSlot, Content(Op, Level + 1))>>),
           UNCHANGED <<flash, pages, swap, gc, phase, latest, tok, opened, bounds>>,
           st \notin {"begin", "find"}, Groups[st] = Level + 1,
           Op.code = "write" => st \in {"id", "data", "finalize", "done"},
           Op.code = "update" => st \in {"id", "data", "finalize", "flag"} /\ OldThere'
    PROVE  Good'
<1>1. /\ Working /\ ~ Flying /\ FlashOK(flash, writes) /\ queue # <<>> /\ result = "success"
      /\ Roles /\ QueueOK /\ WritingOK /\ TokOK
  BY RunFacts
<1>2. HeadKeeps /\ queue'[1].step = st /\ queue'[1].file = queue[1].file
  BY <1>1, StepSet
<1>3. /\ Op = queue[1] /\ Op' = queue'[1] /\ Op'.code = Op.code /\ Op'.page = Op.page /\ Op'.step = st
      /\ Op'.id = Op.id /\ Op'.data = Op.data /\ Op'.key = Op.key /\ Op'.file = Op.file /\ Op'.target = Op.target
  BY <1>1, <1>2, OpFacts DEF HeadKeeps
<1>4. /\ Writing /\ IsWriteOp(Op) /\ Level = Groups[Op.step] /\ WriteAddr \in Phys
      /\ flash[WriteAddr].slot[WriteSlot] = Content(Op, Level) /\ flash[WriteAddr] = OnPage(Op.page)
  BY WriteFacts
<1>5. /\ Flying' /\ Working' /\ ~ Telling' /\ result' = result /\ hand' = "idle"
      /\ flashing' = [addr |-> WriteAddr, stages |-> <<Put(OnPage(Op.page), WriteSlot, Content(Op, Level + 1))>>]
  BY <1>2, <1>4, ExecuteFacts DEF HeadKeeps
<1>6. ~ FlagsOld'
  BY <1>3 DEF FlagsOld
<1>7. Level \in Nat
  <2>1. Op.step \in {"begin", "id", "data", "finalize", "done", "find", "flag"}
    BY <1>1, <1>4, OpFacts DEF OpOK, IsWriteOp
  <2> QED
    BY <1>4, <2>1 DEF Groups
<1>8. Level' = Level
  BY <1>3, <1>5, <1>6, <1>7 DEF Level
<1>9. WriteAddr' = WriteAddr /\ WriteSlot' = WriteSlot /\ OnPage(Op.page)' = OnPage(Op.page)
  BY <1>3 DEF WriteAddr, WriteSlot, OnPage
<1>10. \A n : Content(Op, n)' = Content(Op, n)
  BY <1>3 DEF Content
<1>11. WritingOK'
  <2>1. OnPage(Op.page)'.slot[WriteSlot'] = Content(Op, Level)'
    BY <1>4, <1>8, <1>9, <1>10
  <2>2. flashing' = [addr |-> WriteAddr', stages |->
                      <<Put(OnPage(Op.page)', WriteSlot', Content(Op, Level + 1)')>>]
    BY <1>5, <1>8, <1>9, <1>10
  <2>3. Op'.code = "update" => OldThere'
    BY <1>3
  <2>4. Op'.step \notin {"begin", "find"}
    BY <1>3
  <2> QED
    BY <1>6, <2>1, <2>2, <2>3, <2>4 DEF WritingOK
<1>12. DeletingOK' /\ TokOK'
  BY <1>1, <1>3, <1>4 DEF DeletingOK, Deleting, TokOK, IsWriteOp
<1>13. Uncommitted(1)' => Uncommitted(1)
  BY <1>1, <1>3, <1>4, <1>8 DEF Uncommitted, IsWriteOp
<1>14. \A i \in Index : Upto(i)' = Upto(i)
  BY <1>3, <1>4, <1>5, <1>8 DEF Upto, Writing, IsWriteOp
<1>15. OpOK(queue[1])'
  <2>1. OpOK(Op)
    BY <1>1, OpFacts
  <2> QED
    BY <1>3, <1>4, <2>1 DEF OpOK, IsWriteOp, bounds
<1>16. PagesKeep
  BY <1>1, SamePages
<1>17. Op.code \notin {"init", "gc"}
  OBVIOUS
<1> QED
  BY <1>1, <1>2, <1>5, <1>11, <1>12, <1>13, <1>14, <1>15, <1>16, <1>17, StepKeeps DEF bounds

(* What the records are that a client can find.                             *)
LEMMA FoundFacts ==
    ASSUME FlashOK(flash, writes), Roles, NEW loc \in Found
    PROVE  /\ loc[1] \in Index /\ loc[2] \in Places /\ loc = <<loc[1], loc[2]>>
           /\ pages[loc[1]].addr \in Phys
           /\ RecordAt(loc) = OnPage(loc[1]).slot[loc[2]] /\ Valid(RecordAt(loc))
           /\ RecordAt(loc) \in Cell
<1>1. loc \in Index \X (1 .. Slots) /\ loc[2] \in Records(flash[pages[loc[1]].addr])
  BY DEF Found
<1>2. loc[1] \in Index /\ loc[2] \in Places /\ loc = <<loc[1], loc[2]>>
  BY <1>1 DEF Places
<1>3. pages[loc[1]].addr \in Phys
  BY <1>2, RolesFacts
<1> QED
  BY <1>1, <1>2, <1>3, Formation DEF RecordAt, OnPage

(* Looking for an id yields a record that carries it.                       *)
LEMMA FirstFound ==
    ASSUME FlashOK(flash, writes), Roles, NEW id, FindById(id) # {}
    PROVE  First(FindById(id)) \in Found /\ RecordAt(First(FindById(id))).id = id
<1>1. FindById(id) \in SUBSET (Nat \X Nat)
  <2>1. \A loc \in Found : loc \in Nat \X Nat
    BY FoundFacts, PhysFacts, FilledRange
  <2> QED
    BY <2>1 DEF FindById
<1>2. First(FindById(id)) \in FindById(id)
  BY <1>1, FirstOf
<1> QED
  BY <1>2 DEF FindById

\* the ids of the records on the data pages are those in the flash
LEMMA FoundIds ==
    ASSUME FlashOK(flash, writes), Roles, AllData, NEW loc \in Found
    PROVE  RecordAt(loc).id \in IdsIn(flash) /\ RecordAt(loc).data \in StoredIn(flash)
<1>1. /\ loc[1] \in Index /\ loc[2] \in Places /\ pages[loc[1]].addr \in Phys
      /\ RecordAt(loc) = OnPage(loc[1]).slot[loc[2]] /\ Valid(RecordAt(loc))
  BY FoundFacts
<1>2. flash[pages[loc[1]].addr].tag = "data"
  BY <1>1 DEF AllData, OnPage
<1>3. Holds(flash, pages[loc[1]].addr, loc[2])
  BY <1>1, <1>2 DEF Holds, Alive, OnPage
<1>4. PICK p \in Phys, i \in Places : p = pages[loc[1]].addr /\ i = loc[2]
  BY <1>1
<1>5. Holds(flash, p, i) /\ RecordAt(loc) = flash[p].slot[i]
  BY <1>1, <1>3, <1>4 DEF OnPage
<1> QED
  BY <1>5, StoredMember

(* The key is written: an update has found the old record before.           *)
LEMMA DoWriteHeaderBegin == ASSUME Good, WriteHeaderBegin PROVE Good'
<1>1. /\ hand = "run" /\ Op.code \in {"write", "update"} /\ SetStep("id") /\ Op.step \in {"begin", "find"}
      /\ Execute(WriteAddr, <<WithKey(flash[WriteAddr], WriteSlot, Op.key)>>)
      /\ UNCHANGED <<flash, pages, swap, gc, phase, latest, tok, opened, bounds>>
  BY DEF WriteHeaderBegin, IsWrite, WriteWords
<1>2. /\ Working /\ ~ Flying /\ FlashOK(flash, writes) /\ queue # <<>>
      /\ Roles /\ QueueOK /\ NumbersOK /\ GcOK /\ phase = "initialized"
  BY <1>1, RunFacts
<1>3. /\ Writing /\ IsWriteOp(Op) /\ Level = Groups[Op.step]
      /\ Op.page \in Index /\ Op.file \in Files /\ Op.key \in Keys /\ Op.id \in Nat \ {0} /\ Op.data \in Nat
      /\ WriteAddr \in Phys /\ WriteSlot \in Places /\ flash[WriteAddr] \in Page
      /\ flash[WriteAddr] = OnPage(Op.page)
      /\ flash[WriteAddr].slot[WriteSlot] = Content(Op, Level)
  BY <1>1, WriteFacts
<1>4. Op = queue[1] /\ OpOK(Op) /\ 1 \in 1 .. Len(queue)
  BY <1>2, OpFacts
<1>5. Level = 0
  BY <1>1, <1>3 DEF Groups
<1>6. Execute(WriteAddr, <<Put(OnPage(Op.page), WriteSlot, Content(Op, Level + 1))>>)
  <2>1. WithKey(flash[WriteAddr], WriteSlot, Op.key) = Put(OnPage(Op.page), WriteSlot, Content(Op, Level + 1))
    BY <1>3, <1>5, WordsProgrammed
  <2> QED
    BY <1>1, <2>1
<1>7. ASSUME Op.code = "update" PROVE OldThere'
  <2>1. Op.step = "find"
    BY <1>1, <1>4, <1>7 DEF OpOK
  <2> DEFINE loc == First(FindById(Op.target))
  <2>2. FindById(Op.target) # {} /\ old' = [addr |-> pages[loc[1]].addr, slot |-> loc[2], page |-> loc[1]]
    BY <2>1 DEF WriteHeaderBegin
  <2>3. loc \in Found /\ RecordAt(loc).id = Op.target
    BY <1>2, <2>2, FirstFound
  <2> HIDE DEF loc
  <2>4. /\ loc[1] \in Index /\ loc[2] \in Places
        /\ RecordAt(loc) = OnPage(loc[1]).slot[loc[2]] /\ Valid(RecordAt(loc))
    BY <1>2, <2>3, FoundFacts
  <2>5. AllData
    BY <1>2, <1>7 DEF GcOK, GcWorks
  <2>6. Op.target \in IdsIn(flash)
    BY <1>2, <2>3, <2>5, FoundIds
  <2>7. Uncommitted(1)
    BY <1>2, <1>3, <1>4, <1>5 DEF Uncommitted
  <2>8. Op.target # Op.id
    BY <1>2, <1>4, <2>6, <2>7 DEF NumbersOK
  <2>9. HeadKeeps
    BY <1>1, <1>2, StepSet DEF Steps
  <2>10. Op'.target = Op.target /\ Op'.id = Op.id
    BY <1>4, <2>9 DEF HeadKeeps
  <2> QED
    BY <1>1, <2>2, <2>3, <2>4, <2>8, <2>10 DEF OldThere, OnPage
<1>8. Groups["id"] = Level + 1
  BY <1>5 DEF Groups
<1>9. "id" \in Steps
  BY DEF Steps
<1> QED
  BY <1>1, <1>6, <1>7, <1>8, <1>9, WordsGo

(* The other groups of words.  The place of the old record stays known.     *)
LEMMA OldStays ==
    ASSUME Good, hand = "run", Op.code = "update", Op.step \in {"id", "data", "finalize", "flag"},
           HeadKeeps, UNCHANGED <<flash, pages, old>>
    PROVE  OldThere'
<1>1. /\ Writing /\ Working /\ queue # <<>> /\ QueueOK /\ WritingOK
  BY RunFacts, WriteFacts
<1>2. OldThere
  BY <1>1 DEF WritingOK
<1>3. Op = queue[1]
  BY <1>1, OpFacts
<1> QED
  BY <1>2, <1>3 DEF OldThere, HeadKeeps

(* The record id is written.                                                *)
LEMMA DoWriteRecordId == ASSUME Good, WriteRecordId PROVE Good'
<1>1. /\ hand = "run" /\ Op.code \in {"write", "update"} /\ SetStep("data") /\ Op.step = "id"
      /\ Execute(WriteAddr, <<WithId(flash[WriteAddr], WriteSlot, Op.id)>>)
      /\ UNCHANGED <<flash, pages, swap, gc, phase, latest, tok, old, opened, bounds>>
  BY DEF WriteRecordId, IsWrite, WriteWords
<1>2. queue # <<>> /\ QueueOK
  BY <1>1, RunFacts
<1>3. /\ Level = Groups[Op.step]
      /\ Op.file \in Files /\ Op.key \in Keys /\ Op.id \in Nat \ {0} /\ Op.data \in Nat
      /\ WriteAddr \in Phys /\ WriteSlot \in Places /\ flash[WriteAddr] \in Page
      /\ flash[WriteAddr] = OnPage(Op.page)
      /\ flash[WriteAddr].slot[WriteSlot] = Content(Op, Level)
  BY <1>1, WriteFacts
<1>4. Level = 1 /\ Groups["data"] = Level + 1
  BY <1>1, <1>3 DEF Groups
<1>5. Execute(WriteAddr, <<Put(OnPage(Op.page), WriteSlot, Content(Op, Level + 1))>>)
  <2>1. WithId(flash[WriteAddr], WriteSlot, Op.id) = Put(OnPage(Op.page), WriteSlot, Content(Op, Level + 1))
    BY <1>3, <1>4, WordsProgrammed
  <2> QED
    BY <1>1, <2>1
<1>6. "data" \in Steps
  BY DEF Steps
<1>7. Op.code = "update" => OldThere'
  BY <1>1, <1>2, <1>6, StepSet, OldStays
<1> QED
  BY <1>1, <1>4, <1>5, <1>6, <1>7, WordsGo

(* The data is written.                                                     *)
LEMMA DoWriteData == ASSUME Good, WriteData PROVE Good'
<1>1. /\ hand = "run" /\ Op.code \in {"write", "update"} /\ SetStep("finalize") /\ Op.step = "data"
      /\ Execute(WriteAddr, <<WithData(flash[WriteAddr], WriteSlot, Op.data)>>)
      /\ UNCHANGED <<flash, pages, swap, gc, phase, latest, tok, old, opened, bounds>>
  BY DEF WriteData, IsWrite, WriteWords
<1>2. queue # <<>> /\ QueueOK
  BY <1>1, RunFacts
<1>3. /\ Level = Groups[Op.step]
      /\ Op.file \in Files /\ Op.key \in Keys /\ Op.id \in Nat \ {0} /\ Op.data \in Nat
      /\ WriteAddr \in Phys /\ WriteSlot \in Places /\ flash[WriteAddr] \in Page
      /\ flash[WriteAddr] = OnPage(Op.page)
      /\ flash[WriteAddr].slot[WriteSlot] = Content(Op, Level)
  BY <1>1, WriteFacts
<1>4. Level = 2 /\ Groups["finalize"] = Level + 1
  BY <1>1, <1>3 DEF Groups
<1>5. Execute(WriteAddr, <<Put(OnPage(Op.page), WriteSlot, Content(Op, Level + 1))>>)
  <2>1. WithData(flash[WriteAddr], WriteSlot, Op.data) = Put(OnPage(Op.page), WriteSlot, Content(Op, Level + 1))
    BY <1>3, <1>4, WordsProgrammed
  <2> QED
    BY <1>1, <2>1
<1>6. "finalize" \in Steps
  BY DEF Steps
<1>7. Op.code = "update" => OldThere'
  BY <1>1, <1>2, <1>6, StepSet, OldStays
<1> QED
  BY <1>1, <1>4, <1>5, <1>6, <1>7, WordsGo

(* The file id is written, the last word of the record.                     *)
LEMMA DoWriteHeaderFinalize == ASSUME Good, WriteHeaderFinalize PROVE Good'
<1> DEFINE st == IF Op.code = "update" THEN "flag" ELSE "done"
<1>1. /\ hand = "run" /\ Op.code \in {"write", "update"} /\ SetStep(st) /\ Op.step = "finalize"
      /\ Execute(WriteAddr, <<WithFile(flash[WriteAddr], WriteSlot, Op.file)>>)
      /\ UNCHANGED <<flash, pages, swap, gc, phase, latest, tok, old, opened, bounds>>
  BY DEF WriteHeaderFinalize, IsWrite, WriteWords
<1>2. queue # <<>> /\ QueueOK
  BY <1>1, RunFacts
<1>3. /\ Level = Groups[Op.step]
      /\ Op.file \in Files /\ Op.key \in Keys /\ Op.id \in Nat \ {0} /\ Op.data \in Nat
      /\ WriteAddr \in Phys /\ WriteSlot \in Places /\ flash[WriteAddr] \in Page
      /\ flash[WriteAddr] = OnPage(Op.page)
      /\ flash[WriteAddr].slot[WriteSlot] = Content(Op, Level)
  BY <1>1, WriteFacts
<1>4. Level = 3 /\ Groups[st] = Level + 1
  BY <1>1, <1>3 DEF Groups
<1>5. Execute(WriteAddr, <<Put(OnPage(Op.page), WriteSlot, Content(Op, Level + 1))>>)
  <2>1. WithFile(flash[WriteAddr], WriteSlot, Op.file) = Put(OnPage(Op.page), WriteSlot, Content(Op, Level + 1))
    BY <1>3, <1>4, WordsProgrammed
  <2> QED
    BY <1>1, <2>1
<1>6. st \in Steps /\ st \notin {"begin", "find"} /\ (Op.code = "write" => st = "done")
      /\ (Op.code = "update" => st = "flag")
  BY <1>1 DEF Steps
<1> HIDE DEF st
<1>7. Op.code = "update" => OldThere'
  BY <1>1, <1>2, <1>6, StepSet, OldStays
<1> QED
  BY <1>1, <1>4, <1>5, <1>6, <1>7, WordsGo

(* An update flags the old record, which is still where it was found.       *)
LEMMA DoWriteFlagDirty == ASSUME Good, WriteFlagDirty PROVE Good'
<1>1. /\ hand = "run" /\ Op.code \in {"write", "update"} /\ SetStep("done") /\ Op.step = "flag"
      /\ pages' = [pages EXCEPT ![old.page].canGc = TRUE]
      /\ Execute(old.addr, <<WithKey(flash[old.addr], old.slot, "dirty")>>)
      /\ UNCHANGED <<flash, swap, gc, phase, latest, tok, old, opened, bounds>>
  BY DEF WriteFlagDirty, IsWrite, FlagDirty
<1>2. /\ Working /\ ~ Flying /\ FlashOK(flash, writes) /\ queue # <<>> /\ result = "success"
      /\ Roles /\ QueueOK /\ WritingOK /\ TokOK
  BY <1>1, RunFacts
<1>3. Op = queue[1] /\ OpOK(Op)
  BY <1>2, OpFacts
<1>4. Op.code = "update"
  BY <1>1, <1>3 DEF OpOK
<1>5. /\ Writing /\ IsWriteOp(Op) /\ Level = Groups[Op.step] /\ Op.page \in Index
      /\ flash[WriteAddr].slot[WriteSlot] = Content(Op, Level) /\ flash[WriteAddr] = OnPage(Op.page)
  BY <1>1, WriteFacts
<1>6. OldThere
  BY <1>1, <1>2, <1>4, <1>5 DEF WritingOK
<1>7. Level = 4
  BY <1>1, <1>5 DEF Groups
<1>8. HeadKeeps /\ queue'[1].step = "done" /\ queue'[1].file = queue[1].file
  BY <1>1, <1>2, StepSet DEF Steps
<1>9. /\ Op' = queue'[1] /\ Op'.code = Op.code /\ Op'.page = Op.page /\ Op'.step = "done"
      /\ Op'.id = Op.id /\ Op'.data = Op.data /\ Op'.key = Op.key /\ Op'.file = Op.file /\ Op'.target = Op.target
  BY <1>3, <1>8 DEF HeadKeeps
<1>10. PagesKeep
  BY <1>1, <1>2, <1>6, CanGcSet DEF OldThere
<1>11. old.addr \in Phys
  BY <1>2, <1>6, RolesFacts DEF OldThere
<1>12. /\ Flying' /\ Working' /\ ~ Telling' /\ result' = result /\ hand' = "idle"
       /\ flashing' = [addr |-> old.addr, stages |-> <<WithKey(flash[old.addr], old.slot, "dirty")>>]
  BY <1>1, <1>8, <1>11, ExecuteFacts DEF HeadKeeps
<1>13. FlagsOld' /\ Level' = 4
  BY <1>4, <1>9, <1>12 DEF FlagsOld, Level, Groups
<1>14. \A i \in Index : OnPage(i)' = OnPage(i)
  BY <1>1, <1>2, <1>10, KeepFacts
<1>15. OldThere'
  BY <1>1, <1>6, <1>9, <1>10 DEF OldThere, PagesKeep
<1>16. WritingOK'
  <2>1. WriteSlot' = WriteSlot
    BY <1>5, <1>9, <1>10 DEF WriteSlot, PagesKeep
  <2>2. OnPage(Op.page)' = OnPage(Op.page)
    BY <1>1, <1>5, <1>9, <1>10 DEF OnPage, PagesKeep
  <2>3. \A n : Content(Op, n)' = Content(Op, n)
    BY <1>9 DEF Content
  <2>4. OnPage(Op.page)'.slot[WriteSlot'] = Content(Op, Level)'
    BY <1>5, <1>7, <1>13, <2>1, <2>2, <2>3
  <2>5. flashing' = [addr |-> old'.addr, stages |-> <<WithKey(flash'[old'.addr], old'.slot, "dirty")>>]
    BY <1>1, <1>12
  <2> QED
    BY <1>9, <1>13, <1>15, <2>4, <2>5 DEF WritingOK
<1>17. DeletingOK' /\ TokOK'
  BY <1>1, <1>2, <1>4, <1>9 DEF DeletingOK, Deleting, TokOK
<1>18. Uncommitted(1)' => Uncommitted(1)
  BY <1>13 DEF Uncommitted
<1>19. \A i \in Index : Upto(i)' = Upto(i)
  BY <1>5, <1>7, <1>9, <1>10, <1>12, <1>13 DEF Upto, Writing, IsWriteOp, PagesKeep
<1>20. OpOK(queue[1])'
  BY <1>1, <1>3, <1>4, <1>9 DEF OpOK, IsWriteOp, bounds
<1>21. Op.code \notin {"init", "gc"} /\ UNCHANGED <<flash, swap, gc, phase, latest, writes>>
       /\ (result' = "success" \/ hand' = "event")
  BY <1>1, <1>2, <1>4, <1>12 DEF bounds
<1> QED
  BY <1>1, <1>8, <1>10, <1>12, <1>16, <1>17, <1>18, <1>19, <1>20, <1>21, StepKeeps

(* An update of a record that is gone ends, and gives its space back.       *)
LEMMA DoUpdateFindsNothing == ASSUME Good, UpdateFindsNothing PROVE Good'
<1>1. /\ hand = "run" /\ Op.code \in {"write", "update"} /\ Op.step = "find" /\ Finish("not found")
      /\ UNCHANGED <<flash, pages, swap, gc, phase, queue, latest, tok, old, opened, writes>>
  BY DEF UpdateFindsNothing, IsWrite, ram, bounds
<1>2. /\ Working /\ ~ Flying /\ FlashOK(flash, writes) /\ queue # <<>>
      /\ Roles /\ QueueOK /\ TokOK
  BY <1>1, RunFacts
<1>3. Op = queue[1] /\ OpOK(Op) /\ Op' = Op
  BY <1>1, <1>2, OpFacts DEF Op
<1>4. Writing /\ Level = Groups[Op.step]
  BY <1>1, WriteFacts
<1>5. Level = 0
  <2>1. Op.step = "find"
    BY <1>1
  <2> QED
    BY <1>4, <2>1 DEF Groups
<1>6. ~ Flying' /\ ~ Working' /\ Telling' /\ hand' = "event"
  BY <1>1, <1>2, FinishFacts
<1>7. HeadKeeps /\ PagesKeep
  BY <1>1, <1>2, SameHead, SamePages
<1>8. OpOK(queue[1])'
  BY <1>1, <1>3 DEF OpOK
<1>9. WritingOK' /\ DeletingOK' /\ ~ Uncommitted(1)'
  BY <1>6 DEF WritingOK, Writing, DeletingOK, Deleting, Uncommitted
<1>10. TokOK'
  BY <1>1, <1>2 DEF TokOK
<1>11. \A i \in Index : Upto(i)' = Upto(i)
  <2>1. ~ Writing'
    BY <1>6 DEF Writing
  <2>4. pages' = pages
    BY <1>1
  <2>2. \A i \in Index : Upto(i) = pages[i].offset
    BY <1>5 DEF Upto
  <2>3. \A i \in Index : Upto(i)' = pages'[i].offset
    BY <2>1 DEF Upto
  <2> QED
    BY <2>2, <2>3, <2>4
<1>12. Op.code \notin {"init", "gc"}
  BY <1>1
<1> QED
  BY <1>1, <1>6, <1>7, <1>8, <1>9, <1>10, <1>11, <1>12, StepKeeps

\* the space of a record that is written
LEMMA OffsetsUpdatedFacts ==
    ASSUME Roles, NEW op, op.step = "done", op.page \in Index,
           pages[op.page].reserved # 0, pages[op.page].offset \in Places
    PROVE  /\ OffsetsUpdated(op) \in PageList
           /\ \A i \in Index : /\ OffsetsUpdated(op)[i].addr = pages[i].addr
                               /\ OffsetsUpdated(op)[i].type = pages[i].type
           /\ \A i \in Index \ {op.page} : OffsetsUpdated(op)[i] = pages[i]
           /\ OffsetsUpdated(op)[op.page].offset = pages[op.page].offset + 1
           /\ OffsetsUpdated(op)[op.page].reserved = pages[op.page].reserved - 1
<1> DEFINE q == [pages[op.page] EXCEPT !.offset = pages[op.page].offset + 1,
                                       !.reserved = pages[op.page].reserved - 1]
<1>1. pages[op.page] \in PageInfo /\ pages \in PageList
  BY DEF Roles, PageList
<1>2. pages[op.page].offset + 1 \in 1 .. Slots + 1
  BY ConstantFacts DEF Places
<1>3. pages[op.page].reserved - 1 \in 0 .. Slots
  <2> DEFINE r == pages[op.page].reserved
  <2>1. r \in 0 .. Slots /\ r # 0
    BY RolesFacts
  <2> HIDE DEF r
  <2>2. r - 1 \in 0 .. Slots
    BY <2>1, ConstantFacts
  <2> QED
    BY <2>2 DEF r
<1>4. q \in PageInfo /\ q.offset = pages[op.page].offset + 1 /\ q.reserved = pages[op.page].reserved - 1
      /\ q.addr = pages[op.page].addr /\ q.type = pages[op.page].type
  <2> DEFINE O == 1 .. Slots + 1
             R == 0 .. Slots
             n == pages[op.page].offset + 1
             m == pages[op.page].reserved - 1
  <2>1. PageInfo = [type : {"data", "erased"}, addr : Phys, offset : O, reserved : R, open : Nat, canGc : BOOLEAN]
    BY DEF PageInfo
  <2>2. n \in O /\ m \in R /\ q = [pages[op.page] EXCEPT !.offset = n, !.reserved = m]
    BY <1>2, <1>3
  <2>3. [pages[op.page] EXCEPT !.offset = n, !.reserved = m] \in PageInfo
        /\ [pages[op.page] EXCEPT !.offset = n, !.reserved = m].offset = n
        /\ [pages[op.page] EXCEPT !.offset = n, !.reserved = m].reserved = m
        /\ [pages[op.page] EXCEPT !.offset = n, !.reserved = m].addr = pages[op.page].addr
        /\ [pages[op.page] EXCEPT !.offset = n, !.reserved = m].type = pages[op.page].type
    <3> HIDE DEF O, R, n, m, q
    <3> QED
      BY <1>1, <2>1, <2>2
  <2> QED
    BY <2>2, <2>3
<1>5. OffsetsUpdated(op) = [pages EXCEPT ![op.page] = q]
  <2>1. StepNumber[op.step] > StepNumber.id
    BY DEF StepNumber
  <2>2. OffsetsUpdated(op) = [pages EXCEPT ![op.page].offset = @ + 1, ![op.page].reserved = @ - 1]
    BY <2>1 DEF OffsetsUpdated
  <2> QED
    BY <1>1, <2>2 DEF PageList
<1> HIDE DEF q
<1> QED
  BY <1>1, <1>4, <1>5 DEF PageList

(* A write ends: the offset passes the record, the space is no longer       *)
(* reserved.                                                                *)
LEMMA DoWriteDone == ASSUME Good, WriteDone PROVE Good'
<1>1. /\ hand = "run" /\ Op.code \in {"write", "update"} /\ Op.step = "done" /\ Finish("success")
      /\ pages' = OffsetsUpdated(Op)
      /\ UNCHANGED <<flash, swap, gc, phase, queue, latest, tok, old, opened, writes>>
  BY DEF WriteDone, IsWrite, bounds
<1>2. /\ Working /\ ~ Flying /\ FlashOK(flash, writes) /\ queue # <<>> /\ phase = "initialized"
      /\ Roles /\ QueueOK /\ NumbersOK /\ SpaceOK /\ TokOK /\ GcOK /\ InitializedOK
  BY <1>1, RunFacts
<1>3. Op = queue[1] /\ OpOK(Op) /\ Op' = Op /\ 1 \in 1 .. Len(queue)
  BY <1>1, <1>2, OpFacts DEF Op
<1>4. Writing /\ IsWriteOp(Op) /\ Level = Groups[Op.step] /\ Op.page \in Index
      /\ WriteSlot \in Places /\ ~ FlagsOld
  BY <1>1, WriteFacts
<1>5. Level = 4
  BY <1>1, <1>4 DEF Groups
<1>6. ~ Flying' /\ ~ Working' /\ Telling' /\ hand' = "event"
  BY <1>1, <1>2, FinishFacts
<1> DEFINE o == pages[Op.page].offset
           r == pages[Op.page].reserved
<1>10. r # 0 /\ o \in Places
  <2>1. Spaced /\ ~ Telling /\ 1 <= o
    BY <1>2, <1>4, RolesFacts DEF Spaced, Working, Telling, Places, WriteSlot
  <2> QED
    BY <1>2, <1>4, <2>1, SpaceHeld
<1>11. /\ pages' \in PageList
       /\ \A i \in Index : pages'[i].addr = pages[i].addr /\ pages'[i].type = pages[i].type
       /\ \A i \in Index \ {Op.page} : pages'[i] = pages[i]
       /\ pages'[Op.page].offset = o + 1 /\ pages'[Op.page].reserved = r - 1
  BY <1>1, <1>2, <1>4, <1>10, OffsetsUpdatedFacts
<1> HIDE DEF o, r
<1>12. \A i \in Index : OnPage(i)' = OnPage(i)
  BY <1>1, <1>11 DEF OnPage
<1>13. Roles'
  BY <1>1, <1>2, <1>11 DEF Roles
<1>14. QueueOK'
  BY <1>1, <1>2 DEF QueueOK, OpOK, Waits
<1>15. NumbersOK'
  <2>1. \A k \in 1 .. Len(queue) : Uncommitted(k)' => Uncommitted(k)
    BY <1>1, <1>6 DEF Uncommitted
  <2> QED
    BY <1>1, <1>2, <2>1 DEF NumbersOK
<1>16. SpaceOK'
  <2>1. Spaced /\ ~ Telling
    BY <1>2, RolesFacts DEF Spaced, Working, Telling
  <2>2. /\ \A i \in Index \ {Op.page} : pages'[i] = pages[i]
        /\ pages'[Op.page].reserved = pages[Op.page].reserved - 1
        /\ pages'[Op.page].offset = pages[Op.page].offset + 1
    BY <1>11 DEF o, r
  <2> QED
    BY <1>1, <1>2, <1>4, <1>6, <2>1, <2>2, SpaceFreed
<1>17. OffsetsOK'
  <2>1. \A i \in Index : Filled(OnPage(i), Upto(i))
    BY <1>1, <1>2 DEF InitializedOK, OffsetsOK, GcErased, GcWorks
  <2>2. \A i \in Index : Upto(i)' = Upto(i)
    BY <1>1, <1>3, <1>4, <1>5, <1>6, <1>11 DEF Upto, Writing, o
  <2> QED
    BY <1>12, <2>1, <2>2 DEF OffsetsOK
<1>18. ~ GcWorks /\ ~ GcWorks'
  BY <1>1, <1>6 DEF GcWorks
<1>19. GcOK'
  <2>1. AllData' <=> AllData
    BY <1>12 DEF AllData
  <2>2. CleanSwap' <=> CleanSwap
    BY <1>1 DEF CleanSwap, OnSwap
  <2> QED
    BY <1>1, <1>2, <1>18, <2>1, <2>2 DEF GcOK
<1>20. WritingOK' /\ DeletingOK'
  BY <1>6 DEF WritingOK, Writing, DeletingOK, Deleting
<1>21. TokOK'
  BY <1>1, <1>2 DEF TokOK
<1>22. InitializedOK'
  BY <1>1, <1>2, <1>3, <1>6, <1>11, <1>17 DEF InitializedOK
<1>23. ModeOK'
  BY <1>1, <1>2, <1>6, <1>22 DEF ModeOK
<1> QED
  BY <1>1, <1>2, <1>13, <1>14, <1>15, <1>16, <1>19, <1>20, <1>21, <1>23 DEF Good, OnOK

-----------------------------------------------------------------------------
(* Steps of deletions.                                                      *)

(* The head of a queue is replaced.                                         *)
LEMMA HeadSet ==
    ASSUME NEW s \in Seq(OpType), 1 \in 1 .. Len(s), NEW b \in OpType
    PROVE  /\ [s EXCEPT ![1] = b] \in Seq(OpType) /\ Len([s EXCEPT ![1] = b]) = Len(s)
           /\ [s EXCEPT ![1] = b][1] = b
           /\ \A k \in 1 .. Len(s) : k # 1 => [s EXCEPT ![1] = b][k] = s[k]
OBVIOUS

\* an operation changes that is being executed
LEMMA HeadIs ==
    ASSUME QueueOK, queue # <<>>, NEW b \in OpType, queue' = [queue EXCEPT ![1] = b],
           b.code = queue[1].code, b.page = queue[1].page, b.id = queue[1].id, b.data = queue[1].data,
           b.key = queue[1].key, b.target = queue[1].target
    PROVE  HeadKeeps /\ queue'[1] = b
<1>1. queue \in Seq(OpType) /\ 1 \in 1 .. Len(queue)
  BY OpFacts DEF QueueOK
<1>2. queue' \in Seq(OpType) /\ Len(queue') = Len(queue) /\ queue'[1] = b
      /\ \A k \in 1 .. Len(queue) : k # 1 => queue'[k] = queue[k]
  BY <1>1, HeadSet
<1>3. queue' # <<>> /\ Head(queue') = queue'[1]
  BY <1>1, <1>2
<1> QED
  BY <1>2, <1>3 DEF HeadKeeps, Op

\* a step of a deletion that writes no record
LEMMA DeleteKeeps ==
    ASSUME Good, hand = "run", Op.code \in {"delete", "delete file"}, HeadKeeps, PagesKeep,
           UNCHANGED <<flash, swap, gc, phase, latest, writes>>,
           Working' \/ Telling', result' = "success" \/ hand' = "event",
           Op'.step \in {"flag", "done"}, Op'.code = "delete file" => Op'.step = "flag",
           DeletingOK', TokOK'
    PROVE  Good'
<1>1. Working /\ ~ Flying /\ queue # <<>> /\ QueueOK
  BY RunFacts
<1>2. Op = queue[1] /\ Op' = queue'[1] /\ Op'.code = Op.code
  BY <1>1, OpFacts DEF HeadKeeps
<1>3. OpOK(queue[1])'
  BY <1>2 DEF OpOK, IsWriteOp
<1>4. ~ Writing' /\ ~ Writing /\ WritingOK' /\ ~ Uncommitted(1)'
  BY <1>2 DEF WritingOK, Writing, Uncommitted, IsWriteOp
<1>5. \A i \in Index : Upto(i)' = Upto(i)
  <2>1. \A i \in Index : Upto(i)' = pages'[i].offset /\ Upto(i) = pages[i].offset
    BY <1>4 DEF Upto
  <2> QED
    BY <2>1 DEF PagesKeep
<1>6. Op.code \notin {"init", "gc"}
  OBVIOUS
<1> QED
  BY <1>3, <1>4, <1>5, <1>6, StepKeeps

\* the word that takes a record away
LEMMA FlagDirtyFacts ==
    ASSUME Good, hand = "run", Op.code \in {"delete", "delete file"}, HeadKeeps,
           NEW i \in Index, NEW j \in Places, Valid(OnPage(i).slot[j]),
           FlagDirty(pages[i].addr, j, i), flash' = flash,
           Op.code = "delete" => Op'.step = "done" /\ OnPage(i).slot[j].id = Op.target,
           Op.code = "delete file" => OnPage(i).slot[j].file = Op'.file
    PROVE  /\ PagesKeep /\ Working' /\ ~ Telling' /\ result' = "success" /\ DeletingOK'
           /\ pages'[i].addr = pages[i].addr
<1>1. /\ Working /\ ~ Flying /\ queue # <<>> /\ QueueOK /\ Roles /\ result = "success"
  BY RunFacts
<1>2. Op = queue[1] /\ Op' = queue'[1] /\ Op'.code = Op.code /\ Op'.target = Op.target
  BY <1>1, OpFacts DEF HeadKeeps
<1>3. pages' = [pages EXCEPT ![i].canGc = TRUE]
      /\ Execute(pages[i].addr, <<WithKey(flash[pages[i].addr], j, "dirty")>>)
  BY DEF FlagDirty
<1>4. PagesKeep
  BY <1>1, <1>3, CanGcSet
<1>5. pages[i].addr \in Phys
  BY <1>1, RolesFacts
<1>6. /\ Flying' /\ Working' /\ ~ Telling' /\ result' = result
      /\ flashing' = [addr |-> pages[i].addr, stages |-> <<WithKey(flash[pages[i].addr], j, "dirty")>>]
  BY <1>3, <1>5, ExecuteFacts DEF HeadKeeps
<1>7. pages'[i].addr = pages[i].addr /\ OnPage(i)' = OnPage(i)
  BY <1>4 DEF PagesKeep, OnPage
<1>8. flashing' = [addr |-> pages'[i].addr, stages |-> <<WithKey(OnPage(i)', j, "dirty")>>]
  BY <1>6, <1>7 DEF OnPage
<1>9. /\ Op'.code = "delete" => Op'.step = "done" /\ OnPage(i)'.slot[j].id = Op'.target
      /\ Op'.code = "delete file" => OnPage(i)'.slot[j].file = Op'.file
      /\ Valid(OnPage(i)'.slot[j])
  BY <1>2, <1>7
<1>10. DeletingOK'
  BY <1>8, <1>9 DEF DeletingOK
<1> QED
  BY <1>1, <1>4, <1>6, <1>7, <1>10

(* A record that is to be deleted is looked up and flagged, or not found.   *)
LEMMA DoDeleteRecord == ASSUME Good, DeleteRecord PROVE Good'
<1>1. /\ hand = "run" /\ Op.code = "delete" /\ Op.step = "flag"
      /\ UNCHANGED <<flash, swap, gc, phase, latest, tok, old, opened, writes>>
  BY DEF DeleteRecord, IsDelete, bounds
<1>2. /\ Working /\ ~ Flying /\ FlashOK(flash, writes) /\ queue # <<>> /\ Roles /\ QueueOK /\ TokOK
  BY <1>1, RunFacts
<1>3. tok = TokStart /\ TokOK'
  BY <1>1, <1>2 DEF TokOK
<1>4. Op = queue[1] /\ "done" \in Steps
  BY <1>2, OpFacts DEF Steps
<1>5. CASE FindById(Op.target) = {}
  <2>1. SetStep("done") /\ Finish("not found") /\ pages' = pages
    BY <1>5 DEF DeleteRecord
  <2>2. HeadKeeps /\ queue'[1].step = "done"
    BY <1>2, <1>4, <2>1, StepSet
  <2>3. PagesKeep
    BY <1>2, <2>1, SamePages
  <2>4. ~ Flying' /\ ~ Working' /\ Telling' /\ hand' = "event"
    BY <1>2, <2>1, <2>2, FinishFacts DEF HeadKeeps
  <2>5. DeletingOK'
    BY <2>4 DEF DeletingOK, Deleting
  <2>6. Op' = queue'[1] /\ Op'.code = "delete" /\ Op'.step = "done"
    BY <1>1, <1>4, <2>2 DEF HeadKeeps
  <2> QED
    BY <1>1, <1>3, <2>2, <2>3, <2>4, <2>5, <2>6, DeleteKeeps
<1>6. CASE FindById(Op.target) # {}
  <2> DEFINE loc == First(FindById(Op.target))
  <2>1. /\ queue' = [queue EXCEPT ![1].step = "done", ![1].file = RecordAt(loc).file]
        /\ FlagDirty(pages[loc[1]].addr, loc[2], loc[1])
    BY <1>6 DEF DeleteRecord
  <2>2. loc \in Found /\ RecordAt(loc).id = Op.target
    BY <1>2, <1>6, FirstFound
  <2> HIDE DEF loc
  <2>3. /\ loc[1] \in Index /\ loc[2] \in Places /\ RecordAt(loc) \in Cell
        /\ RecordAt(loc) = OnPage(loc[1]).slot[loc[2]] /\ Valid(RecordAt(loc))
    BY <1>2, <2>2, FoundFacts
  <2>4. HeadKeeps /\ queue'[1].step = "done"
    <3> DEFINE fi == RecordAt(loc).file
    <3>1. fi \in Files \union {NoFile}
      BY <2>3 DEF Cell
    <3>2. queue' = [queue EXCEPT ![1].step = "done", ![1].file = fi]
      BY <2>1
    <3> HIDE DEF fi
    <3>3. queue \in Seq(OpType) /\ 1 \in 1 .. Len(queue) /\ queue[1] \in OpType
      BY <1>2, OpFacts DEF QueueOK
    <3> DEFINE b == [queue[1] EXCEPT !.step = "done", !.file = fi]
    <3>5. queue' = [queue EXCEPT ![1] = b]
      BY <3>2, <3>3
    <3>6. /\ b \in OpType /\ b.step = "done" /\ b.code = queue[1].code /\ b.page = queue[1].page
          /\ b.id = queue[1].id /\ b.data = queue[1].data /\ b.key = queue[1].key
          /\ b.target = queue[1].target
      <4> DEFINE P == 0 .. DataPages
      <4>1. OpType = [code : Codes, step : Steps, page : P, id : Nat, data : Nat,
                      file : Files \union {NoFile}, key : Keys \union {"none"}, target : Nat \union {-1}]
        BY DEF OpType
      <4> HIDE DEF P
      <4> QED
        BY <1>4, <3>1, <3>3, <4>1
    <3> HIDE DEF b
    <3> QED
      BY <1>2, <3>5, <3>6, HeadIs
  <2>5. Op' = queue'[1] /\ Op'.code = "delete" /\ Op'.step = "done"
    BY <1>1, <1>4, <2>4 DEF HeadKeeps
  <2>6. PagesKeep /\ Working' /\ ~ Telling' /\ result' = "success" /\ DeletingOK'
    BY <1>1, <2>1, <2>2, <2>3, <2>4, <2>5, FlagDirtyFacts
  <2> QED
    BY <1>1, <1>3, <2>4, <2>5, <2>6, DeleteKeeps
<1> QED
  BY <1>5, <1>6

(* A deletion ends.                                                         *)
LEMMA DoDeleteDone == ASSUME Good, DeleteDone PROVE Good'
<1>1. /\ hand = "run" /\ Op.code \in {"delete", "delete file"} /\ Op.step = "done" /\ Finish("success")
      /\ UNCHANGED <<flash, pages, swap, gc, phase, queue, latest, tok, old, opened, writes>>
  BY DEF DeleteDone, IsDelete, ram, bounds
<1>2. /\ Working /\ ~ Flying /\ queue # <<>> /\ Roles /\ QueueOK /\ TokOK
  BY <1>1, RunFacts
<1>3. Op = queue[1] /\ OpOK(Op) /\ Op' = Op
  BY <1>1, <1>2, OpFacts DEF Op
<1>4. Op.code = "delete"
  BY <1>1, <1>3 DEF OpOK
<1>5. TokOK'
  BY <1>1, <1>2, <1>4 DEF TokOK
<1>6. HeadKeeps /\ PagesKeep
  BY <1>1, <1>2, SameHead, SamePages
<1>7. ~ Flying' /\ ~ Working' /\ Telling' /\ hand' = "event"
  BY <1>1, <1>2, FinishFacts
<1>8. DeletingOK'
  BY <1>7 DEF DeletingOK, Deleting
<1> QED
  BY <1>1, <1>3, <1>4, <1>5, <1>6, <1>7, <1>8, DeleteKeeps

\* the token points into the page it was made for: nothing moves while it is used
LEMMA FileRecordsAre ==
    ASSUME FlashOK(flash, writes), Roles, TokOK, NEW f, NEW t \in FileRecords(f)
    PROVE  /\ t[1] \in Index /\ t[2] = pages[t[1]].addr /\ t[3] \in Places /\ t = <<t[1], t[2], t[3]>>
           /\ Valid(OnPage(t[1]).slot[t[3]]) /\ OnPage(t[1]).slot[t[3]].file = f
<1>1. tok.page \in Index /\ (tok.slot # 0 => tok.addr = pages[tok.page].addr)
  <2>1. CASE tok = TokStart
    <3>1. 1 \in Index
      BY PhysFacts
    <3> QED
      BY <2>1, <3>1 DEF TokStart
  <2>2. CASE tok # TokStart
    BY <2>2 DEF TokOK
  <2> QED
    BY <2>1, <2>2
<1>2. PICK i \in tok.page .. DataPages : t \in AfterTok(i)
  BY DEF FileRecords
<1>3. i \in Index
  BY <1>1, PhysFacts DEF Index
<1>4. \E j \in Records(flash[pages[i].addr]) : t = <<i, pages[i].addr, j>>
  <2>1. CASE i = tok.page /\ tok.slot # 0
    BY <1>1, <1>2, <2>1 DEF AfterTok
  <2>2. CASE ~ (i = tok.page /\ tok.slot # 0)
    BY <1>2, <2>2 DEF AfterTok
  <2> QED
    BY <2>1, <2>2
<1>5. PICK j \in Records(flash[pages[i].addr]) : t = <<i, pages[i].addr, j>>
  BY <1>4
<1>6. pages[i].addr \in Phys
  BY <1>3, RolesFacts
<1>7. j \in Places /\ Valid(flash[pages[i].addr].slot[j])
  BY <1>5, <1>6, Formation
<1>8. flash[t[2]].slot[t[3]].file = f
  BY DEF FileRecords
<1> QED
  BY <1>3, <1>5, <1>7, <1>8 DEF OnPage

(* The deletion of a file flags the next record of it, or ends.             *)
LEMMA DoDeleteFile == ASSUME Good, DeleteFile PROVE Good'
<1>1. /\ hand = "run" /\ Op.code = "delete file" /\ Op.step = "flag"
      /\ UNCHANGED <<flash, swap, gc, phase, queue, latest, old, opened, writes>>
  BY DEF DeleteFile, IsDelete, bounds
<1>2. /\ Working /\ ~ Flying /\ FlashOK(flash, writes) /\ queue # <<>> /\ Roles /\ QueueOK /\ TokOK
  BY <1>1, RunFacts
<1>3. Op = queue[1] /\ Op' = Op /\ HeadKeeps
  BY <1>1, <1>2, OpFacts, SameHead DEF Op
<1>4. CASE FileRecords(Op.file) = {}
  <2>1. tok' = TokStart /\ Finish("success") /\ pages' = pages
    BY <1>4 DEF DeleteFile
  <2>2. PagesKeep
    BY <1>2, <2>1, SamePages
  <2>3. ~ Flying' /\ ~ Working' /\ Telling' /\ hand' = "event"
    BY <1>1, <1>2, <2>1, FinishFacts
  <2>4. DeletingOK' /\ TokOK'
    BY <2>1, <2>3 DEF DeletingOK, Deleting, TokOK, TokStart
  <2> QED
    BY <1>1, <1>3, <2>2, <2>3, <2>4, DeleteKeeps
<1>5. CASE FileRecords(Op.file) # {}
  <2> DEFINE F == FileRecords(Op.file)
             t == CHOOSE a \in F : \A b \in F : a[1] < b[1] \/ (a[1] = b[1] /\ a[3] <= b[3])
             S == {<<a[1], a[3]>> : a \in F}
  <2>1. tok' = [page |-> t[1], addr |-> t[2], slot |-> t[3]] /\ FlagDirty(t[2], t[3], t[1])
    BY <1>5 DEF DeleteFile
  <2>2. \A a \in F : a[1] \in Nat /\ a[3] \in Nat
    BY <1>2, FileRecordsAre, PhysFacts, FilledRange
  <2>3. First(S) \in S /\ \A x \in S : First(S)[1] < x[1] \/ (First(S)[1] = x[1] /\ First(S)[2] <= x[2])
    <3>1. S \in SUBSET (Nat \X Nat) /\ S # {}
      <4>1. F # {}
        BY <1>5
      <4> HIDE DEF F, t
      <4>2. \A x \in S : x \in Nat \X Nat
        BY <2>2
      <4>3. S # {}
        BY <4>1
      <4> QED
        BY <4>2, <4>3
    <3> HIDE DEF S
    <3> QED
      BY <3>1, FirstOf
  <2>4. \E a \in F : \A b \in F : a[1] < b[1] \/ (a[1] = b[1] /\ a[3] <= b[3])
    <3>1. PICK a \in F : First(S) = <<a[1], a[3]>>
      BY <2>3
    <3>2. \A b \in F : \E x \in S : x[1] = b[1] /\ x[2] = b[3]
      <4> HIDE DEF F
      <4>1. \A b \in F : <<b[1], b[3]>> \in S
        OBVIOUS
      <4> QED
        BY <4>1
    <3>4. First(S)[1] = a[1] /\ First(S)[2] = a[3]
      BY <3>1
    <3>3. \A b \in F : a[1] < b[1] \/ (a[1] = b[1] /\ a[3] <= b[3])
      <4> HIDE DEF S, F
      <4> QED
        BY <2>3, <3>2, <3>4
    <3> QED
      BY <3>3
  <2>5. t \in F
    BY <2>4
  <2> HIDE DEF t
  <2>6. /\ t[1] \in Index /\ t[2] = pages[t[1]].addr /\ t[3] \in Places
        /\ Valid(OnPage(t[1]).slot[t[3]]) /\ OnPage(t[1]).slot[t[3]].file = Op.file
    BY <1>2, <2>5, FileRecordsAre
  <2>7. /\ PagesKeep /\ Working' /\ ~ Telling' /\ result' = "success" /\ DeletingOK'
        /\ pages'[t[1]].addr = pages[t[1]].addr
    BY <1>1, <1>3, <2>1, <2>6, FlagDirtyFacts
  <2>8. TokOK'
    BY <1>1, <1>3, <2>1, <2>6, <2>7 DEF TokOK
  <2> QED
    BY <1>1, <1>3, <2>7, <2>8, DeleteKeeps
<1> QED
  BY <1>4, <1>5

-----------------------------------------------------------------------------
(* Steps of the installation.                                               *)

(* The variables of garbage collection, one by one.                         *)
LEMMA GcFields ==
    ASSUME GcOK
    PROVE  /\ gc \in GcInfo /\ gc.cur \in Index /\ gc.src \in 0 .. Slots /\ gc.src \in Nat
           /\ gc.resume = FALSE /\ gc.todo \in SUBSET Index
<1>1. gc \in GcInfo
  BY DEF GcOK
<1> DEFINE R == 0 .. Slots
<1>2. GcInfo = [state : {"begin", "copy", "erase", "promote", "discard", "tag"}, cur : Index,
                src : R, todo : SUBSET Index, resume : {FALSE}]
  BY DEF GcInfo
<1>3. \A n \in R : n \in Nat
  BY ConstantFacts
<1> HIDE DEF R
<1>4. gc.cur \in Index /\ gc.src \in R /\ gc.resume = FALSE /\ gc.todo \in SUBSET Index
  BY <1>1, <1>2
<1> QED
  BY <1>1, <1>3, <1>4 DEF R

(* An element of the page table, field by field.                            *)
LEMMA PageInfoFacts ==
    ASSUME NEW q \in PageInfo
    PROVE  /\ q.addr \in Phys /\ q.offset \in 1 .. Slots + 1 /\ q.reserved \in 0 .. Slots
           /\ q.open \in Nat /\ q.canGc \in BOOLEAN
<1> DEFINE O == 1 .. Slots + 1
           R == 0 .. Slots
<1>1. PageInfo = [type : {"data", "erased"}, addr : Phys, offset : O, reserved : R, open : Nat, canGc : BOOLEAN]
  BY DEF PageInfo
<1> HIDE DEF O, R
<1>2. q.addr \in Phys /\ q.offset \in O /\ q.reserved \in R /\ q.open \in Nat /\ q.canGc \in BOOLEAN
  BY <1>1
<1> QED
  BY <1>2 DEF O, R

(* The pages keep their roles when none changes its place.                  *)
LEMMA RolesStay ==
    ASSUME Roles, pages' \in PageList, swap' \in SwapInfo, swap'.addr = swap.addr,
           \A j \in Index : pages'[j].addr = pages[j].addr
    PROVE  Roles'
<1>1. \A i, j \in Index : pages'[i].addr = pages'[j].addr => i = j
  BY DEF Roles
<1>2. \A i \in Index : pages'[i].addr # swap'.addr
  BY DEF Roles
<1>3. \A p \in Phys : p = swap'.addr \/ \E i \in Index : pages'[i].addr = p
  BY DEF Roles
<1> QED
  BY <1>1, <1>2, <1>3 DEF Roles

(* The steps of the installation.                                           *)
LEMMA InstallFacts ==
    ASSUME Good, hand = "run", Op.code = "init"
    PROVE  /\ ~ Flying /\ FlashOK(flash, writes) /\ queue # <<>> /\ result = "success" /\ phase = "installing"
           /\ Roles /\ QueueOK /\ NumbersOK /\ GcOK /\ opened = NoDesc /\ tok = TokStart
           /\ Len(queue) = 1 /\ Op = queue[1]
           /\ \A i \in Index : Filled(OnPage(i), pages[i].offset) /\ pages[i].reserved = 0
           /\ InstallWaits /\ \A i \in Index : Tagged(i)
<1>1. /\ ~ Flying /\ FlashOK(flash, writes) /\ queue # <<>> /\ result = "success" /\ phase = "installing"
      /\ Roles /\ QueueOK /\ NumbersOK /\ GcOK /\ TokOK /\ InstallOK
  BY RunFacts
<1>2. Op = queue[1]
  BY <1>1, OpFacts
<1>3. InstallWaits
  BY <1>1 DEF InstallOK, InstallErases, InstallPromotes, InstallTagsSwap, InstallTagsData
<1>4. opened = NoDesc /\ Len(queue) = 1
      /\ \A i \in Index : Filled(OnPage(i), pages[i].offset) /\ pages[i].reserved = 0
  BY <1>1 DEF InstallOK
<1>5. tok = TokStart
  BY <1>1 DEF TokOK
<1>6. \A i \in Index : Tagged(i)
  BY <1>3 DEF InstallWaits
<1> QED
  BY <1>1, <1>2, <1>3, <1>4, <1>5, <1>6

(* What a step of the installation has to show.                             *)
LEMMA InstallKeeps ==
    ASSUME Good, hand = "run", Op.code = "init", HeadKeeps, Working', result' = "success",
           UNCHANGED <<flash, gc, phase, latest, tok, opened, writes>>, Roles',
           \A i \in Index : Filled(OnPage(i)', pages'[i].offset) /\ pages'[i].reserved = 0,
           (InstallErases \/ InstallPromotes \/ InstallTagsSwap \/ InstallTagsData)'
    PROVE  Good'
<1>1. /\ ~ Flying /\ FlashOK(flash, writes) /\ queue # <<>> /\ phase = "installing"
      /\ Roles /\ QueueOK /\ NumbersOK /\ GcOK /\ opened = NoDesc /\ tok = TokStart
      /\ Len(queue) = 1 /\ Op = queue[1]
  BY InstallFacts
<1>2. Op'.code = "init" /\ Op' = queue'[1] /\ Len(queue') = 1
  BY <1>1 DEF HeadKeeps
<1>3. OpOK(queue[1])'
  BY <1>2 DEF OpOK, IsWriteOp
<1>4. QueueOK'
  BY <1>1, <1>3, HeadQueueOK
<1>5. ~ Writing' /\ WritingOK' /\ DeletingOK' /\ ~ Uncommitted(1)' /\ ~ GcWorks' /\ ~ GcWorks
  BY <1>2 DEF WritingOK, Writing, Uncommitted, IsWriteOp, DeletingOK, Deleting, GcWorks
<1>6. NumbersOK'
  BY <1>1, <1>5, HeadNumbersOK
<1>7. SpaceOK'
  <2> SUFFICES ASSUME NEW i \in Index
               PROVE  /\ Cardinality(WritesOn(i)') <= pages'[i].reserved
                      /\ pages'[i].offset + pages'[i].reserved <= Slots + 1
    BY DEF SpaceOK
  <2>1. \A k \in 1 .. Len(queue') : k = 1
    BY <1>2
  <2>2. WritesOn(i)' = {}
    BY <1>2, <2>1 DEF WritesOn, IsWriteOp
  <2>3. Cardinality(WritesOn(i)') = 0
    BY <2>2, FS_EmptySet
  <2>4. pages'[i].offset \in 1 .. Slots + 1
    <3>1. pages'[i] \in PageInfo
      BY DEF Roles, PageList
    <3> QED
      BY <3>1, PageInfoFacts
  <2>5. pages'[i].reserved = 0
    OBVIOUS
  <2> QED
    BY <2>3, <2>4, <2>5, ConstantFacts
<1>8. TokOK'
  BY <1>1 DEF TokOK, TokStart
<1>9. GcOK'
  BY <1>1, <1>5 DEF GcOK
<1>10. InstallOK'
  BY <1>1, <1>2 DEF InstallOK
<1>11. ModeOK'
  BY <1>1, <1>10 DEF ModeOK
<1> QED
  BY <1>1, <1>4, <1>5, <1>6, <1>7, <1>8, <1>9, <1>11 DEF Good, OnOK

(* The installation tags the swap page, or the first page to promote.       *)
LEMMA DoInitTagSwap == ASSUME Good, InitTagSwap PROVE Good'
<1>1. /\ hand = "run" /\ Op.code = "init" /\ Op.step = "tag swap" /\ SetStep("tag data")
      /\ Execute(swap.addr, TagStages(flash[swap.addr], "swap"))
      /\ UNCHANGED <<flash, pages, swap, gc, phase, latest, tok, opened, writes>>
  BY DEF InitTagSwap, Ready, bounds
<1>2. /\ ~ Flying /\ FlashOK(flash, writes) /\ queue # <<>> /\ result = "success"
      /\ Roles /\ QueueOK /\ Len(queue) = 1 /\ Op = queue[1]
      /\ \A i \in Index : Filled(OnPage(i), pages[i].offset) /\ pages[i].reserved = 0
      /\ InstallWaits /\ \A i \in Index : Tagged(i)
  BY <1>1, InstallFacts
<1>3. HeadKeeps /\ queue'[1].step = "tag data"
  BY <1>1, <1>2, StepSet DEF Steps
<1>4. Op'.step = "tag data"
  BY <1>3 DEF HeadKeeps
<1>5. InstallFresh
  BY <1>1, <1>2 DEF InstallWaits
<1>6. /\ Flying' /\ Working' /\ result' = result
      /\ flashing' = [addr |-> swap.addr, stages |-> TagStages(flash[swap.addr], "swap")]
  BY <1>1, <1>2, <1>3, ExecuteFacts, RolesFacts DEF HeadKeeps
<1>7. PagesKeep
  BY <1>1, <1>2, SamePages
<1>8. Roles' /\ OnSwap' = OnSwap /\ \A i \in Index : OnPage(i)' = OnPage(i)
  BY <1>1, <1>2, <1>7, KeepFacts
<1>9. InstallTagsSwap'
  <2>1. InstallFresh'
    BY <1>1, <1>5 DEF InstallFresh, OnSwap
  <2>2. \A i \in Index : Tagged(i)'
    BY <1>1, <1>2 DEF Tagged, Ready4
  <2>3. flashing' = [addr |-> swap'.addr, stages |-> TagStages(OnSwap', "swap")]
    BY <1>1, <1>6 DEF OnSwap
  <2> QED
    BY <1>4, <1>6, <2>1, <2>2, <2>3 DEF InstallTagsSwap
<1>10. \A i \in Index : Filled(OnPage(i)', pages'[i].offset) /\ pages'[i].reserved = 0
  BY <1>1, <1>2, <1>8
<1> QED
  BY <1>1, <1>2, <1>3, <1>6, <1>8, <1>9, <1>10, InstallKeeps

(* The installation erases a swap page that was not needed.                 *)
LEMMA DoInitEraseSwap == ASSUME Good, InitEraseSwap PROVE Good'
<1>1. /\ hand = "run" /\ Op.code = "init" /\ Op.step = "erase swap" /\ SetStep("tag swap")
      /\ swap' = [swap EXCEPT !.offset = 1] /\ Execute(swap.addr, <<Blank>>)
      /\ UNCHANGED <<flash, pages, gc, phase, latest, tok, opened, writes>>
  BY DEF InitEraseSwap, Ready, bounds
<1>2. /\ ~ Flying /\ FlashOK(flash, writes) /\ queue # <<>> /\ result = "success"
      /\ Roles /\ QueueOK /\ Len(queue) = 1 /\ Op = queue[1]
      /\ \A i \in Index : Filled(OnPage(i), pages[i].offset) /\ pages[i].reserved = 0
      /\ InstallWaits /\ \A i \in Index : Tagged(i)
  BY <1>1, InstallFacts
<1>3. HeadKeeps /\ queue'[1].step = "tag swap"
  BY <1>1, <1>2, StepSet DEF Steps
<1>4. Op'.step = "tag swap"
  BY <1>3 DEF HeadKeeps
<1>5. AllData /\ OnSwap.tag = "swap"
  BY <1>1, <1>2 DEF InstallWaits
<1>6. /\ Flying' /\ Working' /\ result' = result
      /\ flashing' = [addr |-> swap.addr, stages |-> <<Blank>>]
  BY <1>1, <1>2, <1>3, ExecuteFacts, RolesFacts DEF HeadKeeps
<1>7. swap' \in SwapInfo /\ swap'.addr = swap.addr /\ swap'.offset = 1
  <2> DEFINE O == 1 .. Slots + 1
  <2>1. SwapInfo = [addr : Phys, offset : O] /\ 1 \in O
    BY ConstantFacts DEF SwapInfo
  <2> HIDE DEF O
  <2> QED
    BY <1>1, <1>2, <2>1 DEF Roles
<1>8. Roles'
  BY <1>1, <1>2, <1>7 DEF Roles
<1>9. OnSwap' = OnSwap /\ \A i \in Index : OnPage(i)' = OnPage(i)
  BY <1>1, <1>7 DEF OnSwap, OnPage
<1>10. InstallErases'
  <2>1. AllData'
    BY <1>5, <1>9 DEF AllData
  <2>2. \A i \in Index : Tagged(i)'
    BY <1>1, <1>2 DEF Tagged, Ready4
  <2> QED
    BY <1>4, <1>5, <1>6, <1>7, <1>9, <2>1, <2>2 DEF InstallErases
<1>11. \A i \in Index : Filled(OnPage(i)', pages'[i].offset) /\ pages'[i].reserved = 0
  BY <1>1, <1>2, <1>9
<1> QED
  BY <1>1, <1>2, <1>3, <1>6, <1>8, <1>10, <1>11, InstallKeeps

\* fields of a page in RAM that change
LEMMA PageSet ==
    ASSUME Roles, NEW i \in Index, NEW q \in PageInfo, pages' = [pages EXCEPT ![i] = q]
    PROVE  pages' \in PageList /\ pages'[i] = q /\ \A j \in Index : j # i => pages'[j] = pages[j]
BY DEF Roles, PageList

(* The installation makes the swap page a data page: it holds the only      *)
(* copy.                                                                    *)
LEMMA DoInitPromoteSwap == ASSUME Good, InitPromoteSwap PROVE Good'
<1>0. PICK c \in Index : c = gc.cur
  BY RunFacts, GcFields DEF InitPromoteSwap, Ready
<1> DEFINE a == swap.addr
           o == swap.offset
           q == [pages[c] EXCEPT !.addr = a, !.offset = o, !.type = "data"]
<1>1. /\ hand = "run" /\ Op.code = "init" /\ Op.step = "promote swap" /\ SetStep("tag swap")
      /\ swap' = [addr |-> pages[c].addr, offset |-> 1] /\ Execute(a, TagStages(flash[a], "data"))
      /\ pages' = [pages EXCEPT ![c].addr = a, ![c].offset = o, ![c].type = "data"]
      /\ UNCHANGED <<flash, gc, phase, latest, tok, opened, writes>>
  BY <1>0 DEF InitPromoteSwap, Ready, bounds
<1>2. /\ ~ Flying /\ FlashOK(flash, writes) /\ queue # <<>> /\ result = "success"
      /\ Roles /\ QueueOK /\ Len(queue) = 1 /\ Op = queue[1] /\ GcOK
      /\ \A i \in Index : Filled(OnPage(i), pages[i].offset) /\ pages[i].reserved = 0
      /\ InstallWaits /\ \A i \in Index : Tagged(i)
  BY <1>1, InstallFacts
<1>3. HeadKeeps /\ queue'[1].step = "tag swap"
  BY <1>1, <1>2, StepSet DEF Steps
<1>4. Op'.step = "tag swap"
  BY <1>3 DEF HeadKeeps
<1>5. OnSwap.tag = "swap" /\ Filled(OnSwap, o) /\ pages[c].type = "erased" /\ c \in Index
  BY <1>0, <1>1, <1>2 DEF InstallWaits
<1>6. a \in Phys /\ o \in 1 .. Slots + 1 /\ pages[c].addr \in Phys
  BY <1>2, <1>5, RolesFacts
<1>7. /\ Flying' /\ Working' /\ result' = result
      /\ flashing' = [addr |-> a, stages |-> TagStages(flash[a], "data")]
  BY <1>1, <1>2, <1>3, <1>6, ExecuteFacts DEF HeadKeeps
<1>8. q \in PageInfo /\ q.addr = a /\ q.offset = o /\ q.type = "data" /\ q.reserved = 0
  <2> DEFINE O == 1 .. Slots + 1
             R == 0 .. Slots
  <2>1. PageInfo = [type : {"data", "erased"}, addr : Phys, offset : O, reserved : R, open : Nat, canGc : BOOLEAN]
    BY DEF PageInfo
  <2>2. pages[c] \in PageInfo /\ o \in O /\ pages[c].reserved = 0
    BY <1>2, <1>5, <1>6 DEF Roles, PageList
  <2> HIDE DEF O, R, a, o
  <2> QED
    BY <1>6, <2>1, <2>2
<1>9. pages' = [pages EXCEPT ![c] = q]
  BY <1>1, <1>2 DEF Roles, PageList
<1> HIDE DEF q
<1>10. pages' \in PageList /\ pages'[c] = q /\ \A j \in Index : j # c => pages'[j] = pages[j]
  BY <1>2, <1>5, <1>8, <1>9, PageSet
<1>11. swap'.addr = pages[c].addr /\ swap'.offset = 1 /\ swap' \in SwapInfo
  <2>1. 1 \in 1 .. Slots + 1
    BY ConstantFacts
  <2> QED
    BY <1>1, <1>6, <2>1 DEF SwapInfo
<1>12. Roles'
  <2>1. \A i, j \in Index : pages'[i].addr = pages'[j].addr => i = j
    BY <1>2, <1>8, <1>10 DEF Roles
  <2>2. \A i \in Index : pages'[i].addr # swap'.addr
    BY <1>2, <1>5, <1>8, <1>10, <1>11 DEF Roles
  <2>3. \A p \in Phys : p = swap'.addr \/ \E i \in Index : pages'[i].addr = p
    BY <1>2, <1>5, <1>8, <1>10, <1>11 DEF Roles
  <2> QED
    BY <1>10, <1>11, <2>1, <2>2, <2>3 DEF Roles
<1>13. OnPage(c)' = OnSwap /\ OnSwap' = OnPage(c) /\ \A j \in Index : j # c => OnPage(j)' = OnPage(j)
  BY <1>1, <1>8, <1>10, <1>11 DEF OnPage, OnSwap
<1>14. InstallFresh'
  <2>1. Untagged(OnPage(c))
    BY <1>2, <1>5 DEF Tagged, Ready4, OnPage
  <2>2. Filled(OnPage(c), 1)
    BY <1>2, <1>6, <2>1, Formation DEF OnPage
  <2> QED
    BY <1>11, <1>13, <2>1, <2>2 DEF InstallFresh
<1>15. \A j \in Index \ {c} : Tagged(j)'
  BY <1>1, <1>2, <1>10 DEF Tagged, Ready4
<1>16. InstallPromotes'
  <2>1. flashing' = [addr |-> pages'[c].addr, stages |-> TagStages(OnPage(c)', "data")]
    BY <1>7, <1>8, <1>10, <1>13 DEF OnSwap
  <2>2. pages'[c].type = "data" /\ OnPage(c)'.tag = "swap"
    BY <1>5, <1>8, <1>10, <1>13
  <2> QED
    BY <1>4, <1>7, <1>14, <1>15, <2>1, <2>2 DEF InstallPromotes
<1>17. \A i \in Index : Filled(OnPage(i)', pages'[i].offset) /\ pages'[i].reserved = 0
  <2>1. Filled(OnPage(c)', pages'[c].offset) /\ pages'[c].reserved = 0
    BY <1>5, <1>8, <1>10, <1>13
  <2>2. \A i \in Index : i # c => Filled(OnPage(i)', pages'[i].offset) /\ pages'[i].reserved = 0
    BY <1>2, <1>10, <1>13
  <2> QED
    BY <2>1, <2>2
<1> QED
  BY <1>1, <1>2, <1>3, <1>7, <1>12, <1>16, <1>17, InstallKeeps

(* The installation tags the erased pages, and then the storage is          *)
(* initialized.                                                             *)
LEMMA DoInitTagData == ASSUME Good, InitTagData PROVE Good'
<1> DEFINE E == {i \in Index : pages[i].type = "erased"}
<1>1. /\ hand = "run" /\ Op.code = "init" /\ Op.step = "tag data"
      /\ UNCHANGED <<flash, swap, gc, queue, latest, tok, opened, writes>>
  BY DEF InitTagData, Ready, bounds
<1>2. /\ ~ Flying /\ FlashOK(flash, writes) /\ queue # <<>> /\ result = "success" /\ phase = "installing"
      /\ Roles /\ QueueOK /\ NumbersOK /\ GcOK /\ opened = NoDesc /\ tok = TokStart
      /\ Len(queue) = 1 /\ Op = queue[1]
      /\ \A i \in Index : Filled(OnPage(i), pages[i].offset) /\ pages[i].reserved = 0
      /\ InstallWaits /\ \A i \in Index : Tagged(i)
  BY <1>1, InstallFacts
<1>3. CleanSwap
  BY <1>1, <1>2 DEF InstallWaits
<1>4. Op' = Op /\ HeadKeeps
  BY <1>1, <1>2, SameHead DEF Op
<1>5. CASE E = {}
  <2>1. phase' = "initialized" /\ Finish("success") /\ pages' = pages
    BY <1>5 DEF InitTagData
  <2>2. ~ Flying' /\ ~ Working' /\ Telling' /\ hand' = "event"
    BY <1>1, <1>2, <2>1, FinishFacts
  <2>3. PagesKeep
    BY <1>2, <2>1, SamePages
  <2>4. Roles' /\ (AllData' <=> AllData) /\ (CleanSwap' <=> CleanSwap) /\ \A i \in Index : OnPage(i)' = OnPage(i)
    BY <1>1, <1>2, <2>3, KeepFacts
  <2>5. \A i \in Index : pages[i].type = "data" /\ OnPage(i).tag = "data"
    BY <1>2, <1>5 DEF Tagged, Ready4, OnPage
  <2>6. AllData'
    BY <2>4, <2>5 DEF AllData
  <2>7. QueueOK'
    <3>1. OpOK(queue[1])'
      BY <1>1, <1>2, <1>4 DEF OpOK, IsWriteOp
    <3> QED
      BY <1>1, <1>2, <1>4, <3>1, HeadQueueOK
  <2>8. NumbersOK'
    BY <1>1, <1>2, <1>4, <2>2, HeadNumbersOK DEF Uncommitted
  <2>9. ~ Writing' /\ WritingOK' /\ DeletingOK' /\ ~ GcWorks'
    BY <2>2 DEF WritingOK, Writing, DeletingOK, Deleting, GcWorks
  <2>10. SpaceOK'
    <3>1. SpaceOK /\ ~ Telling
      BY <1>1, RunFacts DEF Telling, Working
    <3> QED
      BY <1>2, <1>4, <2>3, <3>1, HeadSpaceOK
  <2>11. TokOK'
    BY <1>1, <1>2 DEF TokOK, TokStart
  <2>12. ~ GcWorks
    BY <1>1 DEF GcWorks
  <2>13. GcOK'
    BY <1>1, <1>2, <1>3, <2>4, <2>6, <2>9, <2>12 DEF GcOK
  <2>14. InitializedOK'
    <3>1. \A i \in Index : Upto(i)' = pages[i].offset
      BY <2>1, <2>9 DEF Upto
    <3>2. OffsetsOK'
      BY <1>2, <2>4, <3>1 DEF OffsetsOK
    <3> QED
      BY <2>1, <2>2, <2>5, <3>2 DEF InitializedOK
  <2>15. ModeOK'
    BY <2>1, <2>2, <2>14 DEF ModeOK
  <2> QED
    BY <1>1, <1>2, <2>1, <2>4, <2>7, <2>8, <2>9, <2>10, <2>11, <2>13, <2>15 DEF Good, OnOK
<1>6. CASE E # {}
  <2>2. PICK m \in E : m = Min(E)
    <3>1. E \in SUBSET Nat
      BY PhysFacts
    <3> HIDE DEF E
    <3> QED
      BY <1>6, <3>1, MinOf
  <2>1. /\ pages' = [pages EXCEPT ![m].type = "data"] /\ phase' = phase
        /\ Execute(pages[m].addr, TagStages(flash[pages[m].addr], "data"))
    BY <1>6, <2>2 DEF InitTagData
  <2>3. m \in Index /\ pages[m].type = "erased" /\ pages[m].addr \in Phys
    BY <1>2, <2>2, RolesFacts
  <2> DEFINE q == [pages[m] EXCEPT !.type = "data"]
  <2>4. q \in PageInfo /\ q.addr = pages[m].addr /\ q.offset = pages[m].offset /\ q.type = "data"
        /\ q.reserved = pages[m].reserved
    <3> DEFINE O == 1 .. Slots + 1
               R == 0 .. Slots
    <3>1. PageInfo = [type : {"data", "erased"}, addr : Phys, offset : O, reserved : R, open : Nat, canGc : BOOLEAN]
      BY DEF PageInfo
    <3>2. pages[m] \in PageInfo
      BY <1>2, <2>3 DEF Roles, PageList
    <3> HIDE DEF O, R
    <3> QED
      BY <3>1, <3>2
  <2>5. pages' = [pages EXCEPT ![m] = q]
    BY <1>2, <2>1 DEF Roles, PageList
  <2> HIDE DEF q
  <2>6. pages' \in PageList /\ pages'[m] = q /\ \A j \in Index : j # m => pages'[j] = pages[j]
    BY <1>2, <2>3, <2>4, <2>5, PageSet
  <2>7. \A j \in Index : pages'[j].addr = pages[j].addr /\ pages'[j].offset = pages[j].offset
                          /\ pages'[j].reserved = pages[j].reserved
    BY <2>4, <2>6
  <2>8. Roles'
    BY <1>1, <1>2, <2>6, <2>7, RolesStay DEF Roles
  <2>9. \A j \in Index : OnPage(j)' = OnPage(j)
    BY <1>1, <2>7 DEF OnPage
  <2>10. /\ Flying' /\ Working' /\ result' = result
         /\ flashing' = [addr |-> pages[m].addr, stages |-> TagStages(flash[pages[m].addr], "data")]
    BY <1>1, <1>2, <2>1, <2>3, ExecuteFacts
  <2>11. CleanSwap'
    BY <1>1, <1>3 DEF CleanSwap, OnSwap
  <2>12. Untagged(OnPage(m))
    BY <1>2, <2>3 DEF Tagged, Ready4, OnPage
  <2>13. InstallTagsData'
    <3>1. flashing' = [addr |-> pages'[m].addr, stages |-> TagStages(OnPage(m)', "data")]
      BY <2>3, <2>7, <2>9, <2>10 DEF OnPage
    <3>2. pages'[m].type = "data" /\ Untagged(OnPage(m)')
      BY <2>3, <2>4, <2>6, <2>9, <2>12
    <3>3. \A j \in Index \ {m} : Tagged(j)'
      BY <1>1, <1>2, <2>6 DEF Tagged, Ready4
    <3> QED
      BY <1>1, <1>4, <2>3, <2>10, <2>11, <3>1, <3>2, <3>3 DEF InstallTagsData
  <2>14. \A i \in Index : Filled(OnPage(i)', pages'[i].offset) /\ pages'[i].reserved = 0
    BY <1>2, <2>7, <2>9
  <2> QED
    BY <1>1, <1>2, <1>4, <2>1, <2>8, <2>10, <2>13, <2>14, InstallKeeps
<1> QED
  BY <1>5, <1>6

-----------------------------------------------------------------------------
(* Steps of garbage collection.                                             *)

(* The steps of garbage collection.                                         *)
LEMMA GcFacts ==
    ASSUME Good, Ready("gc")
    PROVE  /\ hand = "run" /\ Op.code = "gc" /\ GcWorks /\ ~ Flying /\ FlashOK(flash, writes) /\ queue # <<>>
           /\ result = "success" /\ phase = "initialized" /\ tok = TokStart
           /\ Roles /\ QueueOK /\ NumbersOK /\ SpaceOK /\ GcOK /\ InitializedOK /\ ~ Telling /\ ~ Writing
<1>1. hand = "run" /\ Op.code = "gc"
  BY DEF Ready
<1>2. /\ ~ Flying /\ FlashOK(flash, writes) /\ queue # <<>> /\ Working
      /\ result = "success" /\ phase = "initialized" /\ TokOK
      /\ Roles /\ QueueOK /\ NumbersOK /\ SpaceOK /\ GcOK /\ InitializedOK
  BY <1>1, RunFacts
<1> QED
  BY <1>1, <1>2 DEF GcWorks, Telling, Working, TokOK, Writing, IsWriteOp

(* What a step of garbage collection has to show.                           *)
LEMMA GcKeeps ==
    ASSUME Good, Ready("gc"), UNCHANGED <<flash, phase, queue, latest, tok, writes>>,
           Working' \/ Telling', result' = "success" \/ hand' = "event",
           Roles', SpaceOK', OffsetsOK', GcOK', \A i \in Index : pages'[i].type = "data"
    PROVE  Good'
<1>1. /\ hand = "run" /\ Op.code = "gc" /\ ~ Flying /\ FlashOK(flash, writes) /\ queue # <<>>
      /\ result = "success" /\ phase = "initialized" /\ tok = TokStart
      /\ Roles /\ QueueOK /\ NumbersOK
  BY GcFacts
<1>2. Op = queue[1] /\ Op' = Op /\ HeadKeeps
  BY <1>1, OpFacts, SameHead DEF Op
<1>3. QueueOK'
  BY <1>1 DEF QueueOK, OpOK, Waits
<1>4. ~ Uncommitted(1)' /\ ~ Writing' /\ WritingOK' /\ DeletingOK'
  BY <1>1, <1>2 DEF Uncommitted, IsWriteOp, Writing, WritingOK, DeletingOK, Deleting
<1>5. NumbersOK'
  BY <1>1, <1>2, <1>4, HeadNumbersOK
<1>6. TokOK'
  BY <1>1 DEF TokOK, TokStart
<1>7. InitializedOK'
  BY <1>1, <1>2 DEF InitializedOK
<1>8. ModeOK'
  BY <1>1, <1>7 DEF ModeOK
<1> QED
  BY <1>1, <1>3, <1>4, <1>5, <1>6, <1>8 DEF Good, OnOK

\* the pages in RAM stay, and none of them has just been erased
LEMMA GcKeepsPages ==
    ASSUME Good, Ready("gc"), UNCHANGED <<flash, pages, phase, queue, latest, tok, writes>>,
           gc.state # "erase", Working' \/ Telling', result' = "success" \/ hand' = "event",
           swap' \in SwapInfo, swap'.addr = swap.addr, GcOK'
    PROVE  Good'
<1>1. /\ hand = "run" /\ Op.code = "gc" /\ ~ Flying /\ FlashOK(flash, writes) /\ queue # <<>>
      /\ Roles /\ QueueOK /\ SpaceOK /\ InitializedOK /\ ~ Telling /\ ~ Writing
  BY GcFacts
<1>2. HeadKeeps /\ PagesKeep
  BY <1>1, SameHead, SamePages
<1>3. Roles'
  <2>1. pages' \in PageList
    BY <1>2 DEF PagesKeep
  <2> QED
    BY <1>1, <2>1, RolesStay
<1>4. SpaceOK'
  BY <1>1, <1>2, HeadSpaceOK
<1>5. ~ Writing'
  <2>1. Op' = Op
    BY DEF Op
  <2> QED
    BY <1>1, <2>1 DEF Writing, IsWriteOp
<1>6. OffsetsOK'
  <2>1. \A i \in Index : Filled(OnPage(i), pages[i].offset)
    BY <1>1 DEF InitializedOK, OffsetsOK, GcErased, Upto
  <2>2. \A i \in Index : Upto(i)' = pages[i].offset
    BY <1>5 DEF Upto
  <2>3. \A i \in Index : OnPage(i)' = OnPage(i)
    BY DEF OnPage
  <2> QED
    BY <2>1, <2>2, <2>3 DEF OffsetsOK
<1>7. \A i \in Index : pages'[i].type = "data"
  BY <1>1 DEF InitializedOK
<1> QED
  BY <1>3, <1>4, <1>6, <1>7, GcKeeps

(* Setting the state of garbage collection.                                 *)
LEMMA GcSet ==
    ASSUME NEW g \in GcInfo
    PROVE  /\ g.cur \in Index /\ g.src \in 0 .. Slots /\ g.src \in Nat /\ g.resume = FALSE
           /\ g.todo \in SUBSET Index
           /\ \A st \in {"copy", "erase", "discard", "promote"} :
                 /\ [g EXCEPT !.state = st] \in GcInfo /\ [g EXCEPT !.state = st].state = st
                 /\ [g EXCEPT !.state = st].cur = g.cur /\ [g EXCEPT !.state = st].src = g.src
<1> DEFINE R == 0 .. Slots
<1>1. GcInfo = [state : {"begin", "copy", "erase", "promote", "discard", "tag"}, cur : Index,
                src : R, todo : SUBSET Index, resume : {FALSE}]
  BY DEF GcInfo
<1>2. \A n \in R : n \in Nat
  BY ConstantFacts
<1> HIDE DEF R
<1>3. g.cur \in Index /\ g.src \in R /\ g.resume = FALSE /\ g.todo \in SUBSET Index
  BY <1>1
<1>4. \A st \in {"copy", "erase", "discard", "promote"} :
                 /\ [g EXCEPT !.state = st] \in GcInfo /\ [g EXCEPT !.state = st].state = st
                 /\ [g EXCEPT !.state = st].cur = g.cur /\ [g EXCEPT !.state = st].src = g.src
  BY <1>1
<1> QED
  BY <1>2, <1>3, <1>4 DEF R

(* The next record to copy is chosen.                                       *)
LEMMA GcSrcSet ==
    ASSUME NEW g \in GcInfo, NEW n \in 0 .. Slots, gc' = [g EXCEPT !.state = "copy", !.src = n]
    PROVE  gc' \in GcInfo /\ gc'.state = "copy" /\ gc'.cur = g.cur /\ gc'.src = n
<1> DEFINE R == 0 .. Slots
<1>1. GcInfo = [state : {"begin", "copy", "erase", "promote", "discard", "tag"}, cur : Index,
                src : R, todo : SUBSET Index, resume : {FALSE}]
  BY DEF GcInfo
<1>2. n \in R
  OBVIOUS
<1> HIDE DEF R
<1> QED
  BY <1>1, <1>2

(* Setting the write offset of the swap page.                               *)
LEMMA SwapSet ==
    ASSUME Roles, NEW n \in 1 .. Slots + 1
    PROVE  /\ [swap EXCEPT !.offset = n] \in SwapInfo
           /\ [swap EXCEPT !.offset = n].addr = swap.addr /\ [swap EXCEPT !.offset = n].offset = n
<1> DEFINE O == 1 .. Slots + 1
<1>1. SwapInfo = [addr : Phys, offset : O] /\ swap \in SwapInfo /\ n \in O
  BY DEF SwapInfo, Roles
<1> HIDE DEF O
<1> QED
  BY <1>1

(* The next valid record of a page, when there is one.                      *)
LEMMA FindNextIs ==
    ASSUME NEW w, FlashOK(flash, w), NEW a \in Phys, NEW s \in Nat
    PROVE  \/ /\ FindNext(a, s) = 0
              /\ \A j \in Places : Valid(flash[a].slot[j]) => j <= s
           \/ /\ FindNext(a, s) \in Places /\ FindNext(a, s) > s /\ FindNext(a, s) # 0
              /\ Valid(flash[a].slot[FindNext(a, s)])
              /\ \A j \in Places : Valid(flash[a].slot[j]) /\ j > s => FindNext(a, s) <= j
<1> DEFINE S == {j \in Records(flash[a]) : j > s}
<1>1. Records(flash[a]) = {i \in Places : Valid(flash[a].slot[i])}
  BY Formation
<1>2. FindNext(a, s) = IF S = {} THEN 0 ELSE Min(S)
  BY DEF FindNext
<1>3. CASE S = {}
  <2>1. \A j \in Places : Valid(flash[a].slot[j]) => j <= s
    BY <1>1, <1>3, FilledRange
  <2> QED
    BY <1>2, <1>3, <2>1
<1>4. CASE S # {}
  <2>1. S \in SUBSET Nat
    BY <1>1, FilledRange
  <2>2. Min(S) \in S /\ \A y \in S : Min(S) <= y
    <3> HIDE DEF S
    <3> QED
      BY <1>4, <2>1, MinOf
  <2> DEFINE n == Min(S)
  <2>3. n \in Places /\ n > s /\ Valid(flash[a].slot[n])
    BY <1>1, <2>2
  <2>4. \A j \in Places : Valid(flash[a].slot[j]) /\ j > s => n <= j
    BY <1>1, <2>2
  <2>5. FindNext(a, s) = n
    BY <1>2, <1>4
  <2> HIDE DEF n
  <2>6. n # 0
    BY <2>3, ConstantFacts DEF Places
  <2> QED
    BY <2>3, <2>4, <2>5, <2>6
<1> QED
  BY <1>3, <1>4

(* The search for the next record of the page that is collected.            *)
LEMMA DoFindRecord ==
    ASSUME Good, Ready("gc"), AllData, OnSwap.tag = "swap", gc.state # "erase",
           UNCHANGED <<flash, pages, phase, queue, latest, tok, writes>>,
           NEW g \in GcInfo, NEW offset \in 1 .. Slots + 1,
           g.src = 0 \/ (g.src \in Places /\ Valid(OnPage(g.cur).slot[g.src])),
           CopiedUpTo(g.cur, g.src, offset), FindRecord(g, offset)
    PROVE  Good'
<1>1. /\ ~ Flying /\ FlashOK(flash, writes) /\ queue # <<>> /\ result = "success" /\ phase = "initialized"
      /\ Roles /\ InitializedOK /\ Op.code = "gc" /\ ~ Writing
  BY GcFacts
<1>2. g.cur \in Index /\ g.src \in 0 .. Slots /\ g.src \in Nat
  BY GcSet
<1> DEFINE c == g.cur
           a == pages[c].addr
           n == FindNext(a, g.src)
<1>3. a \in Phys /\ a # swap.addr /\ swap.addr \in Phys /\ pages[c].offset \in 1 .. Slots + 1
  BY <1>1, <1>2, RolesFacts
<1>4. OnPage(c) = flash[a]
  BY DEF OnPage
<1>5. \/ /\ n = 0
         /\ \A j \in Places : Valid(OnPage(c).slot[j]) => j <= g.src
      \/ /\ n \in Places /\ n > g.src /\ n # 0 /\ Valid(OnPage(c).slot[n])
         /\ \A j \in Places : Valid(OnPage(c).slot[j]) /\ j > g.src => n <= j
  BY <1>1, <1>2, <1>3, <1>4, FindNextIs
<1>6. /\ Filled(OnSwap, offset) /\ offset <= g.src + 1
      /\ \A j \in Places : j <= g.src /\ Valid(OnPage(c).slot[j]) =>
            \E m \in Places : m < offset /\ OnSwap.slot[m] = OnPage(c).slot[j]
      /\ \A m \in Places : m < offset =>
            \E j \in Places : j <= g.src /\ Valid(OnPage(c).slot[j]) /\ OnSwap.slot[m] = OnPage(c).slot[j]
      /\ \A m, l \in Places : m < offset /\ l < offset /\ OnSwap.slot[m].id = OnSwap.slot[l].id => m = l
  BY DEF CopiedUpTo
<1>7. (AllData' <=> AllData) /\ \A i \in Index : OnPage(i)' = OnPage(i)
  BY DEF AllData, OnPage
<1>8. Op' = Op
  BY DEF Op
<1>9. CASE n # 0
  <2>1. CopyRecord(g, n, offset)
    BY <1>9 DEF FindRecord
  <2>2. n \in Places /\ n > g.src /\ Valid(OnPage(c).slot[n]) /\ n \in 0 .. Slots /\ n \in Nat
    BY <1>5, <1>9, FilledRange DEF Places
  <2>3. /\ gc' = [g EXCEPT !.state = "copy", !.src = n] /\ swap' = [swap EXCEPT !.offset = offset]
        /\ Execute(swap.addr, CopyStages(flash[swap.addr], offset, flash[a].slot[n]))
    BY <2>1 DEF CopyRecord
  <2>4. /\ Flying' /\ Working' /\ result' = "success"
        /\ flashing' = [addr |-> swap.addr, stages |-> CopyStages(flash[swap.addr], offset, flash[a].slot[n])]
    BY <1>1, <1>3, <2>3, ExecuteFacts
  <2>5. swap' \in SwapInfo /\ swap'.addr = swap.addr /\ swap'.offset = offset
    BY <1>1, <2>3, SwapSet
  <2>6. gc' \in GcInfo /\ gc'.state = "copy" /\ gc'.cur = c /\ gc'.src = n
    <3> HIDE DEF n, c, a
    <3>1. gc' = [g EXCEPT !.state = "copy", !.src = n] /\ n \in 0 .. Slots
      BY <2>2, <2>3
    <3>2. gc' \in GcInfo /\ gc'.state = "copy" /\ gc'.cur = g.cur /\ gc'.src = n
      BY <3>1, GcSrcSet
    <3> QED
      BY <3>2 DEF c
  <2>7. OnSwap' = OnSwap
    BY <2>5 DEF OnSwap
  <2> HIDE DEF c, a, n
  <2>8. CopiedUpTo(gc.cur, gc.src - 1, swap.offset)'
    <3>1. \A j \in Places : Valid(OnPage(c).slot[j]) => (j <= n - 1 <=> j <= g.src)
      BY <1>2, <1>5, <1>9, <2>2, FilledRange
    <3>2. offset <= (n - 1) + 1
      BY <1>2, <1>6, <2>2
    <3>3. /\ \A j \in Places : j <= n - 1 /\ Valid(OnPage(c).slot[j]) =>
                \E m \in Places : m < offset /\ OnSwap.slot[m] = OnPage(c).slot[j]
          /\ \A m \in Places : m < offset =>
                \E j \in Places : j <= n - 1 /\ Valid(OnPage(c).slot[j]) /\ OnSwap.slot[m] = OnPage(c).slot[j]
      BY <1>6, <3>1
    <3>4. OnPage(gc.cur)' = OnPage(c)
      BY <1>2, <1>7, <2>6 DEF OnPage, c
    <3> QED
      BY <1>6, <2>5, <2>6, <2>7, <3>2, <3>3, <3>4 DEF CopiedUpTo
  <2>9. OnPage(gc.cur)' = OnPage(c)
    BY <1>2, <1>7, <2>6 DEF OnPage, c
  <2>10. GcCopying'
    <3>1. flashing' = [addr |-> swap'.addr,
                       stages |-> CopyStages(OnSwap', swap'.offset, OnPage(gc.cur)'.slot[gc'.src])]
      BY <1>4, <2>4, <2>5, <2>6, <2>7, <2>9 DEF OnSwap
    <3> QED
      BY <1>7, <2>2, <2>4, <2>6, <2>7, <2>8, <2>9, <3>1 DEF GcCopying
  <2>11. GcOK'
    BY <1>1, <1>8, <2>4, <2>6, <2>10 DEF GcOK, GcRuns, GcWorks
  <2> QED
    BY <2>4, <2>5, <2>11, GcKeepsPages
<1>10. CASE n = 0 /\ pages[c].open = 0
  <2>1. ErasePage(g, offset)
    BY <1>10 DEF FindRecord
  <2>2. /\ gc' = [g EXCEPT !.state = "erase"] /\ swap' = [swap EXCEPT !.offset = offset]
        /\ Execute(a, <<Blank>>)
    BY <1>10, <2>1 DEF ErasePage
  <2>3. /\ Flying' /\ Working' /\ result' = "success"
        /\ flashing' = [addr |-> a, stages |-> <<Blank>>]
    BY <1>1, <1>3, <2>2, ExecuteFacts
  <2>4. swap' \in SwapInfo /\ swap'.addr = swap.addr /\ swap'.offset = offset
    BY <1>1, <2>2, SwapSet
  <2>5. gc' \in GcInfo /\ gc'.state = "erase" /\ gc'.cur = c
    BY <2>2, GcSet
  <2>6. OnSwap' = OnSwap
    BY <2>4 DEF OnSwap
  <2>7. \A j \in Places : Valid(OnPage(c).slot[j]) => j <= g.src
    BY <1>5, <1>10
  <2>8. offset <= pages[c].offset
    <3>1. Filled(OnPage(c), pages[c].offset)
      BY <1>1, <1>2 DEF InitializedOK, OffsetsOK, GcErased, Upto
    <3>2. CASE g.src = 0
      BY <1>2, <1>3, <1>6, <3>2
    <3>3. CASE g.src # 0
      <4>1. g.src < pages[c].offset
        BY <3>1, <3>3, EmptyFacts DEF Filled
      <4> DEFINE o == pages[c].offset
                 s == g.src
      <4>2. s < o /\ o \in Nat /\ s \in Nat /\ offset <= s + 1 /\ offset \in Nat
        BY <1>2, <1>3, <1>6, <4>1, FilledRange
      <4> HIDE DEF o, s
      <4>3. offset <= o
        BY <4>2
      <4> QED
        BY <4>3 DEF o
    <3> QED
      BY <3>2, <3>3
  <2> HIDE DEF c, a, n
  <2>9. pages'[gc'.cur] = pages[c] /\ OnPage(gc.cur)' = OnPage(c)
    BY <1>2, <1>7, <2>5 DEF OnPage, c
  <2>10. CopiedUpTo(gc.cur, Slots, swap.offset)'
    <3>1. \A j \in Places : Valid(OnPage(c).slot[j]) => (j <= Slots <=> j <= g.src)
      BY <2>7, FilledRange
    <3>2. offset <= Slots + 1
      OBVIOUS
    <3>3. /\ \A j \in Places : j <= Slots /\ Valid(OnPage(c).slot[j]) =>
                \E m \in Places : m < offset /\ OnSwap.slot[m] = OnPage(c).slot[j]
          /\ \A m \in Places : m < offset =>
                \E j \in Places : j <= Slots /\ Valid(OnPage(c).slot[j]) /\ OnSwap.slot[m] = OnPage(c).slot[j]
      BY <1>6, <3>1
    <3> QED
      BY <1>6, <2>4, <2>6, <2>9, <3>2, <3>3 DEF CopiedUpTo
  <2>11. GcErasing'
    <3>1. \A i \in Index \ {gc'.cur} : OnPage(i)'.tag = "data"
      BY <1>7 DEF AllData
    <3>2. flashing' = [addr |-> pages'[gc'.cur].addr, stages |-> <<Blank>>]
      BY <2>3, <2>9 DEF a
    <3>3. swap'.offset <= pages'[gc'.cur].offset
      BY <2>4, <2>8, <2>9
    <3> QED
      BY <1>6, <1>7, <2>3, <2>4, <2>5, <2>6, <2>10, <3>1, <3>2, <3>3 DEF GcErasing
  <2>12. GcOK'
    BY <1>1, <1>8, <2>3, <2>5, <2>11 DEF GcOK, GcRuns, GcWorks
  <2> QED
    BY <2>3, <2>4, <2>12, GcKeepsPages
<1>11. CASE n = 0 /\ pages[c].open # 0
  <2>1. ErasePage(g, offset)
    BY <1>11 DEF FindRecord
  <2>2. /\ gc' = [g EXCEPT !.state = "discard"] /\ swap' = [swap EXCEPT !.offset = 1]
        /\ Execute(swap.addr, <<Blank>>)
    BY <1>11, <2>1 DEF ErasePage
  <2>3. /\ Flying' /\ Working' /\ result' = "success"
        /\ flashing' = [addr |-> swap.addr, stages |-> <<Blank>>]
    BY <1>1, <1>3, <2>2, ExecuteFacts
  <2>4. swap' \in SwapInfo /\ swap'.addr = swap.addr /\ swap'.offset = 1
    BY <1>1, <2>2, BlankFacts, SwapSet
  <2>5. gc' \in GcInfo /\ gc'.state = "discard"
    BY <2>2, GcSet
  <2>6. OnSwap' = OnSwap
    BY <2>4 DEF OnSwap
  <2>7. GcDiscarding'
    BY <1>7, <2>3, <2>4, <2>5, <2>6 DEF GcDiscarding
  <2>8. GcOK'
    BY <1>1, <1>8, <2>3, <2>5, <2>7 DEF GcOK, GcRuns, GcWorks
  <2> QED
    BY <2>3, <2>4, <2>8, GcKeepsPages
<1> QED
  BY <1>9, <1>10, <1>11

(* The search for the next page to collect.                                 *)
LEMMA DoNextPage ==
    ASSUME Good, Ready("gc"), AllData, CleanSwap, gc.state # "erase",
           UNCHANGED <<flash, pages, phase, queue, latest, tok, writes>>,
           NEW g \in GcInfo, g.src = 0, NextPage(g)
    PROVE  Good'
<1>1. /\ hand = "run" /\ Op.code = "gc" /\ ~ Flying /\ queue # <<>> /\ phase = "initialized" /\ Roles
      /\ FlashOK(flash, writes)
  BY GcFacts
<1>2. g.resume = FALSE /\ g.todo \in SUBSET Index
  BY GcSet
<1> DEFINE C == {i \in g.todo : pages[i].open = 0 /\ pages[i].canGc}
<1>3. CASE C = {}
  <2>1. gc' = [GcIdle EXCEPT !.resume = g.resume] /\ Finish("success") /\ swap' = swap
    BY <1>3 DEF NextPage
  <2>2. gc' \in GcInfo /\ gc'.state = "begin" /\ gc'.src = 0
    <3> DEFINE R == 0 .. Slots
    <3>1. GcInfo = [state : {"begin", "copy", "erase", "promote", "discard", "tag"}, cur : Index,
                    src : R, todo : SUBSET Index, resume : {FALSE}]
      BY DEF GcInfo
    <3>2. 0 \in R /\ 1 \in Index
      BY ConstantFacts, PhysFacts
    <3> HIDE DEF R
    <3> QED
      BY <1>2, <2>1, <3>1, <3>2 DEF GcIdle
  <2>3. ~ Flying' /\ ~ Working' /\ Telling' /\ hand' = "event"
    BY <1>1, <2>1, FinishFacts
  <2>4. AllData' /\ CleanSwap'
    BY <2>1 DEF AllData, CleanSwap, OnPage, OnSwap
  <2>5. GcOK'
    BY <2>2, <2>3, <2>4 DEF GcOK, GcWorks
  <2>6. swap' \in SwapInfo /\ swap'.addr = swap.addr
    BY <1>1, <2>1 DEF Roles
  <2> QED
    BY <2>3, <2>5, <2>6, GcKeepsPages
<1>4. CASE C # {}
  <2>1. Min(C) \in C
    <3>1. C \in SUBSET Nat
      BY <1>2, PhysFacts
    <3> HIDE DEF C
    <3> QED
      BY <1>4, <3>1, MinOf
  <2>2. PICK m \in Index : m = Min(C)
    BY <1>2, <2>1
  <2>3. PICK S \in SUBSET Index : S = {i \in g.todo : i > m}
    BY <1>2
  <2>4. PICK h : h = [g EXCEPT !.cur = m, !.todo = S]
    OBVIOUS
  <2>5. h \in GcInfo /\ h.cur = m /\ h.src = 0
    <3> DEFINE R == 0 .. Slots
    <3>1. GcInfo = [state : {"begin", "copy", "erase", "promote", "discard", "tag"}, cur : Index,
                    src : R, todo : SUBSET Index, resume : {FALSE}]
      BY DEF GcInfo
    <3> HIDE DEF R
    <3> QED
      BY <2>4, <3>1
  <2>6. FindRecord(h, swap.offset)
    BY <1>4, <2>2, <2>3, <2>4 DEF NextPage
  <2>7. swap.offset = 1 /\ OnSwap.tag = "swap" /\ Filled(OnSwap, 1) /\ 1 \in 1 .. Slots + 1
    BY BlankFacts DEF CleanSwap
  <2>8. CopiedUpTo(h.cur, h.src, 1)
    BY <2>5, <2>7, FilledRange, ConstantFacts DEF CopiedUpTo, Places
  <2> QED
    BY <2>5, <2>6, <2>7, <2>8, DoFindRecord
<1> QED
  BY <1>3, <1>4

(* A collection begins.                                                     *)
LEMMA DoGcBegin == ASSUME Good, GcBegin PROVE Good'
<1>1. /\ Ready("gc") /\ gc.state = "begin"
      /\ UNCHANGED <<flash, pages, phase, queue, latest, tok, writes>>
  BY DEF GcBegin, GcStep, bounds
<1>2. GcOK /\ phase = "initialized"
  BY <1>1, GcFacts
<1>3. AllData /\ CleanSwap /\ gc.src = 0 /\ gc \in GcInfo
  BY <1>1, <1>2 DEF GcOK
<1>4. PICK S \in SUBSET Index : S = {i \in Index : pages[i].type = "data"}
  OBVIOUS
<1>5. PICK g : g = [gc EXCEPT !.cur = 1, !.todo = S]
  OBVIOUS
<1>6. 1 \in Index
  BY PhysFacts
<1>7. g \in GcInfo /\ g.src = 0
  <2> DEFINE R == 0 .. Slots
  <2>1. GcInfo = [state : {"begin", "copy", "erase", "promote", "discard", "tag"}, cur : Index,
                  src : R, todo : SUBSET Index, resume : {FALSE}]
    BY DEF GcInfo
  <2> HIDE DEF R
  <2> QED
    BY <1>3, <1>5, <1>6, <2>1
<1>8. NextPage(g)
  BY <1>4, <1>5 DEF GcBegin
<1> QED
  BY <1>1, <1>3, <1>7, <1>8, DoNextPage

(* The swap page is tagged again: the next page is collected.               *)
LEMMA DoGcNextPage == ASSUME Good, GcNextPage PROVE Good'
<1>1. /\ Ready("gc") /\ gc.state = "tag" /\ NextPage(gc)
      /\ UNCHANGED <<flash, pages, phase, queue, latest, tok, writes>>
  BY DEF GcNextPage, GcStep, bounds
<1>2. GcOK /\ GcWorks /\ ~ Flying
  BY <1>1, GcFacts
<1>3. AllData /\ CleanSwap /\ gc.src = 0 /\ gc \in GcInfo
  BY <1>1, <1>2 DEF GcOK, GcRuns, GcCopying, GcErasing, GcPromoting, GcDiscarding, GcTagging
<1> QED
  BY <1>1, <1>3, DoNextPage

(* A record is copied: the next one is looked for.                          *)
LEMMA DoGcFindNext == ASSUME Good, GcFindNext PROVE Good'
<1>1. /\ Ready("gc") /\ gc.state = "copy" /\ FindRecord(gc, swap.offset + 1)
      /\ UNCHANGED <<flash, pages, phase, queue, latest, tok, writes>>
  BY DEF GcFindNext, GcStep, bounds
<1>2. GcOK /\ GcWorks /\ ~ Flying /\ Roles
  BY <1>1, GcFacts
<1>3. /\ AllData /\ OnSwap.tag = "swap" /\ gc \in GcInfo
      /\ gc.src \in Places /\ Valid(OnPage(gc.cur).slot[gc.src])
      /\ swap.offset <= Slots /\ CopiedUpTo(gc.cur, gc.src, swap.offset + 1)
  BY <1>1, <1>2 DEF GcOK, GcRuns, GcCopying, GcErasing, GcPromoting, GcDiscarding, GcTagging
<1>4. swap.offset \in 1 .. Slots + 1
  BY <1>2, RolesFacts
<1> DEFINE o == swap.offset
<1>5. o + 1 \in 1 .. Slots + 1
  <2>1. o \in 1 .. Slots + 1 /\ o <= Slots
    BY <1>3, <1>4
  <2> HIDE DEF o
  <2> QED
    BY <2>1, ConstantFacts
<1> QED
  BY <1>1, <1>3, <1>5, DoFindRecord

(* The swap page is erased: it is tagged.                                   *)
LEMMA DoGcTagSwap == ASSUME Good, GcTagSwap PROVE Good'
<1>1. /\ Ready("gc") /\ gc' = [Resumed EXCEPT !.state = "tag", !.src = 0]
      /\ Execute(swap.addr, TagStages(flash[swap.addr], "swap"))
      /\ UNCHANGED <<flash, pages, swap, phase, queue, latest, tok, writes>>
  BY DEF GcTagSwap, GcStep, GcAgain, bounds
<1>2. GcOK /\ GcWorks /\ ~ Flying /\ Roles /\ result = "success" /\ queue # <<>> /\ phase = "initialized" /\ Op.code = "gc"
  BY <1>1, GcFacts
<1>3. gc \in GcInfo /\ gc.resume = FALSE
  BY <1>2, GcFields
<1>4. gc.state \in {"promote", "discard"}
  BY <1>3 DEF GcTagSwap, GcStep, GcAgain
<1>5. AllData /\ OnSwap = Blank /\ swap.offset = 1
  BY <1>2, <1>4 DEF GcOK, GcRuns, GcCopying, GcErasing, GcPromoting, GcDiscarding, GcTagging
<1>6. gc' \in GcInfo /\ gc'.state = "tag" /\ gc'.src = 0
  <2> DEFINE R == 0 .. Slots
  <2>1. GcInfo = [state : {"begin", "copy", "erase", "promote", "discard", "tag"}, cur : Index,
                  src : R, todo : SUBSET Index, resume : {FALSE}]
    BY DEF GcInfo
  <2>2. 0 \in R
    BY ConstantFacts
  <2> HIDE DEF R
  <2> QED
    BY <1>1, <1>3, <2>1, <2>2 DEF Resumed
<1>7. /\ Flying' /\ Working' /\ result' = result
      /\ flashing' = [addr |-> swap.addr, stages |-> TagStages(flash[swap.addr], "swap")]
  BY <1>1, <1>2, ExecuteFacts, RolesFacts
<1>8. GcTagging'
  <2>1. AllData' /\ OnSwap' = Blank /\ swap'.offset = 1
    BY <1>1, <1>5 DEF AllData, OnPage, OnSwap
  <2>2. flashing' = [addr |-> swap'.addr, stages |-> TagStages(OnSwap', "swap")]
    BY <1>1, <1>7 DEF OnSwap
  <2> QED
    BY <1>6, <1>7, <2>1, <2>2 DEF GcTagging
<1>9. GcOK'
  <2>1. GcWorks'
    BY <1>1, <1>2, <1>7 DEF GcWorks, Op
  <2> QED
    BY <1>6, <1>8, <2>1 DEF GcOK, GcRuns
<1>10. swap' \in SwapInfo /\ swap'.addr = swap.addr
  BY <1>1, <1>2 DEF Roles
<1> QED
  BY <1>1, <1>2, <1>4, <1>7, <1>9, <1>10, GcKeepsPages

(* The swap page, with the copy, and the erased page change their roles.    *)
LEMMA DoGcPromote == ASSUME Good, GcPromote PROVE Good'
<1>1. /\ Ready("gc") /\ gc' = [Resumed EXCEPT !.state = "promote"]
      /\ UNCHANGED <<flash, phase, queue, latest, tok, writes>>
  BY DEF GcPromote, GcStep, GcAgain, bounds
<1>2. /\ GcOK /\ GcWorks /\ ~ Flying /\ Roles /\ result = "success" /\ queue # <<>> /\ phase = "initialized"
      /\ Op.code = "gc" /\ SpaceOK /\ InitializedOK /\ QueueOK /\ ~ Telling /\ ~ Writing /\ FlashOK(flash, writes)
  BY <1>1, GcFacts
<1>3. gc \in GcInfo /\ gc.resume = FALSE
  BY <1>2, GcFields
<1>4. PICK c \in Index : c = gc.cur
  BY <1>2, GcFields
<1> DEFINE a == swap.addr
           o == swap.offset
           q == [pages[c] EXCEPT !.addr = a, !.offset = o, !.canGc = FALSE]
<1>5. /\ gc.state = "erase"
      /\ swap' = [addr |-> pages[c].addr, offset |-> 1]
      /\ pages' = [pages EXCEPT ![c].addr = a, ![c].offset = o, ![c].canGc = FALSE]
  BY <1>3, <1>4 DEF GcPromote, GcStep, GcAgain
<1>6. gc' \in GcInfo /\ gc'.state = "promote" /\ gc'.cur = c
  <2> DEFINE R == 0 .. Slots
  <2>1. GcInfo = [state : {"begin", "copy", "erase", "promote", "discard", "tag"}, cur : Index,
                  src : R, todo : SUBSET Index, resume : {FALSE}]
    BY DEF GcInfo
  <2> HIDE DEF R
  <2> QED
    BY <1>1, <1>3, <1>4, <2>1 DEF Resumed
<1>7. /\ OnSwap.tag = "swap" /\ Filled(OnSwap, o) /\ o <= pages[c].offset /\ OnPage(c) = Blank
      /\ \A i \in Index \ {c} : OnPage(i).tag = "data"
  BY <1>2, <1>4, <1>5 DEF GcOK, GcRuns, GcCopying, GcErasing, GcPromoting, GcDiscarding, GcTagging
<1>8. a \in Phys /\ o \in 1 .. Slots + 1 /\ pages[c].addr \in Phys
  BY <1>2, RolesFacts
<1>9. q \in PageInfo /\ q.addr = a /\ q.offset = o /\ q.type = pages[c].type /\ q.reserved = pages[c].reserved
  <2> DEFINE O == 1 .. Slots + 1
             R == 0 .. Slots
  <2>1. PageInfo = [type : {"data", "erased"}, addr : Phys, offset : O, reserved : R, open : Nat, canGc : BOOLEAN]
    BY DEF PageInfo
  <2>2. pages[c] \in PageInfo /\ o \in O
    BY <1>2, <1>8 DEF Roles, PageList
  <2> HIDE DEF O, R, a, o
  <2> QED
    BY <1>8, <2>1, <2>2
<1>10. pages' = [pages EXCEPT ![c] = q]
  BY <1>2, <1>5 DEF Roles, PageList
<1> HIDE DEF q
<1>11. pages' \in PageList /\ pages'[c] = q /\ \A j \in Index : j # c => pages'[j] = pages[j]
  BY <1>2, <1>9, <1>10, PageSet
<1>12. swap'.addr = pages[c].addr /\ swap'.offset = 1 /\ swap' \in SwapInfo
  BY <1>5, <1>8, BlankFacts DEF SwapInfo
<1>13. Roles'
  <2>1. \A i, j \in Index : pages'[i].addr = pages'[j].addr => i = j
    BY <1>2, <1>9, <1>11 DEF Roles
  <2>2. \A i \in Index : pages'[i].addr # swap'.addr
    BY <1>2, <1>9, <1>11, <1>12 DEF Roles
  <2>3. \A p \in Phys : p = swap'.addr \/ \E i \in Index : pages'[i].addr = p
    BY <1>2, <1>9, <1>11, <1>12 DEF Roles
  <2> QED
    BY <1>11, <1>12, <2>1, <2>2, <2>3 DEF Roles
<1>14. OnPage(c)' = OnSwap /\ OnSwap' = OnPage(c) /\ \A j \in Index : j # c => OnPage(j)' = OnPage(j)
  BY <1>1, <1>9, <1>11, <1>12 DEF OnPage, OnSwap
<1>15. /\ Flying' /\ Working' /\ result' = result
       /\ flashing' = [addr |-> a, stages |-> TagStages(OnSwap, "data")]
  <2>1. pages'[gc.cur].addr = a
    BY <1>4, <1>9, <1>11
  <2>2. Execute(a, TagStages(flash[a], "data"))
    BY <2>1 DEF GcPromote
  <2> QED
    BY <1>1, <1>2, <1>8, <2>2, ExecuteFacts DEF OnSwap
<1>16. OnPage(gc.cur)' = OnSwap
  BY <1>6, <1>14 DEF OnPage
<1>17. GcPromoting'
  <2>1. \A i \in Index \ {gc'.cur} : OnPage(i)'.tag = "data"
    BY <1>6, <1>7, <1>14
  <2>2. flashing' = [addr |-> pages'[gc'.cur].addr, stages |-> TagStages(OnPage(gc.cur)', "data")]
    BY <1>6, <1>9, <1>11, <1>15, <1>16
  <2> QED
    BY <1>6, <1>7, <1>12, <1>14, <1>15, <1>16, <2>1, <2>2 DEF GcPromoting
<1>18. GcOK'
  <2>1. GcWorks'
    BY <1>1, <1>2, <1>15 DEF GcWorks, Op
  <2> QED
    BY <1>6, <1>17, <2>1 DEF GcOK, GcRuns
<1>19. \A i \in Index : /\ pages'[i].type = "data" /\ pages'[i].reserved = pages[i].reserved
                        /\ pages'[i].offset <= pages[i].offset
  <2>1. \A i \in Index : pages[i].type = "data" /\ pages[i].offset \in Nat
    BY <1>2, RolesFacts DEF InitializedOK
  <2> QED
    BY <1>7, <1>9, <1>11, <2>1
<1>20. SpaceOK'
  <2> SUFFICES ASSUME NEW i \in Index
               PROVE  /\ Cardinality(WritesOn(i)') <= pages'[i].reserved
                      /\ pages'[i].offset + pages'[i].reserved <= Slots + 1
    BY DEF SpaceOK
  <2>1. WritesOn(i)' = WritesOn(i)
    BY <1>1, <1>2, <1>15 DEF WritesOn, Telling, Working
  <2>2. Cardinality(WritesOn(i)) <= pages[i].reserved /\ pages[i].offset + pages[i].reserved <= Slots + 1
    BY <1>2 DEF SpaceOK
  <2> DEFINE x == pages'[i].offset
             y == pages[i].offset
             r == pages[i].reserved
  <2>3. y + r <= Slots + 1 /\ x <= y /\ r \in Nat /\ y \in Nat /\ x \in Nat
    <3>1. pages'[i] \in PageInfo
      BY <1>11 DEF PageList
    <3>2. pages'[i].offset \in Nat
      BY <3>1, PageInfoFacts, FilledRange
    <3> QED
      BY <1>2, <1>19, <2>2, <3>2, RolesFacts
  <2>4. x + r <= Slots + 1
    <3> HIDE DEF x, y, r
    <3> QED
      BY <2>3, ConstantFacts
  <2> QED
    BY <1>19, <2>1, <2>2, <2>4
<1>21. OffsetsOK'
  <2>1. ~ Writing'
    BY <1>1, <1>2 DEF Writing, IsWriteOp, Op
  <2>2. \A i \in Index : Upto(i)' = pages'[i].offset
    BY <2>1 DEF Upto
  <2>3. \A i \in Index : i # c => Filled(OnPage(i), pages[i].offset)
    BY <1>2, <1>4 DEF InitializedOK, OffsetsOK, GcErased, Upto
  <2>4. \A i \in Index : Filled(OnPage(i)', pages'[i].offset)
    BY <1>7, <1>9, <1>11, <1>14, <2>3
  <2> QED
    BY <2>2, <2>4 DEF OffsetsOK
<1> QED
  BY <1>1, <1>2, <1>13, <1>15, <1>18, <1>19, <1>20, <1>21, GcKeeps

-----------------------------------------------------------------------------
(* Clients and the queue.                                                   *)

(* The head of the queue goes on where it was.                              *)
LEMMA HeadStays ==
    ASSUME Good, phase = "initialized", Op' = Op, queue' = <<>> <=> queue = <<>>,
           UNCHANGED <<flash, flashing, hand, swap, gc, phase, tok, old>>,
           pages' \in PageList,
           \A i \in Index : /\ pages'[i].addr = pages[i].addr /\ pages'[i].offset = pages[i].offset
                            /\ pages'[i].type = pages[i].type
    PROVE  /\ Roles' /\ WritingOK' /\ DeletingOK' /\ TokOK' /\ GcOK' /\ OffsetsOK'
           /\ (Working' <=> Working) /\ (Telling' <=> Telling) /\ (Resting' <=> Resting)
           /\ Level' = Level /\ (Writing' <=> Writing)
<1>1. /\ Roles /\ QueueOK /\ WritingOK /\ DeletingOK /\ TokOK /\ GcOK /\ InitializedOK
  BY DEF Good, OnOK, ModeOK
<1>2. /\ (Working' <=> Working) /\ (Telling' <=> Telling) /\ (Flying' <=> Flying) /\ (Resting' <=> Resting)
  BY DEF Working, Telling, Flying, Resting
<1>3. (Writing' <=> Writing) /\ (FlagsOld' <=> FlagsOld) /\ (Deleting' <=> Deleting) /\ (GcWorks' <=> GcWorks)
  BY <1>2 DEF Writing, IsWriteOp, FlagsOld, Deleting, GcWorks
<1>4. Level' = Level
  BY <1>2, <1>3 DEF Level
<1>5. (\A i \in Index : OnPage(i)' = OnPage(i)) /\ OnSwap' = OnSwap
  BY DEF OnPage, OnSwap
<1>6. Writing => /\ Op.page \in Index /\ WriteAddr' = WriteAddr /\ WriteSlot' = WriteSlot
                 /\ OnPage(Op.page)' = OnPage(Op.page)
  <2> SUFFICES ASSUME Writing PROVE /\ Op.page \in Index /\ WriteAddr' = WriteAddr /\ WriteSlot' = WriteSlot
                                    /\ OnPage(Op.page)' = OnPage(Op.page)
    OBVIOUS
  <2>1. Op.page \in Index
    BY <1>1, OpFacts DEF Writing, Working, OpOK
  <2> QED
    BY <2>1 DEF WriteAddr, WriteSlot, OnPage
<1>7. \A n : Content(Op, n)' = Content(Op, n)
  BY DEF Content
<1>8. OldThere => OldThere'
  BY DEF OldThere
<1>9. WritingOK'
  <2> SUFFICES ASSUME Writing PROVE WritingOK'
    BY <1>3 DEF WritingOK
  <2>1. OnPage(Op.page)'.slot[WriteSlot'] = Content(Op, Level)'
    BY <1>1, <1>4, <1>6, <1>7 DEF WritingOK
  <2>2. Flying' => Op'.step \notin {"begin", "find"}
    BY <1>1, <1>2 DEF WritingOK
  <2>3. Flying' /\ ~ FlagsOld' => flashing' =
          [addr |-> WriteAddr', stages |-> <<Put(OnPage(Op.page)', WriteSlot', Content(Op, Level + 1)')>>]
    BY <1>1, <1>2, <1>3, <1>4, <1>6, <1>7 DEF WritingOK
  <2>4. FlagsOld' => flashing' = [addr |-> old'.addr, stages |-> <<WithKey(flash'[old'.addr], old'.slot, "dirty")>>]
    BY <1>1, <1>3 DEF WritingOK
  <2>5. Op'.code = "update" /\ (Op'.step \in {"id", "data", "finalize", "flag"} \/ FlagsOld') => OldThere'
    BY <1>1, <1>3, <1>8 DEF WritingOK
  <2> QED
    BY <2>1, <2>2, <2>3, <2>4, <2>5 DEF WritingOK
<1>10. DeletingOK'
  <2> SUFFICES ASSUME Deleting, Flying PROVE DeletingOK'
    BY <1>2, <1>3 DEF DeletingOK
  <2>1. PICK i \in Index, j \in Places :
        /\ flashing = [addr |-> pages[i].addr, stages |-> <<WithKey(OnPage(i), j, "dirty")>>]
        /\ Valid(OnPage(i).slot[j])
        /\ Op.code = "delete" => Op.step = "done" /\ OnPage(i).slot[j].id = Op.target
        /\ Op.code = "delete file" => OnPage(i).slot[j].file = Op.file
    BY <1>1 DEF DeletingOK
  <2>2. OnPage(i)' = OnPage(i) /\ pages'[i].addr = pages[i].addr
    BY <1>5
  <2>3. /\ flashing' = [addr |-> pages'[i].addr, stages |-> <<WithKey(OnPage(i)', j, "dirty")>>]
        /\ Valid(OnPage(i)'.slot[j])
        /\ Op'.code = "delete" => Op'.step = "done" /\ OnPage(i)'.slot[j].id = Op'.target
        /\ Op'.code = "delete file" => OnPage(i)'.slot[j].file = Op'.file
    BY <2>1, <2>2
  <2> QED
    BY <2>3 DEF DeletingOK
<1>11. TokOK'
  BY <1>1, <1>2 DEF TokOK
<1>12. (AllData' <=> AllData) /\ (CleanSwap' <=> CleanSwap)
  BY <1>5 DEF AllData, CleanSwap
<1>13. gc.cur \in Index
  BY <1>1, GcFields
<1>14. pages'[gc'.cur].addr = pages[gc.cur].addr /\ pages'[gc'.cur].offset = pages[gc.cur].offset
       /\ OnPage(gc.cur)' = OnPage(gc.cur)
  BY <1>13 DEF OnPage
<1>15. \A b, n : CopiedUpTo(gc.cur, b, n)' <=> CopiedUpTo(gc.cur, b, n)
  BY <1>5, <1>14 DEF CopiedUpTo
<1>16. GcCopying => GcCopying'
  BY <1>2, <1>5, <1>12, <1>14, <1>15 DEF GcCopying
<1>17. GcErasing => GcErasing'
  BY <1>2, <1>5, <1>12, <1>14, <1>15 DEF GcErasing
<1>18. GcPromoting => GcPromoting'
  BY <1>2, <1>5, <1>12, <1>14 DEF GcPromoting
<1>19. GcDiscarding => GcDiscarding'
  BY <1>2, <1>5, <1>12 DEF GcDiscarding
<1>20. GcTagging => GcTagging'
  BY <1>2, <1>5, <1>12 DEF GcTagging
<1>21. GcOK'
  BY <1>1, <1>2, <1>3, <1>12, <1>16, <1>17, <1>18, <1>19, <1>20 DEF GcOK, GcRuns
<1>22. OffsetsOK'
  <2>1. \A i \in Index : Upto(i)' = Upto(i)
    BY <1>3, <1>4 DEF Upto
  <2>2. \A i \in Index : GcErased(i)' <=> GcErased(i)
    BY <1>2, <1>3 DEF GcErased
  <2> QED
    BY <1>1, <1>5, <2>1, <2>2 DEF OffsetsOK, InitializedOK
<1>23. Roles'
  <2>1. swap' \in SwapInfo /\ swap'.addr = swap.addr
    BY <1>1 DEF Roles
  <2> QED
    BY <1>1, <2>1, RolesStay
<1> QED
  BY <1>2, <1>3, <1>4, <1>9, <1>10, <1>11, <1>21, <1>22, <1>23

\* only what the readers keep on a page changes
LEMMA OpenChanges ==
    ASSUME Good, phase = "initialized", PagesKeep,
           UNCHANGED <<flash, flashing, hand, result, swap, gc, phase, queue, latest, tok, old, writes>>
    PROVE  Good'
<1>1. /\ Roles /\ QueueOK /\ NumbersOK /\ SpaceOK /\ InitializedOK /\ ModeOK /\ FlashOK(flash, writes)
  BY DEF Good, OnOK, ModeOK
<1>2. Op' = Op /\ pages' \in PageList
  BY DEF Op, PagesKeep
<1>3. /\ Roles' /\ WritingOK' /\ DeletingOK' /\ TokOK' /\ GcOK' /\ OffsetsOK'
      /\ (Working' <=> Working) /\ (Telling' <=> Telling) /\ (Resting' <=> Resting) /\ Level' = Level
  BY <1>2, HeadStays DEF PagesKeep
<1>4. QueueOK'
  BY <1>1 DEF QueueOK, OpOK, Waits
<1>5. NumbersOK'
  BY <1>1, <1>3 DEF NumbersOK, Uncommitted
<1>6. SpaceOK'
  <2>1. \A i \in Index : WritesOn(i)' = WritesOn(i)
    BY <1>3 DEF WritesOn
  <2> QED
    BY <1>1, <2>1 DEF SpaceOK, PagesKeep
<1>7. InitializedOK'
  BY <1>1, <1>2, <1>3 DEF InitializedOK, PagesKeep
<1>8. ModeOK'
  BY <1>1, <1>7 DEF ModeOK
<1> QED
  BY <1>1, <1>3, <1>4, <1>5, <1>6, <1>8 DEF Good, OnOK

\* how often a page is open
LEMMA OpenSet ==
    ASSUME NEW q \in PageInfo, NEW n \in Nat
    PROVE  /\ [q EXCEPT !.open = n] \in PageInfo /\ [q EXCEPT !.open = n].addr = q.addr
           /\ [q EXCEPT !.open = n].offset = q.offset /\ [q EXCEPT !.open = n].reserved = q.reserved
           /\ [q EXCEPT !.open = n].type = q.type
<1> DEFINE O == 1 .. Slots + 1
           R == 0 .. Slots
<1>1. PageInfo = [type : {"data", "erased"}, addr : Phys, offset : O, reserved : R, open : Nat, canGc : BOOLEAN]
  BY DEF PageInfo
<1> HIDE DEF O, R
<1> QED
  BY <1>1

(* A client opens a record: the page is not to be collected.                *)
LEMMA DoRecordOpen == ASSUME Good, NEW loc \in Found, RecordOpen(loc) PROVE Good'
<1>1. /\ phase = "initialized" /\ pages' = [pages EXCEPT ![loc[1]].open = @ + 1]
      /\ UNCHANGED <<flash, flashing, hand, result, swap, gc, phase, queue, latest, tok, old, writes>>
  BY DEF RecordOpen, bounds
<1>2. Roles /\ FlashOK(flash, writes)
  BY <1>1 DEF Good, OnOK
<1>3. PICK i \in Index : i = loc[1]
  BY <1>2, FoundFacts
<1>4. pages[i] \in PageInfo /\ pages[i].open + 1 \in Nat /\ pages \in PageList
  BY <1>2, RolesFacts DEF Roles
<1>5. PICK n \in Nat : n = pages[i].open + 1
  BY <1>4
<1> DEFINE q == [pages[i] EXCEPT !.open = n]
<1>6. q \in PageInfo /\ q.addr = pages[i].addr /\ q.offset = pages[i].offset /\ q.reserved = pages[i].reserved
      /\ q.type = pages[i].type
  BY <1>4, OpenSet
<1>7. pages' = [pages EXCEPT ![i] = q]
  BY <1>1, <1>3, <1>4, <1>5 DEF PageList
<1> HIDE DEF q
<1>8. pages' \in PageList /\ pages'[i] = q /\ \A j \in Index : j # i => pages'[j] = pages[j]
  BY <1>2, <1>6, <1>7, PageSet
<1>9. PagesKeep
  BY <1>6, <1>8 DEF PagesKeep
<1> QED
  BY <1>1, <1>9, OpenChanges

(* A client closes a record.                                                *)
LEMMA DoRecordClose == ASSUME Good, RecordClose PROVE Good'
<1>1. /\ opened # NoDesc
      /\ pages' = [i \in Index |-> IF i \in DescPages /\ pages[i].open > 0
                                   THEN [pages[i] EXCEPT !.open = @ - 1] ELSE pages[i]]
      /\ UNCHANGED <<flash, flashing, hand, result, swap, gc, phase, queue, latest, tok, old, writes>>
  BY DEF RecordClose, bounds
<1>2. phase = "initialized"
  BY <1>1 DEF Good, ModeOK, OffOK, InstallOK
<1>3. Roles
  BY <1>2 DEF Good, OnOK
<1>4. \A i \in Index : \E n \in Nat : pages'[i] = pages[i] \/ pages'[i] = [pages[i] EXCEPT !.open = n]
  <2> SUFFICES ASSUME NEW i \in Index
               PROVE  \E n \in Nat : pages'[i] = pages[i] \/ pages'[i] = [pages[i] EXCEPT !.open = n]
    OBVIOUS
  <2>1. CASE i \in DescPages /\ pages[i].open > 0
    <3>1. pages[i].open - 1 \in Nat
      BY <1>3, <2>1, RolesFacts
    <3> QED
      BY <1>1, <2>1, <3>1
  <2>2. CASE ~ (i \in DescPages /\ pages[i].open > 0)
    BY <1>1, <2>2
  <2> QED
    BY <2>1, <2>2
<1>5. \A i \in Index : /\ pages'[i] \in PageInfo /\ pages'[i].addr = pages[i].addr
                       /\ pages'[i].offset = pages[i].offset
                       /\ pages'[i].reserved = pages[i].reserved /\ pages'[i].type = pages[i].type
  <2> SUFFICES ASSUME NEW i \in Index
               PROVE  /\ pages'[i] \in PageInfo /\ pages'[i].addr = pages[i].addr
                      /\ pages'[i].offset = pages[i].offset
                      /\ pages'[i].reserved = pages[i].reserved /\ pages'[i].type = pages[i].type
    OBVIOUS
  <2>1. pages[i] \in PageInfo
    BY <1>3, RolesFacts
  <2>2. PICK n \in Nat : pages'[i] = pages[i] \/ pages'[i] = [pages[i] EXCEPT !.open = n]
    BY <1>4
  <2>3. CASE pages'[i] = pages[i]
    BY <2>1, <2>3
  <2>4. CASE pages'[i] = [pages[i] EXCEPT !.open = n]
    BY <2>1, <2>4, OpenSet
  <2> QED
    BY <2>2, <2>3, <2>4
<1>6. PagesKeep
  BY <1>1, <1>5 DEF PagesKeep, PageList
<1> QED
  BY <1>1, <1>2, <1>6, OpenChanges

(* A new operation comes to the head of the queue.                          *)
LEMMA SpaceShrinks ==
    ASSUME Roles, QueueOK, SpaceOK, pages' = pages, \A i \in Index : WritesOn(i)' \subseteq WritesOn(i)
    PROVE  SpaceOK'
<1>1. Spaced
  BY RolesFacts DEF Spaced
<1> QED
  BY <1>1, SpaceStays

\* what is true between two operations
LEMMA BetweenFacts ==
    ASSUME Good, phase = "initialized", ~ Working
    PROVE  /\ Roles /\ QueueOK /\ NumbersOK /\ SpaceOK /\ InitializedOK /\ FlashOK(flash, writes)
           /\ tok = TokStart /\ GcOK /\ gc.state = "begin" /\ gc.src = 0 /\ AllData /\ CleanSwap
           /\ \A i \in Index : Filled(OnPage(i), pages[i].offset)
           /\ \A i \in Index : pages[i].type = "data"
<1>1. /\ Roles /\ QueueOK /\ NumbersOK /\ SpaceOK /\ TokOK /\ GcOK /\ InitializedOK /\ FlashOK(flash, writes)
  BY DEF Good, OnOK, ModeOK
<1>2. ~ GcWorks /\ ~ Writing
  BY DEF GcWorks, Writing
<1>3. tok = TokStart
  BY <1>1 DEF TokOK
<1>4. gc.state = "begin" /\ gc.src = 0 /\ AllData /\ CleanSwap
  BY <1>1, <1>2 DEF GcOK
<1>5. \A i \in Index : Filled(OnPage(i), pages[i].offset)
  BY <1>1, <1>2 DEF InitializedOK, OffsetsOK, GcErased, Upto
<1> QED
  BY <1>1, <1>3, <1>4, <1>5 DEF InitializedOK

(* What stands in a queue that is not empty.                                *)
LEMMA HeadFirst ==
    \A s \in Seq(OpType) : Len(s) \in Nat /\ (Len(s) >= 1 => s # <<>> /\ Head(s) = s[1] /\ 1 \in 1 .. Len(s))
OBVIOUS

(* The next operation of the queue has done nothing yet.                    *)
LEMMA FreshHead ==
    ASSUME Good, phase = "initialized", ~ Working, hand' = "run", ~ Flying', queue' # <<>>, Op' = queue'[1],
           QueueOK', SpaceOK', Waits(queue[1])',
           UNCHANGED <<flash, swap, gc, phase, tok>>, pages' \in PageList,
           \A i \in Index : /\ pages'[i].addr = pages[i].addr /\ pages'[i].offset = pages[i].offset
                            /\ pages'[i].type = pages[i].type
    PROVE  /\ Roles' /\ WritingOK' /\ DeletingOK' /\ TokOK' /\ GcOK' /\ InitializedOK'
           /\ Working' /\ ~ Telling' /\ (IsWriteOp(queue[1])' => Level' = 0)
<1>1. /\ Roles /\ InitializedOK /\ FlashOK(flash, writes)
      /\ tok = TokStart /\ GcOK /\ gc.state = "begin" /\ gc.src = 0 /\ AllData /\ CleanSwap
      /\ \A i \in Index : Filled(OnPage(i), pages[i].offset)
      /\ \A i \in Index : pages[i].type = "data"
  BY BetweenFacts
<1>2. Working' /\ ~ Telling' /\ ~ FlagsOld'
  BY DEF Working, Telling, FlagsOld
<1>3. 1 \in 1 .. Len(queue') /\ OpOK(queue[1])' /\ queue' \in Seq(OpType)
  BY DEF QueueOK
<1>4. IsWriteOp(queue[1])' => Level' = 0 /\ Op'.step \in {"begin", "find"}
  <2>1. Level' = Groups[Op.step]'
    BY DEF Level
  <2>2. IsWriteOp(queue[1])' => queue'[1].step \in {"begin", "find"}
    BY DEF IsWriteOp, Waits
  <2> QED
    BY <2>1, <2>2 DEF Groups
<1>5. (\A i \in Index : OnPage(i)' = OnPage(i)) /\ OnSwap' = OnSwap
  BY DEF OnPage, OnSwap
<1>6. Writing' => \E p \in Index : /\ p = Op'.page /\ pages'[p].offset \in Places
  <2> SUFFICES ASSUME Writing' PROVE \E p \in Index : p = Op'.page /\ pages'[p].offset \in Places
    OBVIOUS
  <2>1. IsWriteOp(queue[1])'
    BY DEF Writing, IsWriteOp
  <2>2. PICK p \in Index : p = Op'.page
    BY <1>3, <2>1 DEF OpOK, IsWriteOp
  <2>3. queue'[1].id \in WritesOn(p)'
    BY <1>2, <1>3, <2>1, <2>2 DEF WritesOn, IsWriteOp
  <2> DEFINE W == WritesOn(p)'
             c == Cardinality(W)
             o == pages'[p].offset
             r == pages'[p].reserved
  <2>4. IsFiniteSet(W)
    <3>1. latest' \in Nat
      BY DEF QueueOK
    <3>2. W \in SUBSET (1 .. latest')
      BY DEF WritesOn, QueueOK, OpOK, IsWriteOp
    <3>3. IsFiniteSet(1 .. latest')
      BY <3>1, FS_Interval
    <3> QED
      BY <3>2, <3>3, FS_Subset
  <2>5. c # 0 /\ c \in Nat
    <3>1. W # {}
      BY <2>3
    <3> HIDE DEF W
    <3> QED
      BY <2>4, <3>1, FS_EmptySet, FS_CardinalityType
  <2>6. c <= r /\ o + r <= Slots + 1
    BY DEF SpaceOK
  <2>7. pages'[p] \in PageInfo
    BY DEF PageList
  <2>8. o \in 1 .. Slots + 1 /\ r \in 0 .. Slots
    BY <2>7, PageInfoFacts
  <2>9. o \in Nat /\ r \in Nat /\ 1 <= o
    BY <2>8, ConstantFacts
  <2> HIDE DEF o, r, c, W
  <2>10. o <= Slots
    BY <2>5, <2>6, <2>9, ConstantFacts
  <2>11. o \in Places
    BY <2>9, <2>10, ConstantFacts DEF Places
  <2> QED
    BY <2>2, <2>11 DEF o
<1>7. WritingOK'
  <2> SUFFICES ASSUME Writing' PROVE WritingOK'
    BY DEF WritingOK
  <2>1. PICK p \in Index : p = Op'.page /\ pages'[p].offset \in Places
    BY <1>6
  <2>2. IsWriteOp(queue[1])' /\ Level' = 0 /\ Op'.step \in {"begin", "find"}
    BY <1>4 DEF Writing, IsWriteOp
  <2>3. Content(Op, Level)' = Empty
    BY <2>2 DEF Content, Empty
  <2>4. Filled(OnPage(p), pages[p].offset) /\ pages'[p].offset = pages[p].offset
    BY <1>1
  <2>5. OnPage(p).slot[pages'[p].offset] = Empty
    <3>1. ~ (pages'[p].offset < pages[p].offset)
      BY <2>1, <2>4, FilledRange
    <3> QED
      BY <2>1, <2>4, <3>1 DEF Filled
  <2>6. OnPage(Op.page)' = OnPage(p) /\ WriteSlot' = pages'[p].offset
    BY <1>5, <2>1 DEF OnPage, WriteSlot
  <2> QED
    BY <1>2, <2>2, <2>3, <2>5, <2>6 DEF WritingOK
<1>8. DeletingOK' /\ TokOK'
  BY <1>1 DEF DeletingOK, TokOK
<1>9. (AllData' <=> AllData) /\ (CleanSwap' <=> CleanSwap)
  BY <1>5 DEF AllData, CleanSwap
<1>10. GcOK'
  BY <1>1, <1>9 DEF GcOK
<1>11. Roles'
  <2>1. swap' \in SwapInfo /\ swap'.addr = swap.addr
    BY <1>1 DEF Roles
  <2> QED
    BY <1>1, <2>1, RolesStay
<1>12. OffsetsOK'
  <2>1. \A i \in Index : Upto(i)' = pages[i].offset
    <3> SUFFICES ASSUME NEW i \in Index PROVE Upto(i)' = pages[i].offset
      OBVIOUS
    <3>1. Writing' => ~ (Level' > 0)
      BY <1>4 DEF Writing, IsWriteOp
    <3> QED
      BY <3>1 DEF Upto
  <2> QED
    BY <1>1, <1>5, <2>1 DEF OffsetsOK
<1>13. InitializedOK'
  <2>1. \A i \in Index : pages'[i].type = "data"
    BY <1>1
  <2>2. ~ (Op.code = "init")'
    BY DEF Waits
  <2> QED
    BY <1>2, <1>12, <2>1, <2>2 DEF InitializedOK
<1> QED
  BY <1>2, <1>4, <1>7, <1>8, <1>10, <1>11, <1>13

\* the queue without its head
LEMMA TailOK ==
    ASSUME QueueOK, queue # <<>>, queue' = Tail(queue), UNCHANGED <<latest, writes>>
    PROVE  /\ queue \in Seq(OpType) /\ Len(queue) \in Nat /\ Len(queue) >= 1
           /\ queue' \in Seq(OpType) /\ Len(queue') = Len(queue) - 1
           /\ \A k \in 1 .. Len(queue') : /\ k + 1 \in 1 .. Len(queue) /\ queue'[k] = queue[k + 1] /\ k + 1 > 1
                                          /\ k + 1 # 1
           /\ \A k \in 1 .. Len(queue') : Waits(queue[k])'
           /\ \A i : WritesOn(i)' \subseteq WritesOn(i)
           /\ QueueOK'
<1>1. queue' = Tail(queue) /\ latest' = latest /\ writes' = writes
  OBVIOUS
<1>4. QueueOK
  OBVIOUS
<1>5. /\ queue \in Seq(OpType) /\ Len(queue) \in Nat /\ Len(queue) >= 1 /\ Len(queue) <= QueueSize
  BY OpFacts DEF QueueOK
<1>6. /\ queue' \in Seq(OpType) /\ Len(queue') = Len(queue) - 1
      /\ \A k \in 1 .. Len(queue') : /\ k + 1 \in 1 .. Len(queue) /\ queue'[k] = queue[k + 1] /\ k + 1 > 1
                                     /\ k + 1 # 1
  BY <1>1, <1>5
<1>7. \A k \in 1 .. Len(queue') : OpOK(queue'[k]) /\ Waits(queue'[k])
  BY <1>4, <1>6 DEF QueueOK
<1>8. \A k \in 1 .. Len(queue') : OpOK(queue[k])' /\ Waits(queue[k])'
  BY <1>1, <1>7 DEF OpOK, Waits, IsWriteOp
<1>9. QueueOK'
  <2>1. \A k, l \in 1 .. Len(queue') :
          /\ IsWriteOp(queue'[k]) /\ IsWriteOp(queue'[l])
          /\ queue'[k].id = queue'[l].id \/ queue'[k].data = queue'[l].data
          => k = l
    <3> SUFFICES ASSUME NEW k \in 1 .. Len(queue'), NEW l \in 1 .. Len(queue'),
                        IsWriteOp(queue'[k]), IsWriteOp(queue'[l]),
                        queue'[k].id = queue'[l].id \/ queue'[k].data = queue'[l].data
                 PROVE  k = l
      OBVIOUS
    <3>1. PICK x \in 1 .. Len(queue), y \in 1 .. Len(queue) :
            x = k + 1 /\ y = l + 1 /\ queue[x] = queue'[k] /\ queue[y] = queue'[l]
      BY <1>6
    <3>2. x = y
      BY <1>4, <3>1 DEF QueueOK
    <3> QED
      BY <3>1, <3>2
  <2>2. Len(queue') <= QueueSize
    BY <1>5, <1>6, ConstantFacts
  <2> QED
    BY <1>1, <1>4, <1>6, <1>8, <2>1, <2>2 DEF QueueOK, IsWriteOp
<1>10. \A i : WritesOn(i)' \subseteq WritesOn(i)
  <2> SUFFICES ASSUME NEW i, NEW k \in 1 .. Len(queue'), IsWriteOp(queue'[k]), queue'[k].page = i
               PROVE  queue'[k].id \in WritesOn(i)
    BY DEF WritesOn, IsWriteOp
  <2> QED
    BY <1>6 DEF WritesOn
<1> QED
  BY <1>5, <1>6, <1>8, <1>9, <1>10

(* Its users are told, and an operation leaves the queue.                   *)
LEMMA DoQueueNext == ASSUME Good, QueueNext PROVE Good'
<1>1. /\ hand = "event" /\ queue' = Tail(queue) /\ result' = "success"
      /\ hand' = IF Len(queue) > 1 THEN "run" ELSE "idle"
      /\ UNCHANGED <<flash, flashing, pages, swap, gc, phase, latest, tok, old, opened, writes>>
  BY DEF QueueNext, bounds
<1>2. phase = "initialized" /\ Telling
  BY <1>1 DEF Good, ModeOK, OffOK, InstallOK, InitializedOK, Working, Resting
<1>3. ~ Working /\ ~ Flying /\ queue # <<>> /\ ~ Flying'
  BY <1>1, <1>2 DEF Working, Telling, Flying
<1>4. /\ Roles /\ QueueOK /\ NumbersOK /\ SpaceOK /\ InitializedOK /\ FlashOK(flash, writes)
      /\ tok = TokStart /\ GcOK /\ gc.state = "begin" /\ gc.src = 0 /\ AllData /\ CleanSwap
      /\ \A i \in Index : Filled(OnPage(i), pages[i].offset)
      /\ \A i \in Index : pages[i].type = "data"
  BY <1>2, <1>3, BetweenFacts
<1>5. /\ queue \in Seq(OpType) /\ Len(queue) \in Nat /\ Len(queue) >= 1
      /\ queue' \in Seq(OpType) /\ Len(queue') = Len(queue) - 1
      /\ \A k \in 1 .. Len(queue') : /\ k + 1 \in 1 .. Len(queue) /\ queue'[k] = queue[k + 1] /\ k + 1 > 1
                                     /\ k + 1 # 1
      /\ \A k \in 1 .. Len(queue') : Waits(queue[k])'
      /\ \A i : WritesOn(i)' \subseteq WritesOn(i)
      /\ QueueOK'
  BY <1>1, <1>3, <1>4, TailOK
<1>10. NumbersOK'
  <2>1. \A k \in 1 .. Len(queue') : Uncommitted(k)' => Uncommitted(k + 1)
    BY <1>5 DEF Uncommitted
  <2>2. \A k \in 1 .. Len(queue') : Uncommitted(k)' =>
           queue'[k].id \notin IdsIn(flash) /\ queue'[k].data \notin StoredIn(flash)
    BY <1>4, <1>5, <2>1 DEF NumbersOK
  <2> QED
    BY <1>1, <1>4, <2>2 DEF NumbersOK
<1>11. SpaceOK'
  BY <1>1, <1>4, <1>5, SpaceShrinks
<1>12. CASE Len(queue) > 1
  <2>0. queue' \in Seq(OpType) /\ Len(queue') = Len(queue) - 1 /\ Len(queue) \in Nat
    BY <1>5
  <2>1. queue' # <<>> /\ Op' = queue'[1] /\ hand' = "run" /\ 1 \in 1 .. Len(queue')
    <3>1. Len(queue') >= 1
      BY <1>12, <2>0
    <3>2. queue' # <<>> /\ Head(queue') = queue'[1] /\ 1 \in 1 .. Len(queue')
      BY <2>0, <3>1, HeadFirst
    <3> QED
      BY <1>1, <1>12, <3>2 DEF Op
  <2>2. Waits(queue[1])' /\ pages' \in PageList
    BY <1>1, <1>4, <1>5, <2>1 DEF Roles
  <2>3. /\ Roles' /\ WritingOK' /\ DeletingOK' /\ TokOK' /\ GcOK' /\ InitializedOK'
    BY <1>1, <1>2, <1>3, <1>5, <1>11, <2>1, <2>2, FreshHead
  <2>4. ModeOK'
    BY <1>1, <1>2, <2>3 DEF ModeOK
  <2> QED
    BY <1>1, <1>4, <1>5, <1>10, <1>11, <2>3, <2>4 DEF Good, OnOK
<1>13. CASE ~ (Len(queue) > 1)
  <2>1. queue' = <<>> /\ hand' = "idle"
    BY <1>1, <1>5, <1>13
  <2>2. Resting' /\ ~ Working' /\ ~ Telling'
    BY <1>3, <2>1 DEF Resting, Working, Telling
  <2>3. (\A i \in Index : OnPage(i)' = OnPage(i)) /\ OnSwap' = OnSwap
    BY <1>1 DEF OnPage, OnSwap
  <2>4. WritingOK' /\ DeletingOK' /\ TokOK' /\ Roles'
    BY <1>1, <1>4, <2>2 DEF WritingOK, Writing, DeletingOK, Deleting, TokOK, Roles
  <2>5. (AllData' <=> AllData) /\ (CleanSwap' <=> CleanSwap)
    BY <1>1, <2>3 DEF AllData, CleanSwap
  <2>6. GcOK'
    BY <1>1, <1>4, <2>2, <2>5 DEF GcOK, GcWorks
  <2>7. OffsetsOK'
    BY <1>1, <1>4, <2>2, <2>3 DEF OffsetsOK, Upto, Writing
  <2>8. InitializedOK'
    BY <1>1, <1>4, <2>1, <2>2, <2>7 DEF InitializedOK
  <2>9. ModeOK'
    BY <1>1, <1>2, <2>8 DEF ModeOK
  <2> QED
    BY <1>1, <1>4, <1>5, <1>10, <1>11, <2>4, <2>6, <2>9 DEF Good, OnOK
<1> QED
  BY <1>12, <1>13

(* A call of a client puts an operation at the end of the queue.            *)
LEMMA CallFacts ==
    ASSUME Good, CanCall
    PROVE  /\ phase = "initialized" /\ Roles /\ QueueOK /\ NumbersOK /\ SpaceOK /\ GcOK /\ InitializedOK
           /\ FlashOK(flash, writes) /\ queue \in Seq(OpType) /\ Len(queue) \in Nat /\ Len(queue) < QueueSize
           /\ latest \in Nat /\ writes \in Nat
           /\ queue = <<>> => Resting
           /\ queue # <<>> => 1 <= Len(queue) /\ (Working \/ Telling)
<1>1. phase = "initialized" /\ Len(queue) < QueueSize
  BY DEF CanCall
<1>2. Roles /\ QueueOK /\ NumbersOK /\ SpaceOK /\ GcOK /\ InitializedOK /\ FlashOK(flash, writes)
  BY <1>1 DEF Good, OnOK, ModeOK
<1>3. queue \in Seq(OpType) /\ Len(queue) \in Nat /\ latest \in Nat /\ writes \in Nat
  BY <1>2 DEF QueueOK
<1>4. queue = <<>> => Resting
  BY <1>2 DEF InitializedOK, Working, Telling
<1>5. queue # <<>> => 1 <= Len(queue) /\ (Working \/ Telling)
  BY <1>2, OpFacts DEF InitializedOK, Resting
<1> QED
  BY <1>1, <1>2, <1>3, <1>4, <1>5

(* A sequence with one element more.                                        *)
LEMMA Appended ==
    ASSUME NEW s \in Seq(OpType), NEW op \in OpType
    PROVE  /\ Append(s, op) \in Seq(OpType) /\ Len(Append(s, op)) = Len(s) + 1 /\ Append(s, op) # <<>>
           /\ \A k \in 1 .. Len(s) : k \in 1 .. Len(s) + 1 /\ Append(s, op)[k] = s[k]
           /\ Append(s, op)[Len(s) + 1] = op
           /\ \A k \in 1 .. Len(s) + 1 : k \in 1 .. Len(s) \/ k = Len(s) + 1
           /\ Len(s) \in Nat /\ Len(s) + 1 \in 1 .. Len(s) + 1
OBVIOUS

(* Its length.                                                              *)
LEMMA AppendedLen ==
    ASSUME NEW s \in Seq(OpType), NEW op \in OpType
    PROVE  /\ 1 \in 1 .. Len(Append(s, op))
           /\ \A n \in Nat : Len(s) < n => Len(Append(s, op)) <= n
           /\ \A k \in 1 .. Len(s) : s # <<>>
OBVIOUS

\* the head, and what is being executed, of the queue with op at its end
LEMMA HeadThen ==
    ASSUME queue \in Seq(OpType), queue = <<>> => Resting, NEW op \in OpType, Enqueue(op), flashing' = flashing
    PROVE  /\ queue' = Append(queue, op) /\ queue' # <<>> /\ Op' = queue'[1]
           /\ queue = <<>> => /\ queue'[1] = op /\ hand' = "run" /\ ~ Flying' /\ ~ Working /\ ~ Telling
                              /\ Working' /\ ~ Telling' /\ result' = "success"
           /\ queue # <<>> => /\ Op' = Op /\ hand' = hand /\ result' = result
                              /\ (Working' <=> Working) /\ (Telling' <=> Telling)
<1>1. /\ queue \in Seq(OpType) /\ Len(queue) \in Nat /\ (queue = <<>> => Resting)
  OBVIOUS
<1>2. queue' = Append(queue, op)
  BY DEF Enqueue
<1>3. queue' # <<>> /\ Op' = queue'[1] /\ queue' \in Seq(OpType)
  <2>1. queue' \in Seq(OpType) /\ queue' # <<>>
    BY <1>1, <1>2, Appended
  <2> QED
    BY <2>1 DEF Op
<1>4. CASE queue = <<>>
  <2>1. queue'[1] = op
    BY <1>1, <1>2, <1>4
  <2>2. hand' = "run" /\ result' = "success"
    BY <1>4 DEF Enqueue
  <2> QED
    BY <1>1, <1>2, <1>3, <1>4, <2>1, <2>2 DEF Resting, Flying, Working, Telling
<1>5. CASE queue # <<>>
  <2>1. 1 \in 1 .. Len(queue) /\ Op = queue[1]
    BY <1>1, <1>5 DEF Op
  <2>2. queue'[1] = queue[1]
    BY <1>1, <1>2, <2>1, Appended
  <2>3. hand' = hand /\ result' = result
    BY <1>5 DEF Enqueue
  <2> QED
    BY <1>2, <1>3, <1>5, <2>1, <2>2, <2>3 DEF Flying, Working, Telling
<1> QED
  BY <1>4, <1>5

(* Of the writes on a page, a call adds its own at most.                    *)
LEMMA WritesGrow ==
    ASSUME queue \in Seq(OpType), queue = <<>> => Resting, NEW op \in OpType, Enqueue(op),
           flashing' = flashing, NEW i
    PROVE  /\ ~ (IsWriteOp(op) /\ op.page = i) => WritesOn(i)' \subseteq WritesOn(i)
           /\ WritesOn(i)' \subseteq WritesOn(i) \union {op.id}
<1>1. queue \in Seq(OpType) /\ queue' = Append(queue, op)
  BY DEF Enqueue
<1>2. ~ Telling' => ~ Telling
  BY HeadThen
<1>3. \A k \in 1 .. Len(queue') : IsWriteOp(queue'[k]) /\ queue'[k].page = i /\ (k = 1 => ~ Telling')
         => queue'[k].id \in WritesOn(i) \/ queue'[k] = op
  <2> SUFFICES ASSUME NEW k \in 1 .. Len(queue'), IsWriteOp(queue'[k]), queue'[k].page = i,
                      k = 1 => ~ Telling', queue'[k] # op
               PROVE  queue'[k].id \in WritesOn(i)
    OBVIOUS
  <2>1. k \in 1 .. Len(queue) /\ queue'[k] = queue[k]
    BY <1>1, Appended
  <2> QED
    BY <1>2, <2>1 DEF WritesOn
<1> QED
  BY <1>3 DEF WritesOn, IsWriteOp

(* The stored records are among those asked for so far.                     *)
LEMMA StoredBounded ==
    ASSUME NEW f, NEW w, FlashOK(f, w)
    PROVE  StoredIn(f) \subseteq 1 .. w
<1> SUFFICES ASSUME NEW d \in StoredIn(f) PROVE d \in 1 .. w
  OBVIOUS
<1>1. PICK p \in Phys, i \in Places : Holds(f, p, i) /\ f[p].slot[i].data = d
  BY StoredMember
<1> QED
  BY <1>1 DEF FlashOK, Numbered

(* A number that is new is beyond those handed out.                         *)
LEMMA Bigger ==
    ASSUME NEW a \in Nat, NEW b \in Nat, a <= b
    PROVE  /\ \A n : n \in 1 .. a => n \in 1 .. b
           /\ \A n \in Nat : a < n /\ n <= b => n \in 1 .. b /\ n \notin 1 .. a
OBVIOUS

\* fresh numbers, when the counters have gone up
LEMMA NumbersRise ==
    ASSUME latest \in Nat, writes \in Nat, latest' \in Nat, writes' \in Nat, latest <= latest', writes <= writes',
           NEW op \in OpType,
           IsWriteOp(op) => /\ latest < op.id /\ op.id <= latest' /\ writes < op.data /\ op.data <= writes'
    PROVE  /\ \A n : n \in 1 .. latest => n \in 1 .. latest'
           /\ \A n : n \in 1 .. writes => n \in 1 .. writes'
           /\ IsWriteOp(op) => /\ op.id \in 1 .. latest' /\ op.data \in 1 .. writes'
                               /\ op.id \notin 1 .. latest /\ op.data \notin 1 .. writes
<1>1. op.id \in Nat /\ op.data \in Nat
  <2> DEFINE P == 0 .. DataPages
  <2>1. OpType = [code : Codes, step : Steps, page : P, id : Nat, data : Nat,
                  file : Files \union {NoFile}, key : Keys \union {"none"}, target : Nat \union {-1}]
    BY DEF OpType
  <2> HIDE DEF P
  <2> QED
    BY <2>1
<1> QED
  BY <1>1, Bigger

(* The queue stays in order when an operation that waits joins it.          *)
LEMMA EnqueueOK ==
    ASSUME QueueOK, Len(queue) < QueueSize, NEW op \in OpType, queue' = Append(queue, op), Waits(op),
           op.code = "delete file" => op.step = "flag",
           latest' \in Nat, writes' \in Nat, latest <= latest', writes <= writes',
           IsWriteOp(op) => /\ op.page \in Index /\ op.file \in Files /\ op.key \in Keys
                            /\ latest < op.id /\ op.id <= latest' /\ writes < op.data /\ op.data <= writes'
    PROVE  QueueOK'
<1>0. queue \in Seq(OpType) /\ latest \in Nat /\ writes \in Nat
  BY DEF QueueOK
<1>1. QueueOK /\ queue \in Seq(OpType) /\ Len(queue) \in Nat /\ Len(queue) < QueueSize
      /\ latest \in Nat /\ writes \in Nat
  <2>1. Len(queue) \in Nat
    BY <1>0, HeadFirst
  <2> QED
    BY <1>0, <2>1
<1>2. queue' = Append(queue, op)
  OBVIOUS
<1>3. /\ queue' \in Seq(OpType) /\ Len(queue') = Len(queue) + 1
      /\ \A k \in 1 .. Len(queue) : k \in 1 .. Len(queue') /\ queue'[k] = queue[k]
      /\ queue'[Len(queue) + 1] = op
      /\ \A k \in 1 .. Len(queue') : k \in 1 .. Len(queue) \/ k = Len(queue) + 1
  BY <1>1, Appended
<1>4. /\ \A n : n \in 1 .. latest => n \in 1 .. latest'
      /\ \A n : n \in 1 .. writes => n \in 1 .. writes'
      /\ IsWriteOp(op) => /\ op.id \in 1 .. latest' /\ op.data \in 1 .. writes'
                          /\ op.id \notin 1 .. latest /\ op.data \notin 1 .. writes
  BY <1>1, NumbersRise
<1>5. OpOK(op)'
  <2>1. IsWriteOp(op) => op.id \in 1 .. latest' /\ op.data \in 1 .. writes'
    BY <1>4
  <2> QED
    BY <2>1 DEF OpOK, Waits, IsWriteOp
<1>6. \A k \in 1 .. Len(queue) : OpOK(queue[k]) => OpOK(queue[k])' \/ queue'[k] # queue[k]
  <2> QED
    BY <1>4 DEF OpOK, IsWriteOp
<1>7. \A k \in 1 .. Len(queue') : OpOK(queue[k])' /\ (k > 1 => Waits(queue[k])')
  <2> SUFFICES ASSUME NEW k \in 1 .. Len(queue') PROVE OpOK(queue[k])' /\ (k > 1 => Waits(queue[k])')
    OBVIOUS
  <2>1. CASE k \in 1 .. Len(queue)
    <3>1. queue'[k] = queue[k] /\ OpOK(queue[k]) /\ (k > 1 => Waits(queue[k]))
      BY <1>1, <1>3, <2>1 DEF QueueOK
    <3>2. k > 1 => Waits(queue[k])'
      BY <3>1 DEF Waits
    <3> QED
      BY <1>6, <2>1, <3>1, <3>2
  <2>2. CASE k = Len(queue) + 1
    <3>1. queue'[k] = op
      BY <1>3, <2>2
    <3>2. Waits(queue[k])'
      BY <3>1 DEF Waits
    <3>3. OpOK(queue[k])'
      BY <1>5, <3>1 DEF OpOK, IsWriteOp
    <3> QED
      BY <3>2, <3>3
  <2> QED
    BY <1>3, <2>1, <2>2
<1>8. QueueOK'
  <2>1. \A k \in 1 .. Len(queue) : IsWriteOp(queue[k]) /\ IsWriteOp(op) =>
            queue[k].id # op.id /\ queue[k].data # op.data
    <3> SUFFICES ASSUME NEW k \in 1 .. Len(queue), IsWriteOp(queue[k]), IsWriteOp(op)
                 PROVE  queue[k].id # op.id /\ queue[k].data # op.data
      OBVIOUS
    <3>1. queue[k].id \in 1 .. latest /\ queue[k].data \in 1 .. writes
      BY <1>1 DEF QueueOK, OpOK
    <3> QED
      BY <1>4, <3>1
  <2>2. \A k, l \in 1 .. Len(queue') :
          /\ IsWriteOp(queue'[k]) /\ IsWriteOp(queue'[l])
          /\ queue'[k].id = queue'[l].id \/ queue'[k].data = queue'[l].data
          => k = l
    <3> SUFFICES ASSUME NEW k \in 1 .. Len(queue'), NEW l \in 1 .. Len(queue'),
                        IsWriteOp(queue'[k]), IsWriteOp(queue'[l]),
                        queue'[k].id = queue'[l].id \/ queue'[k].data = queue'[l].data
                 PROVE  k = l
      OBVIOUS
    <3>1. (k \in 1 .. Len(queue) /\ queue'[k] = queue[k]) \/ (k = Len(queue) + 1 /\ queue'[k] = op)
      BY <1>3
    <3>2. (l \in 1 .. Len(queue) /\ queue'[l] = queue[l]) \/ (l = Len(queue) + 1 /\ queue'[l] = op)
      BY <1>3
    <3>3. k \in 1 .. Len(queue) /\ l \in 1 .. Len(queue) /\ queue'[k] = queue[k] /\ queue'[l] = queue[l] => k = l
      BY <1>1 DEF QueueOK
    <3> QED
      BY <2>1, <3>1, <3>2, <3>3
  <2>3. Len(queue') <= QueueSize
    BY <1>1, <1>2, AppendedLen, ConstantFacts
  <2>4. \A k : IsWriteOp(queue[k])' <=> IsWriteOp(queue'[k])
    BY DEF IsWriteOp
  <2> QED
    BY <1>3, <1>7, <2>2, <2>3, <2>4 DEF QueueOK
<1> QED
  BY <1>8

(* What a call has to show: its operation waits, with fresh numbers, and    *)
(* has its space.                                                           *)
LEMMA DoEnqueue ==
    ASSUME Good, CanCall, NEW op \in OpType, Enqueue(op), Waits(op),
           op.code = "delete file" => op.step = "flag",
           UNCHANGED <<flash, flashing, swap, gc, phase, tok, old>>,
           pages' \in PageList,
           \A i \in Index : /\ pages'[i].addr = pages[i].addr /\ pages'[i].offset = pages[i].offset
                            /\ pages'[i].type = pages[i].type,
           latest' \in Nat, writes' \in Nat, latest <= latest', writes <= writes',
           IsWriteOp(op) => /\ op.page \in Index /\ op.file \in Files /\ op.key \in Keys
                            /\ latest < op.id /\ op.id <= latest' /\ writes < op.data /\ op.data <= writes',
           SpaceOK'
    PROVE  Good'
<1>1. /\ phase = "initialized" /\ Roles /\ QueueOK /\ NumbersOK /\ GcOK /\ InitializedOK
      /\ FlashOK(flash, writes) /\ queue \in Seq(OpType) /\ Len(queue) \in Nat /\ Len(queue) < QueueSize
      /\ latest \in Nat /\ writes \in Nat
      /\ queue # <<>> => 1 <= Len(queue)
      /\ queue = <<>> => Resting
  BY CallFacts
<1>2. /\ queue' = Append(queue, op) /\ queue' # <<>> /\ Op' = queue'[1]
      /\ queue = <<>> => /\ queue'[1] = op /\ hand' = "run" /\ ~ Flying' /\ ~ Working /\ ~ Telling
                         /\ Working' /\ ~ Telling' /\ result' = "success"
      /\ queue # <<>> => /\ Op' = Op /\ hand' = hand /\ result' = result
                         /\ (Working' <=> Working) /\ (Telling' <=> Telling)
  BY <1>1, HeadThen
<1>3. /\ queue' \in Seq(OpType) /\ Len(queue') = Len(queue) + 1
      /\ \A k \in 1 .. Len(queue) : k \in 1 .. Len(queue') /\ queue'[k] = queue[k]
      /\ queue'[Len(queue) + 1] = op
      /\ \A k \in 1 .. Len(queue') : k \in 1 .. Len(queue) \/ k = Len(queue) + 1
  <2>1. queue \in Seq(OpType) /\ queue' = Append(queue, op)
    BY <1>1, <1>2
  <2> QED
    BY <2>1, Appended
<1>0. /\ \A n : n \in 1 .. latest => n \in 1 .. latest'
      /\ \A n : n \in 1 .. writes => n \in 1 .. writes'
      /\ IsWriteOp(op) => op.id \notin 1 .. latest /\ op.data \notin 1 .. writes
  BY <1>1, NumbersRise
<1>8. QueueOK'
  BY <1>1, <1>2, EnqueueOK
<1>9. 1 \in 1 .. Len(queue')
  BY <1>1, <1>2, AppendedLen
<1>10. /\ Roles' /\ WritingOK' /\ DeletingOK' /\ TokOK' /\ GcOK' /\ InitializedOK'
       /\ queue # <<>> => Level' = Level
  <2>1. CASE queue = <<>>
    <3>1. Waits(queue[1])'
      BY <1>2, <2>1 DEF Waits
    <3> QED
      BY <1>1, <1>2, <1>8, <2>1, <3>1, FreshHead
  <2>2. CASE queue # <<>>
    <3>1. /\ Roles' /\ WritingOK' /\ DeletingOK' /\ TokOK' /\ GcOK' /\ OffsetsOK'
          /\ (Working' <=> Working) /\ (Telling' <=> Telling) /\ Level' = Level
      BY <1>1, <1>2, <2>2, HeadStays
    <3>2. InitializedOK'
      BY <1>1, <1>2, <2>2, <3>1 DEF InitializedOK, Resting
    <3> QED
      BY <3>1, <3>2
  <2> QED
    BY <2>1, <2>2
<1>11. FlashOK(flash, writes')
  <2> QED
    BY <1>0, <1>1 DEF FlashOK, Numbered
<1>12. NumbersOK'
  <2>1. IdsIn(flash) \subseteq 1 .. latest'
    <3> QED
      BY <1>0, <1>1 DEF NumbersOK
  <2>2. IsWriteOp(op) => op.id \notin IdsIn(flash) /\ op.data \notin StoredIn(flash)
    <3> SUFFICES ASSUME IsWriteOp(op) PROVE op.id \notin IdsIn(flash) /\ op.data \notin StoredIn(flash)
      OBVIOUS
    <3>1. op.id \notin 1 .. latest /\ op.data \notin 1 .. writes
      BY <1>0
    <3>2. StoredIn(flash) \subseteq 1 .. writes
      BY <1>1, StoredBounded
    <3> QED
      BY <1>1, <3>1, <3>2 DEF NumbersOK
  <2>3. \A k \in 1 .. Len(queue') : Uncommitted(k)' =>
           queue'[k].id \notin IdsIn(flash) /\ queue'[k].data \notin StoredIn(flash)
    <3> SUFFICES ASSUME NEW k \in 1 .. Len(queue'), Uncommitted(k)'
                 PROVE  queue'[k].id \notin IdsIn(flash) /\ queue'[k].data \notin StoredIn(flash)
      OBVIOUS
    <3>0. IsWriteOp(queue'[k])
      BY DEF Uncommitted, IsWriteOp
    <3>1. CASE k \in 1 .. Len(queue)
      <4>1. queue'[k] = queue[k] /\ queue # <<>>
        BY <1>1, <1>3, <3>1, AppendedLen
      <4>2. (k = 1)' => Working' /\ Level' < 4
        BY DEF Uncommitted
      <4>3. k = 1 => Working /\ Level < 4
        BY <1>2, <1>10, <4>1, <4>2
      <4>4. Uncommitted(k)
        BY <3>0, <4>1, <4>3 DEF Uncommitted
      <4> QED
        BY <1>1, <3>1, <4>1, <4>4 DEF NumbersOK
    <3>2. CASE k = Len(queue) + 1
      BY <1>3, <2>2, <3>0, <3>2
    <3> QED
      BY <1>3, <3>1, <3>2
  <2> QED
    BY <2>1, <2>3 DEF NumbersOK
<1>13. ModeOK'
  <2>1. result' = "success" \/ hand' = "event"
    BY <1>2 DEF Good, ModeOK
  <2> QED
    BY <1>1, <1>10, <2>1 DEF ModeOK
<1> QED
  BY <1>8, <1>10, <1>11, <1>12, <1>13 DEF Good, OnOK

(* The calls of a client.                                                   *)
Numbers(op, m, a, d) == [op EXCEPT !.page = m, !.id = a, !.data = d]
WriteOp(f, k) == [NewOp EXCEPT !.code = "write", !.step = "begin", !.file = f, !.key = k]
UpdateOp(f, k, id) ==
    [NewOp EXCEPT !.code = "update", !.step = "find", !.file = f, !.key = k, !.target = id]
DeleteOp(id) == [NewOp EXCEPT !.code = "delete", !.step = "flag", !.target = id]
FileOp(f) == [NewOp EXCEPT !.code = "delete file", !.step = "flag", !.file = f]

(* An operation gets its page and its numbers.                              *)
LEMMA OpSet ==
    ASSUME NEW op \in OpType, NEW m \in Index, NEW a \in Nat, NEW d \in Nat
    PROVE  /\ Numbers(op, m, a, d) \in OpType
           /\ Numbers(op, m, a, d).page = m /\ Numbers(op, m, a, d).id = a
           /\ Numbers(op, m, a, d).data = d /\ Numbers(op, m, a, d).code = op.code
           /\ Numbers(op, m, a, d).step = op.step /\ Numbers(op, m, a, d).file = op.file
           /\ Numbers(op, m, a, d).key = op.key /\ Numbers(op, m, a, d).target = op.target
<1> DEFINE P == 0 .. DataPages
<1>1. OpType = [code : Codes, step : Steps, page : P, id : Nat, data : Nat,
                file : Files \union {NoFile}, key : Keys \union {"none"}, target : Nat \union {-1}]
  BY DEF OpType
<1>2. Index \subseteq P
  BY ConstantFacts DEF Index
<1> HIDE DEF P
<1> QED
  BY <1>1, <1>2 DEF Numbers

(* The operations of the calls.                                             *)
LEMMA NewOpFacts ==
    /\ NewOp \in OpType /\ Waits(NewOp) /\ NewOp.code = "gc"
    /\ \A f \in Files, k \in Keys : /\ WriteOp(f, k) \in OpType /\ WriteOp(f, k).code = "write"
                                 /\ WriteOp(f, k).step = "begin" /\ WriteOp(f, k).file = f /\ WriteOp(f, k).key = k
    /\ \A id \in Nat \union {-1} : DeleteOp(id) \in OpType /\ DeleteOp(id).code = "delete" /\ DeleteOp(id).step = "flag"
    /\ \A f \in Files : FileOp(f) \in OpType /\ FileOp(f).code = "delete file" /\ FileOp(f).step = "flag"
<1> DEFINE P == 0 .. DataPages
<1>1. OpType = [code : Codes, step : Steps, page : P, id : Nat, data : Nat,
                file : Files \union {NoFile}, key : Keys \union {"none"}, target : Nat \union {-1}]
  BY DEF OpType
<1>2. 0 \in P
  BY ConstantFacts
<1> HIDE DEF P
<1>3. NewOp \in OpType /\ NewOp.code = "gc"
  BY <1>1, <1>2 DEF NewOp, Codes, Steps
<1>4. Waits(NewOp)
  BY <1>3 DEF Waits
<1>5. \A f \in Files, k \in Keys : /\ WriteOp(f, k) \in OpType /\ WriteOp(f, k).code = "write"
                                 /\ WriteOp(f, k).step = "begin" /\ WriteOp(f, k).file = f /\ WriteOp(f, k).key = k
  BY <1>1, <1>3 DEF WriteOp, Codes, Steps
<1>6. \A id \in Nat \union {-1} : DeleteOp(id) \in OpType /\ DeleteOp(id).code = "delete" /\ DeleteOp(id).step = "flag"
  BY <1>1, <1>3 DEF DeleteOp, Codes, Steps
<1>7. \A f \in Files : FileOp(f) \in OpType /\ FileOp(f).code = "delete file" /\ FileOp(f).step = "flag"
  BY <1>1, <1>3 DEF FileOp, Codes, Steps
<1> QED
  BY <1>3, <1>4, <1>5, <1>6, <1>7

(* The operation of an update.                                              *)
LEMMA UpdateOpFacts ==
    ASSUME NEW f \in Files, NEW k \in Keys, NEW id \in Nat \union {-1}
    PROVE  /\ UpdateOp(f, k, id) \in OpType
           /\ UpdateOp(f, k, id).code = "update" /\ UpdateOp(f, k, id).step = "find"
           /\ UpdateOp(f, k, id).file = f /\ UpdateOp(f, k, id).key = k /\ UpdateOp(f, k, id).target = id
<1> DEFINE P == 0 .. DataPages
<1>1. OpType = [code : Codes, step : Steps, page : P, id : Nat, data : Nat,
                file : Files \union {NoFile}, key : Keys \union {"none"}, target : Nat \union {-1}]
  BY DEF OpType
<1> HIDE DEF P
<1>2. NewOp \in OpType
  BY NewOpFacts
<1> QED
  BY <1>1, <1>2 DEF UpdateOp, Codes, Steps

\* one more record has its space reserved on page m
LEMMA ReserveFacts ==
    ASSUME Roles, NEW m \in Index, pages[m].offset + pages[m].reserved <= Slots,
           pages' = [pages EXCEPT ![m].reserved = @ + 1]
    PROVE  /\ pages' \in PageList
           /\ \A i \in Index : /\ pages'[i].addr = pages[i].addr /\ pages'[i].offset = pages[i].offset
                               /\ pages'[i].type = pages[i].type
           /\ \A i \in Index : i # m => pages'[i] = pages[i]
           /\ pages'[m].reserved = pages[m].reserved + 1
<1>1. pages[m] \in PageInfo /\ pages[m].offset \in 1 .. Slots + 1 /\ pages[m].reserved \in 0 .. Slots
      /\ pages \in PageList
  BY RolesFacts DEF Roles
<1>2. pages[m].reserved + 1 \in 0 .. Slots
  <2> DEFINE o == pages[m].offset
             r == pages[m].reserved
  <2>1. o \in 1 .. Slots + 1 /\ r \in 0 .. Slots /\ o + r <= Slots /\ Slots \in Nat
    BY <1>1, ConstantFacts
  <2> HIDE DEF o, r
  <2>2. r + 1 \in 0 .. Slots
    BY <2>1
  <2> QED
    BY <2>2 DEF r
<1>3. PICK n \in 0 .. Slots : n = pages[m].reserved + 1
  BY <1>2
<1> DEFINE q == [pages[m] EXCEPT !.reserved = n]
<1>4. q \in PageInfo /\ q.addr = pages[m].addr /\ q.offset = pages[m].offset /\ q.type = pages[m].type
      /\ q.reserved = n
  <2> DEFINE O == 1 .. Slots + 1
             R == 0 .. Slots
  <2>1. PageInfo = [type : {"data", "erased"}, addr : Phys, offset : O, reserved : R, open : Nat, canGc : BOOLEAN]
    BY DEF PageInfo
  <2>2. n \in R
    OBVIOUS
  <2> HIDE DEF O, R
  <2> QED
    BY <1>1, <2>1, <2>2
<1>5. pages' = [pages EXCEPT ![m] = q]
  BY <1>1, <1>3 DEF PageList
<1> HIDE DEF q
<1>6. pages' \in PageList /\ pages'[m] = q /\ \A j \in Index : j # m => pages'[j] = pages[j]
  BY <1>4, <1>5, PageSet
<1> QED
  BY <1>3, <1>4, <1>6

(* A write or an update reserves the space of its record, and is queued.    *)
LEMMA DoWriteEnqueue ==
    ASSUME Good, NEW op \in OpType, Waits(op), op.code \in {"write", "update"}, op.file \in Files,
           op.key \in Keys, WriteEnqueue(op)
    PROVE  Good'
<1>1. /\ CanCall /\ HasSpace # {} /\ writes' = writes + 1 /\ latest' = latest + 1
      /\ pages' = [pages EXCEPT ![Min(HasSpace)].reserved = @ + 1]
      /\ Enqueue([op EXCEPT !.page = Min(HasSpace), !.id = latest + 1, !.data = writes + 1])
      /\ UNCHANGED <<flash, flashing, swap, gc, phase, tok, old>>
  BY DEF WriteEnqueue
<1>2. /\ Roles /\ QueueOK /\ SpaceOK /\ latest \in Nat /\ writes \in Nat
      /\ queue \in Seq(OpType) /\ (queue = <<>> => Resting)
  BY <1>1, CallFacts
<1>3. HasSpace \in SUBSET Nat
  BY PhysFacts DEF HasSpace
<1>4. PICK m \in HasSpace : m = Min(HasSpace)
  BY <1>1, <1>3, MinOf
<1>5. m \in Index /\ pages[m].offset + pages[m].reserved <= Slots
  BY <1>4 DEF HasSpace
<1>6. /\ pages' \in PageList
      /\ \A i \in Index : /\ pages'[i].addr = pages[i].addr /\ pages'[i].offset = pages[i].offset
                          /\ pages'[i].type = pages[i].type
      /\ \A i \in Index : i # m => pages'[i] = pages[i]
      /\ pages'[m].reserved = pages[m].reserved + 1
  <2>1. pages' = [pages EXCEPT ![m].reserved = @ + 1]
    BY <1>1, <1>4
  <2> QED
    BY <1>2, <1>5, <2>1, ReserveFacts
<1>7. PICK a \in Nat, d \in Nat : a = latest + 1 /\ d = writes + 1
  BY <1>2
<1>8. latest' \in Nat /\ writes' \in Nat /\ latest <= latest' /\ writes <= writes'
      /\ latest < a /\ a <= latest' /\ writes < d /\ d <= writes'
  BY <1>1, <1>2, <1>7
<1> DEFINE o == Numbers(op, m, a, d)
<1>9. Enqueue(o)
  BY <1>1, <1>4, <1>7 DEF Numbers
<1>10. o \in OpType /\ o.page = m /\ o.id = a /\ o.data = d /\ o.code = op.code
       /\ o.step = op.step /\ o.file = op.file /\ o.key = op.key
  <2>1. m \in Index
    BY <1>5
  <2> HIDE DEF o
  <2>2. o = Numbers(op, m, a, d)
    BY DEF o
  <2>3. /\ Numbers(op, m, a, d) \in OpType
        /\ Numbers(op, m, a, d).page = m /\ Numbers(op, m, a, d).id = a
        /\ Numbers(op, m, a, d).data = d /\ Numbers(op, m, a, d).code = op.code
        /\ Numbers(op, m, a, d).step = op.step /\ Numbers(op, m, a, d).file = op.file
        /\ Numbers(op, m, a, d).key = op.key
    BY <2>1, OpSet
  <2> QED
    BY <2>2, <2>3
<1> HIDE DEF o
<1>11. Waits(o) /\ IsWriteOp(o) /\ (o.code = "delete file" => o.step = "flag")
  BY <1>10 DEF Waits, IsWriteOp
<1>12. SpaceOK'
  <2>1. flashing' = flashing
    BY <1>1
  <2>2. \A i : /\ ~ (IsWriteOp(o) /\ o.page = i) => WritesOn(i)' \subseteq WritesOn(i)
              /\ WritesOn(i)' \subseteq WritesOn(i) \union {o.id}
    BY <1>2, <1>9, <1>10, <2>1, WritesGrow
  <2>3. Spaced
    BY <1>2, RolesFacts DEF Spaced
  <2> QED
    BY <1>2, <1>5, <1>6, <1>10, <2>2, <2>3, SpaceTaken
<1> QED
  BY <1>1, <1>5, <1>6, <1>8, <1>9, <1>10, <1>11, <1>12, DoEnqueue

(* fds_record_write.                                                        *)
LEMMA DoRecordWrite ==
    ASSUME Good, NEW f \in Files, NEW k \in Keys, RecordWrite(f, k) PROVE Good'
<1> DEFINE o == WriteOp(f, k)
<1>1. o \in OpType /\ o.code = "write" /\ o.step = "begin" /\ o.file = f /\ o.key = k
  BY NewOpFacts
<1>2. WriteEnqueue(o)
  BY DEF RecordWrite, WriteOp
<1> HIDE DEF o
<1>3. Waits(o)
  BY <1>1 DEF Waits
<1> QED
  BY <1>1, <1>2, <1>3, DoWriteEnqueue

(* fds_record_update.                                                       *)
LEMMA DoRecordUpdate ==
    ASSUME Good, NEW f \in Files, NEW k \in Keys, NEW id \in Nat, RecordUpdate(f, k, id) PROVE Good'
<1> DEFINE o == UpdateOp(f, k, id)
<1>1. o \in OpType /\ o.code = "update" /\ o.step = "find" /\ o.file = f /\ o.key = k
  BY UpdateOpFacts
<1>2. WriteEnqueue(o)
  BY DEF RecordUpdate, UpdateOp
<1> HIDE DEF o
<1>3. Waits(o)
  BY <1>1 DEF Waits
<1> QED
  BY <1>1, <1>2, <1>3, DoWriteEnqueue

(* A counter that is left alone has not gone down.                          *)
LEMMA NotLess == \A n \in Nat : n <= n
OBVIOUS

\* a call that does not write
LEMMA DoOtherCall ==
    ASSUME Good, CanCall, NEW op \in OpType, Enqueue(op), Waits(op), ~ IsWriteOp(op),
           op.code = "delete file" => op.step = "flag",
           UNCHANGED <<flash, flashing, pages, swap, gc, phase, latest, tok, old, writes>>
    PROVE  Good'
<1>1. /\ Roles /\ QueueOK /\ SpaceOK /\ latest \in Nat /\ writes \in Nat
      /\ queue \in Seq(OpType) /\ (queue = <<>> => Resting)
  BY CallFacts
<1>2. flashing' = flashing /\ pages' = pages
  OBVIOUS
<1>3. \A i \in Index : WritesOn(i)' \subseteq WritesOn(i)
  BY <1>1, <1>2, WritesGrow
<1>4. SpaceOK'
  BY <1>1, <1>2, <1>3, SpaceShrinks
<1>5. pages' \in PageList
  BY <1>1, <1>2 DEF Roles
<1>6. latest' \in Nat /\ writes' \in Nat /\ latest <= latest' /\ writes <= writes'
  <2>1. latest' = latest /\ writes' = writes /\ latest \in Nat /\ writes \in Nat
    BY <1>1
  <2> QED
    BY <2>1, NotLess, Zenon
<1> QED
  BY <1>4, <1>5, <1>6, DoEnqueue

(* fds_record_delete.                                                       *)
LEMMA DoRecordDelete == ASSUME Good, NEW id \in Nat, RecordDelete(id) PROVE Good'
<1> DEFINE o == DeleteOp(id)
<1>1. o \in OpType /\ o.code = "delete" /\ o.step = "flag"
  BY NewOpFacts
<1>2. CanCall /\ Enqueue(o) /\ UNCHANGED <<flash, flashing, pages, swap, gc, phase, latest, tok, old, writes>>
  BY DEF RecordDelete, DeleteOp, bounds
<1> HIDE DEF o
<1>3. Waits(o) /\ ~ IsWriteOp(o)
  BY <1>1 DEF Waits, IsWriteOp
<1> QED
  BY <1>1, <1>2, <1>3, DoOtherCall

(* fds_file_delete.                                                         *)
LEMMA DoFileDelete == ASSUME Good, NEW f \in Files, FileDelete(f) PROVE Good'
<1> DEFINE o == FileOp(f)
<1>1. o \in OpType /\ o.code = "delete file" /\ o.step = "flag"
  BY NewOpFacts
<1>2. CanCall /\ Enqueue(o) /\ UNCHANGED <<flash, flashing, pages, swap, gc, phase, latest, tok, old, writes>>
  BY DEF FileDelete, FileOp, bounds
<1> HIDE DEF o
<1>3. Waits(o) /\ ~ IsWriteOp(o)
  BY <1>1 DEF Waits, IsWriteOp
<1> QED
  BY <1>1, <1>2, <1>3, DoOtherCall

(* fds_gc, when no collection is queued.                                    *)
LEMMA DoGcRequest == ASSUME Good, ~ Collecting, GcRequest PROVE Good'
<1>1. CanCall /\ Enqueue(NewOp) /\ gc' = [gc EXCEPT !.resume = @ \/ gc.state # "begin"]
      /\ UNCHANGED <<flash, flashing, pages, swap, phase, latest, tok, old, writes>>
  BY DEF GcRequest, bounds
<1>2. QueueOK /\ GcOK
  BY <1>1, CallFacts
<1>3. ~ GcWorks
  <2> SUFFICES ASSUME GcWorks PROVE FALSE
    OBVIOUS
  <2>1. queue # <<>> /\ hand # "event" /\ Op.code = "gc"
    BY DEF GcWorks, Working
  <2> QED
    BY <1>2, <2>1, OpFacts DEF Collecting
<1>4. gc.state = "begin" /\ gc \in GcInfo /\ gc.resume = FALSE
  BY <1>2, <1>3, GcFields DEF GcOK
<1>5. gc' = gc
  <2>1. gc' = [gc EXCEPT !.resume = FALSE]
    BY <1>1, <1>4
  <2> QED
    BY <1>4, <2>1 DEF GcInfo
<1>6. NewOp \in OpType /\ Waits(NewOp) /\ NewOp.code = "gc"
  BY NewOpFacts
<1>7. ~ IsWriteOp(NewOp)
  BY <1>6 DEF IsWriteOp
<1> QED
  BY <1>1, <1>5, <1>6, <1>7, DoOtherCall

-----------------------------------------------------------------------------
(* The boot.                                                                *)

(* What a boot finds.                                                       *)
LEMMA BootFinds ==
    ASSUME NEW w, FlashOK(flash, w), NEW s, s = PagesInit
    PROVE  /\ s.swap \in Phys /\ s.offset \in 1 .. Slots + 1 /\ Filled(flash[s.swap], s.offset)
           /\ s.cur \in Index /\ s.latest \in Nat /\ s.seen \in SUBSET Looks /\ s.pages \in ScanPages
           /\ \A i \in Index : Sound(s.pages[i]) /\ s.pages[i].addr # s.swap
           /\ \A i, j \in Index : s.pages[i].addr = s.pages[j].addr => i = j
           /\ \A p \in Phys : p = s.swap \/ \E i \in Index : s.pages[i].addr = p
           /\ \/ flash[s.swap].tag = "swap"
              \/ /\ Untagged(flash[s.swap]) /\ s.offset = 1
                 /\ \A p \in Phys : flash[p].tag # "swap"
           /\ "data" \in s.seen <=> \E p \in Phys : flash[p].tag = "data"
           /\ "erased" \in s.seen <=> \E p \in Phys : Untagged(flash[p])
           /\ "clean" \in s.seen <=> \E p \in Phys : flash[p].tag = "swap" /\ Filled(flash[p], 1)
           /\ "dirty" \in s.seen <=> \E p \in Phys : flash[p].tag = "swap" /\ ~ Filled(flash[p], 1)
           /\ "erased" \in s.seen /\ (\E p \in Phys : flash[p].tag = "swap") => s.pages[s.cur].type = "erased"
           /\ \A p \in Phys, i \in Places :
                 flash[p].tag \in {"data", "swap"} /\ Valid(flash[p].slot[i]) => flash[p].slot[i].id <= s.latest
<1> DEFINE k == DataPages + 1
<1>1. ScanTypes(s) /\ ScanPlaces(s, k) /\ ScanSwap(s, k) /\ ScanSeen(s, k) /\ ScanLatest(s, k)
  BY ScanEnds DEF ScanOK
<1>2. Before(k) = Phys /\ (\A i \in Index : i < k)
  BY BeforeFacts, PhysFacts
<1> HIDE DEF k
<1>3. s \in ScanRec /\ (s.swap # NoPage => s.offset \in 1 .. Slots + 1 /\ Filled(flash[s.swap], s.offset))
  BY <1>1, ScanRecIs DEF ScanTypes
<1>4. /\ s.swap \in Phys \union {NoPage} /\ s.cur \in Index /\ s.latest \in Nat
      /\ s.seen \in SUBSET Looks /\ s.pages \in ScanPages
  BY <1>3 DEF ScanRec
<1>5. s.swap # NoPage
  <2> SUFFICES ASSUME s.swap = NoPage PROVE FALSE
    OBVIOUS
  <2>1. \A p \in Phys : flash[p].tag = "data"
    BY <1>1, <1>2 DEF ScanSwap
  <2> QED
    BY <2>1 DEF FlashOK, SomeSpare
<1>6. s.next = k /\ Lists(s.pages, k, Phys \ {s.swap})
  BY <1>1, <1>2, <1>5 DEF ScanPlaces
<1>7. \A i \in Index : Sound(s.pages[i]) /\ s.pages[i].addr \in Phys \ {s.swap}
  BY <1>2, <1>6 DEF Lists
<1>8. \A i, j \in Index : s.pages[i].addr = s.pages[j].addr => i = j
  BY <1>2, <1>6 DEF Lists
<1>9. \A p \in Phys \ {s.swap} : \E i \in Index : s.pages[i].addr = p
  BY <1>6 DEF Lists
<1>10. \/ flash[s.swap].tag = "swap"
       \/ /\ Untagged(flash[s.swap]) /\ s.offset = 1
          /\ \A p \in Phys : flash[p].tag # "swap"
  BY <1>1, <1>2, <1>5 DEF ScanSwap
<1>11. /\ "data" \in s.seen <=> \E p \in Phys : flash[p].tag = "data"
       /\ "erased" \in s.seen <=> \E p \in Phys : Untagged(flash[p])
       /\ "clean" \in s.seen <=> \E p \in Phys : flash[p].tag = "swap" /\ Filled(flash[p], 1)
       /\ "dirty" \in s.seen <=> \E p \in Phys : flash[p].tag = "swap" /\ ~ Filled(flash[p], 1)
       /\ "erased" \in s.seen /\ (\E p \in Phys : flash[p].tag = "swap") => s.pages[s.cur].type = "erased"
  BY <1>1, <1>2 DEF ScanSeen
<1>12. \A p \in Phys, i \in Places :
          flash[p].tag \in {"data", "swap"} /\ Valid(flash[p].slot[i]) => flash[p].slot[i].id <= s.latest
  BY <1>1, <1>2 DEF ScanLatest
<1> QED
  BY <1>3, <1>4, <1>5, <1>7, <1>8, <1>9, <1>10, <1>11, <1>12

(* What the boot decides from is what its scan has seen.                    *)
LEMMA SeenIs ==
    ASSUME NEW w, FlashOK(flash, w)
    PROVE  Seen = PagesInit.seen
<1>1. PICK s : s = PagesInit
  OBVIOUS
<1>2. \A i \in Index : Sound(s.pages[i])
  BY <1>1, BootFinds
<1>3. \A i \in Index : s.pages[i].type # "undefined"
  BY <1>2 DEF Sound, Ready4
<1>4. {i \in Index : s.pages[i].type = "undefined"} = {}
  BY <1>3
<1>5. ~ (Cardinality({}) >= DataPages)
  <2>1. Cardinality({}) = 0
    BY FS_EmptySet
  <2> QED
    BY <2>1, ConstantFacts
<1> QED
  BY <1>1, <1>4, <1>5 DEF Seen

(* Which step of the installation the boot starts with, and why it is the   *)
(* right one.                                                               *)
LEMMA BootSteps ==
    ASSUME NEW w, FlashOK(flash, w), NEW s, s = PagesInit
    PROVE  \/ /\ InitStep(Seen) = "none"
              /\ flash[s.swap].tag = "swap" /\ s.offset = 1
              /\ \A i \in Index : flash[s.pages[i].addr].tag = "data" /\ s.pages[i].type = "data"
           \/ /\ InitStep(Seen) = "erase swap"
              /\ flash[s.swap].tag = "swap"
              /\ \A i \in Index : flash[s.pages[i].addr].tag = "data"
           \/ /\ InitStep(Seen) = "tag data"
              /\ flash[s.swap].tag = "swap" /\ s.offset = 1
           \/ /\ InitStep(Seen) = "promote swap"
              /\ flash[s.swap].tag = "swap" /\ s.pages[s.cur].type = "erased"
           \/ /\ InitStep(Seen) = "tag swap"
              /\ Untagged(flash[s.swap]) /\ s.offset = 1
<1>1. /\ s.swap \in Phys /\ s.offset \in 1 .. Slots + 1 /\ Filled(flash[s.swap], s.offset)
      /\ s.seen \in SUBSET Looks
      /\ \A i \in Index : Sound(s.pages[i]) /\ s.pages[i].addr # s.swap
      /\ \A p \in Phys : p = s.swap \/ \E i \in Index : s.pages[i].addr = p
      /\ \/ flash[s.swap].tag = "swap"
         \/ /\ Untagged(flash[s.swap]) /\ s.offset = 1
            /\ \A p \in Phys : flash[p].tag # "swap"
      /\ "data" \in s.seen <=> \E p \in Phys : flash[p].tag = "data"
      /\ "erased" \in s.seen <=> \E p \in Phys : Untagged(flash[p])
      /\ "clean" \in s.seen <=> \E p \in Phys : flash[p].tag = "swap" /\ Filled(flash[p], 1)
      /\ "dirty" \in s.seen <=> \E p \in Phys : flash[p].tag = "swap" /\ ~ Filled(flash[p], 1)
      /\ "erased" \in s.seen /\ (\E p \in Phys : flash[p].tag = "swap") => s.pages[s.cur].type = "erased"
  BY BootFinds
<1>2. Seen = s.seen /\ s.seen \in SUBSET {"erased", "data", "clean", "dirty"}
  BY <1>1, SeenIs DEF Looks
<1>3. \A p, q \in Phys : flash[p].tag = "swap" /\ flash[q].tag = "swap" => p = q
  BY DEF FlashOK, OneSwap
<1>4. \A i \in Index : /\ s.pages[i].addr \in Phys
                       /\ \/ s.pages[i].type = "data" /\ flash[s.pages[i].addr].tag = "data"
                          \/ s.pages[i].type = "erased" /\ Untagged(flash[s.pages[i].addr])
  BY <1>1, PageInfoFacts DEF Sound, Ready4
<1>5. CASE flash[s.swap].tag = "swap"
  <2>1. ("clean" \in s.seen <=> Filled(flash[s.swap], 1)) /\ ("dirty" \in s.seen <=> ~ Filled(flash[s.swap], 1))
    BY <1>1, <1>3, <1>5
  <2>2. Filled(flash[s.swap], 1) => s.offset = 1
    <3> SUFFICES ASSUME Filled(flash[s.swap], 1) PROVE s.offset = 1
      OBVIOUS
    <3>1. flash[s.swap] \in Page /\ 1 \in 1 .. Slots + 1
      BY <1>1, Formation, BlankFacts
    <3>2. WriteOffset(flash[s.swap]) = 1
      BY <3>1, OffsetIs
    <3>3. WriteOffset(flash[s.swap]) = s.offset
      BY <1>1, <3>1, OffsetIs
    <3> QED
      BY <3>2, <3>3
  <2>3. CASE "erased" \notin s.seen
    <3>1. \A i \in Index : flash[s.pages[i].addr].tag = "data" /\ s.pages[i].type = "data"
      BY <1>1, <1>4, <2>3
    <3>2. "data" \in s.seen
      <4>1. 1 \in Index
        BY PhysFacts
      <4> QED
        BY <1>1, <1>4, <3>1, <4>1
    <3>3. CASE "clean" \in s.seen
      <4>1. s.seen = {"data", "clean"}
        BY <1>2, <2>1, <2>3, <3>2, <3>3
      <4>2. InitStep(Seen) = "none"
        BY <1>2, <4>1 DEF InitStep
      <4> QED
        BY <1>5, <2>1, <2>2, <3>1, <3>3, <4>2
    <3>4. CASE "clean" \notin s.seen
      <4>1. s.seen = {"data", "dirty"}
        BY <1>2, <2>1, <2>3, <3>2, <3>4
      <4>2. InitStep(Seen) = "erase swap"
        BY <1>2, <4>1 DEF InitStep
      <4> QED
        BY <1>5, <3>1, <4>2
    <3> QED
      BY <3>3, <3>4
  <2>4. CASE "erased" \in s.seen
    <3>1. s.pages[s.cur].type = "erased"
      BY <1>1, <1>5, <2>4
    <3>2. CASE "clean" \in s.seen
      <4>1. s.seen \ {"data"} = {"erased", "clean"}
        BY <1>2, <2>1, <2>4, <3>2
      <4>2. s.seen \notin {{}, {"data"}} /\ s.seen # {"data", "clean"} /\ s.seen # {"data", "dirty"}
        BY <2>4
      <4>3. InitStep(s.seen) = "tag data"
        BY <4>1, <4>2 DEF InitStep
      <4> QED
        BY <1>2, <1>5, <2>1, <2>2, <3>2, <4>3
    <3>3. CASE "clean" \notin s.seen
      <4>1. s.seen \ {"data"} = {"erased", "dirty"}
        BY <1>2, <2>1, <2>4, <3>3
      <4>2. s.seen \notin {{}, {"data"}} /\ s.seen # {"data", "clean"} /\ s.seen # {"data", "dirty"}
            /\ s.seen \ {"data"} # {"erased", "clean"}
        BY <2>4, <3>3
      <4>3. InitStep(s.seen) = "promote swap"
        BY <4>1, <4>2 DEF InitStep
      <4> QED
        BY <1>2, <1>5, <3>1, <4>3
    <3> QED
      BY <3>2, <3>3
  <2> QED
    BY <2>3, <2>4
<1>6. CASE flash[s.swap].tag # "swap"
  <2>1. "erased" \in s.seen /\ "clean" \notin s.seen /\ "dirty" \notin s.seen
    BY <1>1, <1>6
  <2>2. s.seen \notin {{}, {"data"}} /\ s.seen # {"data", "clean"} /\ s.seen # {"data", "dirty"}
        /\ s.seen \ {"data"} # {"erased", "clean"} /\ s.seen \ {"data"} # {"erased", "dirty"}
    BY <2>1
  <2>3. InitStep(s.seen) = "tag swap"
    BY <2>2 DEF InitStep
  <2> QED
    BY <1>1, <1>2, <1>6, <2>3
<1> QED
  BY <1>5, <1>6

(* The boot.                                                                *)
InstallOp(step) == [NewOp EXCEPT !.code = "init", !.step = step]

(* A queue of one operation.                                                *)
LEMMA OneOp ==
    ASSUME NEW o \in OpType
    PROVE  /\ <<o>> \in Seq(OpType) /\ Len(<<o>>) = 1 /\ <<o>>[1] = o /\ <<o>> # <<>>
           /\ Head(<<o>>) = o
OBVIOUS

(* An operation without a page.                                             *)
LEMMA NoPageYet == 0 \in 0 .. DataPages
BY ConstantFacts

(* The operation of the installation.                                       *)
LEMMA InstallOpFacts ==
    ASSUME NEW step \in {"tag swap", "tag data", "erase swap", "promote swap"}
    PROVE  /\ InstallOp(step) \in OpType /\ InstallOp(step).code = "init" /\ InstallOp(step).step = step
           /\ <<InstallOp(step)>> \in Seq(OpType) /\ Len(<<InstallOp(step)>>) = 1
           /\ <<InstallOp(step)>>[1] = InstallOp(step) /\ <<InstallOp(step)>> # <<>>
           /\ Head(<<InstallOp(step)>>) = InstallOp(step)
<1> DEFINE P == 0 .. DataPages
<1>1. OpType = [code : Codes, step : Steps, page : P, id : Nat, data : Nat,
                file : Files \union {NoFile}, key : Keys \union {"none"}, target : Nat \union {-1}]
  BY DEF OpType
<1>2. 0 \in P
  BY NoPageYet
<1> HIDE DEF P
<1>3. NewOp \in OpType
  BY NewOpFacts
<1>4. InstallOp(step) \in OpType /\ InstallOp(step).code = "init" /\ InstallOp(step).step = step
  BY <1>1, <1>3 DEF InstallOp, Codes, Steps
<1> QED
  BY <1>4, OneOp

(* After the scan every page has one role in RAM.                           *)
LEMMA BootRoles ==
    ASSUME FlashOK(flash, writes), NEW s, s = PagesInit, pages' = s.pages,
           swap' = [addr |-> s.swap, offset |-> s.offset], flash' = flash
    PROVE  /\ Roles' /\ swap'.addr = s.swap /\ swap'.offset = s.offset
           /\ OnSwap' = flash[s.swap] /\ (\A i \in Index : OnPage(i)' = flash[s.pages[i].addr])
           /\ \A i \in Index : /\ Filled(OnPage(i)', pages'[i].offset) /\ pages'[i].reserved = 0
                               /\ Tagged(i)' /\ pages'[i].offset \in 1 .. Slots + 1
<1>1. /\ s.swap \in Phys /\ s.offset \in 1 .. Slots + 1 /\ s.pages \in ScanPages
      /\ \A i \in Index : Sound(s.pages[i]) /\ s.pages[i].addr # s.swap
      /\ \A i, j \in Index : s.pages[i].addr = s.pages[j].addr => i = j
      /\ \A p \in Phys : p = s.swap \/ \E i \in Index : s.pages[i].addr = p
  BY BootFinds
<1>2. swap' \in SwapInfo /\ swap'.addr = s.swap /\ swap'.offset = s.offset
  <2> DEFINE O == 1 .. Slots + 1
  <2>1. SwapInfo = [addr : Phys, offset : O] /\ s.offset \in O
    BY <1>1 DEF SwapInfo
  <2> HIDE DEF O
  <2> QED
    BY <1>1, <2>1
<1>3. pages' \in PageList
  <2>1. \A i \in Index : s.pages[i] \in PageInfo
    BY <1>1 DEF Sound
  <2> QED
    BY <1>1, <2>1 DEF PageList, ScanPages
<1>4. Roles'
  BY <1>1, <1>2, <1>3 DEF Roles
<1>5. OnSwap' = flash[s.swap] /\ (\A i \in Index : OnPage(i)' = flash[s.pages[i].addr])
  BY <1>2 DEF OnSwap, OnPage
<1>6. \A i \in Index : /\ Filled(OnPage(i)', pages'[i].offset) /\ pages'[i].reserved = 0
                       /\ Tagged(i)' /\ pages'[i].offset \in 1 .. Slots + 1
  <2> SUFFICES ASSUME NEW i \in Index
               PROVE  /\ Filled(OnPage(i)', pages'[i].offset) /\ pages'[i].reserved = 0
                      /\ Tagged(i)' /\ pages'[i].offset \in 1 .. Slots + 1
    OBVIOUS
  <2>1. Sound(s.pages[i])
    BY <1>1
  <2>2. s.pages[i].offset \in 1 .. Slots + 1
    BY <2>1, PageInfoFacts DEF Sound
  <2> QED
    BY <1>5, <2>1, <2>2 DEF Sound, Tagged, Ready4
<1> QED
  BY <1>2, <1>4, <1>5, <1>6

(* Nothing is reserved yet.                                                 *)
LEMMA EmptySpace ==
    ASSUME NEW W, W = {}, NEW o \in 1 .. Slots + 1, NEW r, r = 0
    PROVE  Cardinality(W) <= r /\ o + r <= Slots + 1
<1>1. Cardinality(W) = 0
  BY FS_EmptySet
<1>2. o \in Nat /\ o <= Slots + 1
  BY ConstantFacts
<1> QED
  BY <1>1, <1>2

(* The boot: it installs, or finds a storage that is installed.             *)
LEMMA DoBoot == ASSUME Good, Boot PROVE Good'
<1> DEFINE st == InitStep(Seen)
<1>1. /\ phase = "off"
      /\ pages' = PagesInit.pages /\ latest' = PagesInit.latest
      /\ swap' = [addr |-> PagesInit.swap, offset |-> PagesInit.offset]
      /\ gc' = [gc EXCEPT !.cur = PagesInit.cur]
      /\ phase' = CASE st = "none" -> "initialized"
                    [] st = "fail" -> "failed"
                    [] OTHER -> "installing"
      /\ IF st \in {"none", "fail"} THEN UNCHANGED <<queue, hand>>
         ELSE queue' = <<InstallOp(st)>> /\ hand' = "run"
      /\ UNCHANGED <<flash, flashing, result, tok, old, opened, writes>>
  BY DEF Boot, bounds, InstallOp
<1>2. PICK s : s = PagesInit
  OBVIOUS
<1>3. /\ FlashOK(flash, writes) /\ Resting /\ gc = GcIdle /\ tok = TokStart /\ opened = NoDesc
      /\ result = "success"
  BY <1>1 DEF Good, ModeOK, OffOK, Resting
<1>4. /\ s.cur \in Index /\ s.latest \in Nat
      /\ \A p \in Phys, i \in Places :
           flash[p].tag \in {"data", "swap"} /\ Valid(flash[p].slot[i]) => flash[p].slot[i].id <= s.latest
  BY <1>2, <1>3, BootFinds
<1>5. /\ Roles' /\ swap'.addr = s.swap /\ swap'.offset = s.offset
      /\ OnSwap' = flash[s.swap] /\ (\A i \in Index : OnPage(i)' = flash[s.pages[i].addr])
      /\ \A i \in Index : /\ Filled(OnPage(i)', pages'[i].offset) /\ pages'[i].reserved = 0
                          /\ Tagged(i)' /\ pages'[i].offset \in 1 .. Slots + 1
  BY <1>1, <1>2, <1>3, BootRoles
<1>6. \/ /\ st = "none"
         /\ flash[s.swap].tag = "swap" /\ s.offset = 1
         /\ \A i \in Index : flash[s.pages[i].addr].tag = "data" /\ s.pages[i].type = "data"
      \/ /\ st = "erase swap"
         /\ flash[s.swap].tag = "swap"
         /\ \A i \in Index : flash[s.pages[i].addr].tag = "data"
      \/ /\ st = "tag data"
         /\ flash[s.swap].tag = "swap" /\ s.offset = 1
      \/ /\ st = "promote swap"
         /\ flash[s.swap].tag = "swap" /\ s.pages[s.cur].type = "erased"
      \/ /\ st = "tag swap"
         /\ Untagged(flash[s.swap]) /\ s.offset = 1
  BY <1>2, <1>3, BootSteps
<1> HIDE DEF st
<1>7. gc' \in GcInfo /\ gc'.state = "begin" /\ gc'.src = 0 /\ gc'.cur = s.cur
  <2> DEFINE R == 0 .. Slots
  <2>1. GcInfo = [state : {"begin", "copy", "erase", "promote", "discard", "tag"}, cur : Index,
                  src : R, todo : SUBSET Index, resume : {FALSE}]
    BY DEF GcInfo
  <2>2. 0 \in R
    BY ConstantFacts
  <2> HIDE DEF R
  <2>3. GcIdle \in GcInfo /\ GcIdle.state = "begin" /\ GcIdle.src = 0
    <3>1. 1 \in Index
      BY PhysFacts
    <3> QED
      BY <2>1, <2>2, <3>1 DEF GcIdle
  <2>4. gc' = [GcIdle EXCEPT !.cur = s.cur]
    BY <1>1, <1>2, <1>3
  <2> QED
    BY <1>4, <2>1, <2>3, <2>4
<1>8. FlashOK(flash, writes)' /\ writes \in Nat
  <2>1. writes \in Nat
    BY <1>1 DEF Good, ModeOK, OffOK
  <2> QED
    BY <1>1, <1>3, <2>1
<1>9. latest' \in Nat /\ IdsIn(flash) \subseteq 1 .. latest'
  <2>1. latest' = s.latest
    BY <1>1, <1>2
  <2> SUFFICES ASSUME NEW d \in IdsIn(flash) PROVE d \in 1 .. latest'
    BY <1>4, <2>1
  <2>2. PICK p \in Phys, i \in Places : Holds(flash, p, i) /\ flash[p].slot[i].id = d
    BY StoredMember
  <2>3. Valid(flash[p].slot[i]) /\ flash[p].tag \in {"data", "swap"}
    BY <2>2 DEF Holds, Alive
  <2>4. d <= s.latest /\ d # 0
    BY <1>4, <2>2, <2>3 DEF Valid
  <2>5. d \in Nat
    <3>1. flash[p].slot[i] \in Cell
      BY <1>3, Formation
    <3> QED
      BY <2>2, <3>1 DEF Cell
  <2>6. PICK a \in Nat : a = s.latest
    BY <1>4
  <2>7. d \in 1 .. a
    BY <2>4, <2>5, <2>6
  <2> QED
    BY <2>1, <2>6, <2>7
<1>10. /\ flash' = flash /\ flashing' = flashing /\ ~ Flying' /\ result' = "success" /\ tok' = TokStart
       /\ opened' = NoDesc /\ writes' = writes
  BY <1>1, <1>3 DEF Resting, Flying
<1>11. CASE st = "none"
  <2>1. queue' = <<>> /\ hand' = "idle" /\ phase' = "initialized"
    BY <1>1, <1>3, <1>11 DEF Resting
  <2>2. Resting' /\ ~ Working' /\ ~ Telling'
    BY <1>10, <2>1 DEF Resting, Working, Telling
  <2>3. flash[s.swap].tag = "swap" /\ s.offset = 1
        /\ \A i \in Index : flash[s.pages[i].addr].tag = "data" /\ s.pages[i].type = "data"
    BY <1>6, <1>11
  <2>4. AllData' /\ CleanSwap'
    <3>1. Filled(flash[s.swap], s.offset)
      BY <1>2, <1>3, BootFinds
    <3> QED
      BY <1>5, <2>3, <3>1 DEF AllData, CleanSwap
  <2>5. OffsetsOK' /\ \A i \in Index : pages'[i].type = "data"
    BY <1>1, <1>2, <1>5, <2>2, <2>3 DEF OffsetsOK, Upto, Writing
  <2>6. InitializedOK'
    BY <2>1, <2>2, <2>5 DEF InitializedOK
  <2>7. GcOK'
    BY <1>7, <2>1, <2>2, <2>4 DEF GcOK, GcWorks
  <2>8. WritingOK' /\ DeletingOK' /\ TokOK'
    BY <1>10, <2>2 DEF WritingOK, Writing, DeletingOK, Deleting, TokOK
  <2>9. ModeOK'
    BY <1>10, <2>1, <2>6 DEF ModeOK
  <2>10. \A k \in 1 .. Len(queue') : FALSE
    BY <2>1
  <2>11. latest' \in Nat /\ writes' \in Nat /\ queue' \in Seq(OpType) /\ Len(queue') <= QueueSize
    BY <1>8, <1>9, <1>10, <2>1, ConstantFacts
  <2>12. QueueOK'
    BY <2>10, <2>11 DEF QueueOK
  <2>13. NumbersOK'
    BY <1>9, <1>10, <2>10 DEF NumbersOK
  <2>14. SpaceOK'
    <3> SUFFICES ASSUME NEW i \in Index
                 PROVE  /\ Cardinality(WritesOn(i)') <= pages'[i].reserved
                        /\ pages'[i].offset + pages'[i].reserved <= Slots + 1
      BY DEF SpaceOK
    <3>1. WritesOn(i)' = {}
      BY <2>10 DEF WritesOn
    <3> QED
      BY <1>5, <3>1, EmptySpace
  <2> QED
    BY <1>5, <1>8, <1>10, <2>1, <2>7, <2>8, <2>9, <2>12, <2>13, <2>14 DEF Good, OnOK
<1>12. CASE st # "none"
  <2>0. st \in {"tag swap", "tag data", "erase swap", "promote swap"}
    BY <1>6, <1>12
  <2>1. queue' = <<InstallOp(st)>> /\ hand' = "run" /\ phase' = "installing"
    BY <1>1, <2>0
  <2>2. /\ InstallOp(st) \in OpType /\ InstallOp(st).code = "init" /\ InstallOp(st).step = st
        /\ queue' \in Seq(OpType) /\ Len(queue') = 1 /\ queue'[1] = InstallOp(st)
        /\ queue' # <<>> /\ Op' = InstallOp(st)
    BY <2>0, <2>1, InstallOpFacts DEF Op
  <2>3. Working' /\ ~ Telling' /\ ~ Writing' /\ ~ Deleting' /\ ~ GcWorks'
    BY <1>10, <2>1, <2>2 DEF Working, Telling, Writing, IsWriteOp, Deleting, GcWorks
  <2>4. WritingOK' /\ DeletingOK' /\ TokOK'
    BY <1>10, <2>3 DEF WritingOK, DeletingOK, TokOK
  <2>5. GcOK'
    BY <1>7, <2>1, <2>3 DEF GcOK
  <2>6. \A k \in 1 .. Len(queue') : k = 1 /\ queue'[k].code = "init"
    BY <2>2
  <2>7. \A k \in 1 .. Len(queue') : OpOK(queue[k])' /\ ~ IsWriteOp(queue[k])' /\ ~ (k > 1)
    <3> SUFFICES ASSUME NEW k \in 1 .. Len(queue')
                 PROVE  OpOK(queue[k])' /\ ~ IsWriteOp(queue[k])' /\ ~ (k > 1)
      OBVIOUS
    <3>1. k = 1 /\ queue'[k].code = "init"
      BY <2>6
    <3>2. OpOK(queue[k])' /\ ~ IsWriteOp(queue[k])'
      BY <3>1 DEF OpOK, IsWriteOp
    <3> QED
      BY <3>1, <3>2
  <2>8. QueueOK'
    <3>1. Len(queue') <= QueueSize
      BY <2>2, ConstantFacts
    <3> QED
      BY <1>8, <1>9, <1>10, <2>2, <2>7, <3>1 DEF QueueOK, IsWriteOp
  <2>9. NumbersOK'
    BY <1>9, <1>10, <2>7 DEF NumbersOK, Uncommitted, IsWriteOp
  <2>10. SpaceOK'
    <3> SUFFICES ASSUME NEW i \in Index
                 PROVE  /\ Cardinality(WritesOn(i)') <= pages'[i].reserved
                        /\ pages'[i].offset + pages'[i].reserved <= Slots + 1
      BY DEF SpaceOK
    <3>1. WritesOn(i)' = {}
      BY <2>7 DEF WritesOn, IsWriteOp
    <3> QED
      BY <1>5, <3>1, EmptySpace
  <2>11. Filled(flash[s.swap], s.offset)
    BY <1>2, <1>3, BootFinds
  <2>12. InstallWaits'
    <3>1. CASE st = "erase swap"
      <4>1. flash[s.swap].tag = "swap" /\ \A i \in Index : flash[s.pages[i].addr].tag = "data"
        BY <1>6, <3>1
      <4> QED
        BY <1>5, <1>10, <2>2, <3>1, <4>1 DEF InstallWaits, AllData
    <3>2. CASE st = "tag data"
      <4>1. flash[s.swap].tag = "swap" /\ s.offset = 1
        BY <1>6, <3>2
      <4>2. CleanSwap'
        BY <1>5, <2>11, <4>1 DEF CleanSwap
      <4> QED
        BY <1>5, <1>10, <2>2, <3>2, <4>2 DEF InstallWaits
    <3>3. CASE st = "promote swap"
      <4>1. flash[s.swap].tag = "swap" /\ s.pages[s.cur].type = "erased"
        BY <1>6, <3>3
      <4>2. pages'[gc'.cur].type = "erased" /\ Filled(OnSwap', swap'.offset) /\ OnSwap'.tag = "swap"
        BY <1>1, <1>2, <1>5, <1>7, <2>11, <4>1
      <4> QED
        BY <1>5, <1>10, <2>2, <3>3, <4>2 DEF InstallWaits
    <3>4. CASE st = "tag swap"
      <4>1. Untagged(flash[s.swap]) /\ s.offset = 1
        BY <1>6, <3>4
      <4>2. InstallFresh'
        BY <1>5, <2>11, <4>1 DEF InstallFresh
      <4> QED
        BY <1>5, <1>10, <2>2, <3>4, <4>2 DEF InstallWaits
    <3> QED
      BY <2>0, <3>1, <3>2, <3>3, <3>4
  <2>13. InstallOK'
    BY <1>5, <1>10, <2>2, <2>3, <2>12 DEF InstallOK
  <2>14. ModeOK'
    BY <1>10, <2>1, <2>13 DEF ModeOK
  <2> QED
    BY <1>5, <1>8, <1>10, <2>1, <2>4, <2>5, <2>8, <2>9, <2>10, <2>14 DEF Good, OnOK
<1> QED
  BY <1>11, <1>12

-----------------------------------------------------------------------------
(* Flash operations, and power cuts in them.                                *)

(* What a flash operation, or a part of it, makes of the flash.             *)
SameRecords(g) ==
    StoredIn(g) = StoredIn(flash) /\ IdsIn(g) = IdsIn(flash) /\ CellsIn(g) = CellsIn(flash)
Commits(g) ==
    /\ Writing /\ ~ FlagsOld /\ Level = 3
    /\ StoredIn(g) = StoredIn(flash) \union {Op.data} /\ IdsIn(g) = IdsIn(flash) \union {Op.id}
    /\ CellsIn(g) = CellsIn(flash) \union {Content(Op, 4)}
Targets(c) ==
    \/ Op.code \in {"delete", "update"} /\ c.id = Op.target
    \/ Op.code = "delete file" /\ c.file = Op.file
Removes(g) ==
    \E p \in Phys, i \in Places :
        /\ flash[p].tag = "data" /\ Valid(flash[p].slot[i]) /\ Targets(flash[p].slot[i])
        /\ StoredIn(g) = StoredIn(flash) \ {flash[p].slot[i].data} /\ IdsIn(g) \subseteq IdsIn(flash)
        /\ CellsIn(g) = CellsIn(flash) \ {flash[p].slot[i]}
        /\ Op.code = "update" => Op.data \in StoredIn(g) /\ Content(Op, 4) \in CellsIn(g)
Effect(g) == SameRecords(g) \/ Commits(g) \/ Removes(g)

(* What holds while a flash operation is on its way.                        *)
LEMMA FlightFacts ==
    ASSUME Good, Flying
    PROVE  /\ Working /\ ~ Telling /\ hand = "idle" /\ queue # <<>> /\ result = "success" /\ FlashOK(flash, writes)
           /\ Roles /\ QueueOK /\ NumbersOK /\ SpaceOK /\ WritingOK /\ DeletingOK /\ TokOK /\ GcOK
           /\ Op = queue[1] /\ OpOK(Op) /\ 1 \in 1 .. Len(queue)
           /\ \/ phase = "installing" /\ Op.code = "init" /\ InstallOK /\ ~ InstallWaits
              \/ /\ phase = "initialized" /\ Op.code # "init" /\ InitializedOK
                 /\ ~ GcWorks => AllData /\ CleanSwap
<1>1. phase # "off"
  BY DEF Good, ModeOK, OffOK, Resting
<1>2. Roles /\ QueueOK /\ NumbersOK /\ SpaceOK /\ WritingOK /\ DeletingOK /\ TokOK /\ GcOK
      /\ FlashOK(flash, writes) /\ ModeOK
  BY <1>1 DEF Good, OnOK
<1>3. CASE phase = "installing"
  <2>1. InstallOK /\ Working /\ Op.code = "init"
    BY <1>2, <1>3 DEF ModeOK, InstallOK
  <2>2. hand = "idle" /\ queue # <<>> /\ ~ Telling
    BY <2>1 DEF Working, Telling
  <2>3. ~ InstallWaits
    BY DEF InstallWaits
  <2>4. result = "success"
    BY <1>2, <2>2 DEF ModeOK
  <2> QED
    BY <1>2, <1>3, <2>1, <2>2, <2>3, <2>4, OpFacts
<1>4. CASE phase = "initialized"
  <2>1. InitializedOK /\ Working
    BY <1>2, <1>4 DEF ModeOK, InitializedOK, Telling, Resting
  <2>2. hand = "idle" /\ queue # <<>> /\ ~ Telling
    BY <2>1 DEF Working, Telling
  <2>3. Op.code # "init"
    BY <2>1, <2>2 DEF InitializedOK
  <2>4. ~ GcWorks => AllData /\ CleanSwap
    BY <1>2, <1>4 DEF GcOK
  <2>5. result = "success"
    BY <1>2, <2>2 DEF ModeOK
  <2> QED
    BY <1>2, <1>4, <2>1, <2>2, <2>3, <2>4, <2>5, OpFacts
<1> QED
  BY <1>1, <1>2, <1>3, <1>4 DEF ModeOK

(* A write that is being executed has a free slot at the offset of its      *)
(* page.                                                                    *)
LEMMA SlotFree ==
    ASSUME Roles, QueueOK, SpaceOK, Working, IsWriteOp(Op)
    PROVE  pages[Op.page].offset \in Places
<1>1. queue # <<>> /\ ~ Telling
  BY DEF Working, Telling
<1>2. Op = queue[1] /\ 1 \in 1 .. Len(queue) /\ Op.page \in Index
  BY <1>1, OpFacts DEF OpOK
<1>3. Op.id \in WritesOn(Op.page)
  BY <1>1, <1>2 DEF WritesOn
<1>4. Cardinality(WritesOn(Op.page)) # 0 /\ Cardinality(WritesOn(Op.page)) \in Nat
  BY <1>3, WritesOnFinite, FS_EmptySet
<1> DEFINE c == Cardinality(WritesOn(Op.page))
           r == pages[Op.page].reserved
           o == pages[Op.page].offset
<1>5. c <= r /\ o + r <= Slots + 1 /\ r \in Nat /\ o \in 1 .. Slots + 1 /\ o \in Nat
  BY <1>2, RolesFacts DEF SpaceOK
<1>6. c # 0 /\ c \in Nat
  BY <1>4
<1> HIDE DEF c, r, o
<1>7. 1 <= o /\ o <= Slots
  BY <1>5, <1>6, ConstantFacts
<1>8. o \in Places
  BY <1>5, <1>7, ConstantFacts DEF Places
<1> QED
  BY <1>8 DEF o

(* The record that is being written.                                        *)
LEMMA WriteFlight ==
    ASSUME Good, Flying, Writing
    PROVE  /\ Op.page \in Index /\ Op.file \in Files /\ Op.key \in Keys /\ Op.id \in Nat \ {0} /\ Op.data \in 1 .. writes
           /\ WriteAddr \in Phys /\ WriteAddr = pages[Op.page].addr /\ WriteSlot \in Places /\ WriteSlot = pages[Op.page].offset
           /\ flash[WriteAddr] = OnPage(Op.page) /\ OnPage(Op.page) \in Page /\ OnPage(Op.page).tag = "data"
           /\ OnPage(Op.page).slot[WriteSlot] = Content(Op, Level)
           /\ FlagsOld => Level = 4
           /\ ~ FlagsOld => Level \in 0 .. 3
           /\ \E n \in 1 .. Slots + 1 : Filled(OnPage(Op.page), n) /\ WriteSlot <= n
           /\ phase = "initialized" /\ AllData /\ CleanSwap
<1>1. /\ Working /\ FlashOK(flash, writes) /\ queue # <<>> /\ Roles /\ QueueOK /\ SpaceOK /\ WritingOK
      /\ OpOK(Op) /\ latest \in Nat /\ writes \in Nat
  BY FlightFacts DEF QueueOK
<1>2. IsWriteOp(Op)
  BY DEF Writing
<1>3. Op.page \in Index /\ Op.file \in Files /\ Op.key \in Keys /\ Op.id \in 1 .. latest /\ Op.data \in 1 .. writes
  BY <1>1, <1>2 DEF OpOK
<1>4. phase = "initialized" /\ AllData /\ CleanSwap /\ InitializedOK
  BY <1>2, FlightFacts DEF IsWriteOp, GcWorks
<1>5. WriteAddr \in Phys /\ WriteAddr = pages[Op.page].addr /\ flash[WriteAddr] = OnPage(Op.page)
      /\ WriteSlot = pages[Op.page].offset
  BY <1>1, <1>3, RolesFacts DEF WriteAddr, OnPage, WriteSlot
<1>6. OnPage(Op.page) \in Page
  BY <1>1, <1>5, Formation
<1>7. WriteSlot \in Places
  BY <1>1, <1>2, <1>5, SlotFree
<1>8. OnPage(Op.page).slot[WriteSlot] = Content(Op, Level) /\ Op.step \notin {"begin", "find"}
  BY <1>1 DEF WritingOK
<1>9. FlagsOld => Level = 4
  BY DEF FlagsOld, Level, Groups
<1>10. ~ FlagsOld => Level \in 0 .. 3
  <2>1. Op.step \in {"id", "data", "finalize", "flag", "done"}
    BY <1>1, <1>2, <1>8 DEF OpOK, IsWriteOp
  <2>2. ~ FlagsOld => Level = Groups[Op.step] - 1
    BY DEF Level
  <2>3. Groups[Op.step] \in 1 .. 4
    BY <2>1 DEF Groups
  <2> QED
    BY <2>2, <2>3
<1>11. \E n \in 1 .. Slots + 1 : Filled(OnPage(Op.page), n) /\ WriteSlot <= n
  <2>1. Filled(OnPage(Op.page), Upto(Op.page))
    BY <1>2, <1>3, <1>4 DEF InitializedOK, OffsetsOK, GcErased, GcWorks, IsWriteOp
  <2>2. Upto(Op.page) = WriteSlot \/ Upto(Op.page) = WriteSlot + 1
    BY <1>5 DEF Upto
  <2>3. /\ WriteSlot \in 1 .. Slots + 1 /\ WriteSlot + 1 \in 1 .. Slots + 1
        /\ WriteSlot <= WriteSlot /\ WriteSlot <= WriteSlot + 1
    <3> DEFINE o == WriteSlot
    <3>1. o \in 1 .. Slots /\ Slots \in Nat
      BY <1>7, ConstantFacts DEF Places
    <3> HIDE DEF o
    <3>2. o \in 1 .. Slots + 1 /\ o + 1 \in 1 .. Slots + 1 /\ o <= o /\ o <= o + 1
      BY <3>1
    <3> QED
      BY <3>2 DEF o
  <2> QED
    BY <2>1, <2>2, <2>3
<1>12. Op.id \in Nat \ {0}
  BY <1>1, <1>3
<1>13. OnPage(Op.page).tag = "data"
  BY <1>3, <1>4 DEF AllData
<1> QED
  BY <1>3, <1>4, <1>5, <1>6, <1>7, <1>8, <1>9, <1>10, <1>11, <1>12, <1>13

\* the words of a record
LEMMA WordsEffect ==
    ASSUME Good, Flying, Writing, ~ FlagsOld
    PROVE  /\ flashing = [addr |-> WriteAddr, stages |-> <<Put(OnPage(Op.page), WriteSlot, Content(Op, Level + 1))>>]
           /\ FlashOK(Write(flash, WriteAddr, WriteSlot, Content(Op, Level + 1)), writes)
           /\ Effect(Write(flash, WriteAddr, WriteSlot, Content(Op, Level + 1)))
           /\ Level < 3 => SameRecords(Write(flash, WriteAddr, WriteSlot, Content(Op, Level + 1)))
<1>1. /\ Op.page \in Index /\ Op.file \in Files /\ Op.key \in Keys /\ Op.id \in Nat \ {0} /\ Op.data \in 1 .. writes
      /\ WriteAddr \in Phys /\ WriteSlot \in Places
      /\ flash[WriteAddr] = OnPage(Op.page) /\ flash[WriteAddr].tag = "data"
      /\ flash[WriteAddr].slot[WriteSlot] = Content(Op, Level)
      /\ Level \in 0 .. 3
  BY WriteFlight
<1>2. PICK n \in 1 .. Slots + 1 : Filled(flash[WriteAddr], n) /\ WriteSlot <= n
  BY <1>1, WriteFlight
<1>3. FlashOK(flash, writes) /\ WritingOK /\ NumbersOK /\ Op = queue[1] /\ 1 \in 1 .. Len(queue) /\ Working
      /\ writes \in Nat
  BY FlightFacts DEF QueueOK
<1>4. flashing = [addr |-> WriteAddr, stages |-> <<Put(OnPage(Op.page), WriteSlot, Content(Op, Level + 1))>>]
  BY <1>3 DEF WritingOK
<1> DEFINE c == Content(Op, Level + 1)
           l == Level
<1>5. l \in 0 .. 3 /\ Op.data \in Nat
  BY <1>1, <1>3
<1>6. Content(Op, l + 1) \in Cell /\ Content(Op, l + 1).key # "none"
      /\ ~ Valid(Content(Op, l)) /\ (l < 3 => ~ Valid(Content(Op, l + 1)))
      /\ (l = 3 => Valid(Content(Op, l + 1)) /\ Content(Op, l + 1).id = Op.id /\ Content(Op, l + 1).data = Op.data)
  <2> HIDE DEF l
  <2>1. l + 1 \in 1 .. 4 /\ (l < 3 => l + 1 \in 0 .. 3) /\ (l = 3 => l + 1 = 4)
    BY <1>5
  <2>2. /\ \A m \in 1 .. 4 : Content(Op, m) \in Cell /\ Content(Op, m).key # "none"
        /\ \A m \in 0 .. 3 : ~ Valid(Content(Op, m))
        /\ Valid(Content(Op, 4)) /\ Content(Op, 4).id = Op.id /\ Content(Op, 4).data = Op.data
    BY <1>1, <1>5, ContentFacts
  <2> QED
    BY <1>5, <2>1, <2>2
<1>7. ~ Untagged(flash[WriteAddr])
  BY <1>1 DEF Untagged
<1>8. CASE l < 3
  <2>1. ~ Valid(c) /\ ~ Valid(flash[WriteAddr].slot[WriteSlot]) /\ c \in Cell /\ c.key # "none"
    BY <1>1, <1>6, <1>8
  <2> HIDE DEF c
  <2>2. /\ FlashOK(Write(flash, WriteAddr, WriteSlot, c), writes)
        /\ StoredIn(Write(flash, WriteAddr, WriteSlot, c)) = StoredIn(flash)
        /\ IdsIn(Write(flash, WriteAddr, WriteSlot, c)) = IdsIn(flash)
        /\ CellsIn(Write(flash, WriteAddr, WriteSlot, c)) = CellsIn(flash)
    BY <1>1, <1>2, <1>3, <1>7, <2>1, PartChanges
  <2>3. SameRecords(Write(flash, WriteAddr, WriteSlot, c))
    BY <2>2 DEF SameRecords
  <2> QED
    BY <1>4, <2>2, <2>3 DEF Effect, c
<1>9. CASE l = 3
  <2>1. Valid(c) /\ ~ Valid(flash[WriteAddr].slot[WriteSlot]) /\ c \in Cell /\ c.id = Op.id /\ c.data = Op.data
    BY <1>1, <1>6, <1>9
  <2>2. Level < 4 /\ c = Content(Op, 4)
    BY <1>9
  <2>3. Op.id \notin IdsIn(flash) /\ Op.data \notin StoredIn(flash)
    BY <1>3, <2>2 DEF NumbersOK, Uncommitted, Writing
  <2> HIDE DEF c
  <2>4. /\ FlashOK(Write(flash, WriteAddr, WriteSlot, c), writes)
        /\ StoredIn(Write(flash, WriteAddr, WriteSlot, c)) = StoredIn(flash) \union {c.data}
        /\ IdsIn(Write(flash, WriteAddr, WriteSlot, c)) = IdsIn(flash) \union {c.id}
        /\ CellsIn(Write(flash, WriteAddr, WriteSlot, c)) = CellsIn(flash) \union {c}
    BY <1>1, <1>2, <1>3, <2>1, <2>3, RecordAppears
  <2>5. Commits(Write(flash, WriteAddr, WriteSlot, c))
    BY <1>9, <2>1, <2>2, <2>4 DEF Commits
  <2>6. ~ (Level < 3)
    BY <1>9
  <2> QED
    BY <1>4, <2>4, <2>5, <2>6 DEF Effect, c
<1> QED
  BY <1>5, <1>8, <1>9

\* a record is flagged as removed
LEMMA FlagEffect ==
    ASSUME Good, Flying, AllData, NEW i \in Index, NEW j \in Places, Valid(OnPage(i).slot[j]), Targets(OnPage(i).slot[j]),
           Op.code = "update" => Op.data \in StoredIn(flash) /\ Content(Op, 4) \in CellsIn(flash)
                                 /\ Op.data # OnPage(i).slot[j].data
    PROVE  /\ [flash EXCEPT ![pages[i].addr] = WithKey(OnPage(i), j, "dirty")]
                = Write(flash, pages[i].addr, j, Dirtied(OnPage(i).slot[j]))
           /\ FlashOK(Write(flash, pages[i].addr, j, Dirtied(OnPage(i).slot[j])), writes)
           /\ Removes(Write(flash, pages[i].addr, j, Dirtied(OnPage(i).slot[j])))
<1>1. FlashOK(flash, writes) /\ Roles
  BY FlightFacts
<1>2. pages[i].addr \in Phys /\ flash[pages[i].addr] = OnPage(i) /\ OnPage(i).tag = "data"
  BY <1>1, RolesFacts DEF OnPage, AllData
<1>3. PICK a \in Phys : a = pages[i].addr
  BY <1>2
<1>4. OnPage(i) = flash[a] /\ flash[a] \in Page
  BY <1>1, <1>2, <1>3, Formation
<1>5. /\ WithKey(flash[a], j, "dirty") = Put(flash[a], j, Dirtied(flash[a].slot[j]))
      /\ Dirtied(flash[a].slot[j]) \in Cell /\ ~ Valid(Dirtied(flash[a].slot[j])) /\ Dirtied(flash[a].slot[j]).key # "none"
  BY <1>4, DirtyFacts
<1> DEFINE c == Dirtied(flash[a].slot[j])
           g == Write(flash, a, j, c)
<1>6. [flash EXCEPT ![a] = WithKey(flash[a], j, "dirty")] = g
  BY <1>5 DEF Write
<1>7. c \in Cell /\ ~ Valid(c) /\ c.key # "none" /\ flash[a].tag = "data" /\ Valid(flash[a].slot[j])
  BY <1>2, <1>4, <1>5
<1> HIDE DEF c
<1>8. /\ FlashOK(g, writes)
      /\ StoredIn(g) = StoredIn(flash) \ {flash[a].slot[j].data}
      /\ IdsIn(g) \subseteq IdsIn(flash)
      /\ CellsIn(g) = CellsIn(flash) \ {flash[a].slot[j]}
  BY <1>1, <1>7, RecordGoes
<1> HIDE DEF g
<1>9. Op.code = "update" => Op.data \in StoredIn(g) /\ Content(Op, 4) \in CellsIn(g)
  <2>1. Content(Op, 4).data = Op.data
    BY DEF Content
  <2>2. Op.code = "update" => Content(Op, 4) # flash[a].slot[j]
    BY <1>4, <2>1
  <2> QED
    BY <1>4, <1>8, <2>2
<1>10. Removes(g)
  BY <1>4, <1>7, <1>8, <1>9 DEF Removes
<1> QED
  BY <1>3, <1>4, <1>6, <1>8, <1>10 DEF g, c

\* the first k of the words of a record that is copied
CopyPart(c, k) == [key |-> c.key, file |-> IF k > 1 THEN c.file ELSE NoFile,
                   id |-> IF k > 2 THEN c.id ELSE 0, data |-> IF k > 3 THEN c.data ELSE 0]

(* Of two writes to a slot the second one shows.                            *)
LEMMA PutTwice ==
    ASSUME NEW p \in Page, NEW i \in Places, NEW c \in Cell, NEW d \in Cell
    PROVE  Put(Put(p, i, c), i, d) = Put(p, i, d)
BY DEF Put, Page

(* A record is copied in four stages, and is no record of the copy before   *)
(* the last.                                                                *)
LEMMA CopyStagesAre ==
    ASSUME NEW p \in Page, NEW i \in Places, p.slot[i] = Empty, NEW c \in Cell, Valid(c)
    PROVE  /\ Len(CopyStages(p, i, c)) = 4
           /\ \A k \in 1 .. 4 : /\ CopyStages(p, i, c)[k] = Put(p, i, CopyPart(c, k))
                                /\ CopyPart(c, k) \in Cell /\ CopyPart(c, k).key # "none"
           /\ CopyPart(c, 4) = c
<1>1. /\ c.key \in Keys \union {"none", "dirty"} /\ c.file \in Files \union {NoFile} /\ c.id \in Nat /\ c.data \in Nat
      /\ c.key # "none"
  BY DEF Cell, Valid
<1>2. \A k \in 1 .. 4 : CopyPart(c, k) \in Cell /\ CopyPart(c, k).key # "none"
  BY <1>1 DEF CopyPart, Cell, NoFile
<1>3. CopyPart(c, 4) = c
  BY <1>1 DEF CopyPart, Cell
<1> DEFINE a == WithKey(p, i, c.key)
           b == WithFile(a, i, c.file)
           d == WithId(b, i, c.id)
           e == WithData(d, i, c.data)
<1>4. a = Put(p, i, CopyPart(c, 1))
  <2>1. [p.slot[i] EXCEPT !.key = Program(@, "none", c.key)] = CopyPart(c, 1)
    BY DEF CopyPart, Program, Empty
  <2> QED
    BY <2>1 DEF WithKey, Put, Page
<1>5. \A k \in 1 .. 4 : Put(p, i, CopyPart(c, k)) \in Page /\ Put(p, i, CopyPart(c, k)).slot[i] = CopyPart(c, k)
  BY <1>2, PutFacts
<1>6. \A k, l \in 1 .. 4 : Put(Put(p, i, CopyPart(c, k)), i, CopyPart(c, l)) = Put(p, i, CopyPart(c, l))
  BY <1>2, PutTwice
<1> HIDE DEF a
<1>7. b = Put(p, i, CopyPart(c, 2))
  <2>1. a \in Page /\ a.slot[i] = CopyPart(c, 1)
    BY <1>4, <1>5
  <2>2. [a.slot[i] EXCEPT !.file = ProgramId(@, c.file)] = CopyPart(c, 2)
    BY <2>1 DEF CopyPart, ProgramId, NoFile
  <2>3. b = Put(a, i, CopyPart(c, 2))
    BY <2>1, <2>2 DEF WithFile, Put, Page
  <2> HIDE DEF b
  <2> QED
    BY <1>4, <1>6, <2>3
<1> HIDE DEF b
<1>8. d = Put(p, i, CopyPart(c, 3))
  <2>1. b \in Page /\ b.slot[i] = CopyPart(c, 2)
    BY <1>5, <1>7
  <2>2. [b.slot[i] EXCEPT !.id = ProgramId(@, c.id)] = CopyPart(c, 3)
    BY <2>1 DEF CopyPart, ProgramId
  <2>3. d = Put(b, i, CopyPart(c, 3))
    BY <2>1, <2>2 DEF WithId, Put, Page
  <2> HIDE DEF d
  <2> QED
    BY <1>6, <1>7, <2>3
<1> HIDE DEF d
<1>9. e = Put(p, i, CopyPart(c, 4))
  <2>1. d \in Page /\ d.slot[i] = CopyPart(c, 3)
    BY <1>5, <1>8
  <2>2. [d.slot[i] EXCEPT !.data = ProgramId(@, c.data)] = CopyPart(c, 4)
    BY <2>1 DEF CopyPart, ProgramId
  <2>3. e = Put(d, i, CopyPart(c, 4))
    BY <2>1, <2>2 DEF WithData, Put, Page
  <2> HIDE DEF e
  <2> QED
    BY <1>6, <1>8, <2>3
<1> HIDE DEF e
<1>10. CopyStages(p, i, c) = <<a, b, d, e>>
  BY DEF CopyStages, a, b, d, e
<1>11. \A k \in 1 .. 4 : <<a, b, d, e>>[k] = Put(p, i, CopyPart(c, k))
  BY <1>4, <1>7, <1>8, <1>9
<1> QED
  BY <1>2, <1>3, <1>10, <1>11

(* Which tags the physical pages have, from their roles.                    *)
LEMMA PhysKinds ==
    ASSUME Roles
    PROVE  /\ AllData => \A p \in Phys : p # swap.addr => flash[p].tag = "data"
           /\ AllData /\ OnSwap.tag = "swap" => \A p \in Phys : ~ Untagged(flash[p])
           /\ \A c \in Index : (\A i \in Index \ {c} : OnPage(i).tag = "data") =>
                 \A p \in Phys : p # swap.addr /\ p # pages[c].addr => flash[p].tag = "data"
           /\ (\A i \in Index : Tagged(i)) => \A p \in Phys : p # swap.addr => flash[p].tag = "data" \/ Untagged(flash[p])
           /\ \A i \in Index : pages[i].addr \in Phys /\ flash[pages[i].addr] = OnPage(i)
           /\ swap.addr \in Phys /\ flash[swap.addr] = OnSwap
<1>1. \A p \in Phys : p = swap.addr \/ \E i \in Index : pages[i].addr = p
  BY DEF Roles
<1>2. \A i \in Index : pages[i].addr \in Phys /\ flash[pages[i].addr] = OnPage(i)
  BY RolesFacts DEF OnPage
<1>3. swap.addr \in Phys /\ flash[swap.addr] = OnSwap
  BY RolesFacts DEF OnSwap
<1>4. AllData => \A p \in Phys : p # swap.addr => flash[p].tag = "data"
  BY <1>1, <1>2 DEF AllData
<1>5. AllData /\ OnSwap.tag = "swap" => \A p \in Phys : ~ Untagged(flash[p])
  BY <1>3, <1>4 DEF Untagged
<1>6. \A c \in Index : (\A i \in Index \ {c} : OnPage(i).tag = "data") =>
         \A p \in Phys : p # swap.addr /\ p # pages[c].addr => flash[p].tag = "data"
  <2> SUFFICES ASSUME NEW c \in Index, \A i \in Index \ {c} : OnPage(i).tag = "data",
                      NEW p \in Phys, p # swap.addr, p # pages[c].addr
               PROVE  flash[p].tag = "data"
    OBVIOUS
  <2>1. PICK i \in Index : pages[i].addr = p
    BY <1>1
  <2> QED
    BY <1>2, <2>1
<1>7. (\A i \in Index : Tagged(i)) => \A p \in Phys : p # swap.addr => flash[p].tag = "data" \/ Untagged(flash[p])
  BY <1>1 DEF Tagged, Ready4
<1> QED
  BY <1>2, <1>3, <1>4, <1>5, <1>6, <1>7

\* writing a tag, or its first word
LEMMA TagEffect ==
    ASSUME FlashOK(flash, writes), NEW a \in Phys, NEW t \in {"swap", "data"},
           Untagged(flash[a]) \/ (flash[a].tag = "swap" /\ t = "data"),
           FlashOK(Tag(flash, a, t), writes), SameRecords(Tag(flash, a, t)),
           NEW k \in 1 .. Len(TagStages(flash[a], t)),
           NEW g, g = [flash EXCEPT ![a] = TagStages(flash[a], t)[k]]
    PROVE  FlashOK(g, writes) /\ SameRecords(g)
<1>1. flash \in [Phys -> Page]
  BY DEF FlashOK
<1>2. \/ g = Tag(flash, a, t)
      \/ Untagged(flash[a]) /\ g = Tag(flash, a, "magic")
      \/ g = flash
  BY <1>1, TagWritten
<1>3. CASE g = Tag(flash, a, t)
  BY <1>3
<1>4. CASE Untagged(flash[a]) /\ g = Tag(flash, a, "magic")
  <2>1. Untagged(flash[a])
    BY <1>4
  <2>2. /\ FlashOK(Tag(flash, a, "magic"), writes) /\ StoredIn(Tag(flash, a, "magic")) = StoredIn(flash)
        /\ IdsIn(Tag(flash, a, "magic")) = IdsIn(flash) /\ CellsIn(Tag(flash, a, "magic")) = CellsIn(flash)
    BY <2>1, MagicWritten
  <2> QED
    BY <1>4, <2>2 DEF SameRecords
<1>5. CASE g = flash
  BY <1>5 DEF SameRecords
<1> QED
  BY <1>2, <1>3, <1>4, <1>5

\* the old record of an update is flagged
LEMMA OldEffect ==
    ASSUME Good, Flying, Writing, FlagsOld
    PROVE  /\ old.page \in Index /\ old.slot \in Places /\ old.addr = pages[old.page].addr
           /\ Valid(OnPage(old.page).slot[old.slot]) /\ Targets(OnPage(old.page).slot[old.slot])
           /\ flashing = [addr |-> pages[old.page].addr, stages |-> <<WithKey(OnPage(old.page), old.slot, "dirty")>>]
           /\ Op.data \in StoredIn(flash) /\ Op.data # OnPage(old.page).slot[old.slot].data
           /\ Content(Op, 4) \in CellsIn(flash)
           /\ OnPage(old.page).slot[old.slot].id # Op.id
<1>1. /\ Op.page \in Index /\ Op.file \in Files /\ Op.key \in Keys /\ Op.id \in Nat \ {0} /\ Op.data \in 1 .. writes
      /\ WriteAddr \in Phys /\ WriteSlot \in Places /\ flash[WriteAddr] = OnPage(Op.page)
      /\ OnPage(Op.page).tag = "data" /\ OnPage(Op.page).slot[WriteSlot] = Content(Op, Level)
      /\ Level = 4 /\ AllData
  BY WriteFlight
<1>2. FlashOK(flash, writes) /\ WritingOK /\ Roles /\ writes \in Nat
  BY FlightFacts DEF QueueOK
<1>3. OldThere /\ flashing = [addr |-> old.addr, stages |-> <<WithKey(flash[old.addr], old.slot, "dirty")>>]
      /\ Op.code = "update"
  BY <1>2 DEF WritingOK, FlagsOld
<1>4. /\ old.page \in Index /\ old.addr = pages[old.page].addr /\ old.slot \in Places
      /\ Valid(flash[old.addr].slot[old.slot]) /\ flash[old.addr].slot[old.slot].id = Op.target
      /\ Op.target # Op.id
  BY <1>3 DEF OldThere
<1>5. old.addr \in Phys /\ flash[old.addr] = OnPage(old.page) /\ flash[old.addr].tag = "data"
  BY <1>1, <1>2, <1>4, RolesFacts DEF OnPage, AllData
<1>6. Valid(Content(Op, 4)) /\ Content(Op, 4).id = Op.id /\ Content(Op, 4).data = Op.data
  <2>1. Op.data \in Nat
    BY <1>1, <1>2
  <2> QED
    BY <1>1, <2>1, ContentFacts
<1>7. /\ flash[WriteAddr].slot[WriteSlot].data = Op.data /\ flash[WriteAddr].slot[WriteSlot].id = Op.id
      /\ Holds(flash, WriteAddr, WriteSlot)
  BY <1>1, <1>6 DEF Holds, Alive
<1>8. Op.data \in StoredIn(flash) /\ Content(Op, 4) \in CellsIn(flash)
  BY <1>1, <1>7, StoredMember
<1>9. Holds(flash, old.addr, old.slot)
  BY <1>4, <1>5 DEF Holds, Alive
<1>10. Op.data # flash[old.addr].slot[old.slot].data
  <2> SUFFICES ASSUME Op.data = flash[old.addr].slot[old.slot].data PROVE FALSE
    OBVIOUS
  <2>1. WriteAddr = old.addr /\ WriteSlot = old.slot
    BY <1>1, <1>2, <1>4, <1>5, <1>7, <1>9 DEF FlashOK, Distinct
  <2> QED
    BY <1>4, <1>7, <2>1
<1> QED
  BY <1>3, <1>4, <1>5, <1>8, <1>10 DEF Targets

CopyStage(k) ==
    LET g == Write(flash, swap.addr, swap.offset, CopyPart(OnPage(gc.cur).slot[gc.src], k))
    IN /\ [flash EXCEPT ![swap.addr] = flashing.stages[k]] = g
       /\ FlashOK(g, writes) /\ SameRecords(g)

\* a record is copied to the swap page, which a boot would erase
LEMMA CopyEffect ==
    ASSUME Good, Flying, GcWorks, GcCopying
    PROVE  /\ flashing = [addr |-> swap.addr, stages |-> CopyStages(OnSwap, swap.offset, OnPage(gc.cur).slot[gc.src])]
           /\ Len(flashing.stages) = 4 /\ swap.offset \in Places /\ gc.src \in Places /\ gc.cur \in Index
           /\ \A k \in 1 .. 4 : CopyStage(k)
           /\ CopyPart(OnPage(gc.cur).slot[gc.src], 4) = OnPage(gc.cur).slot[gc.src]
           /\ OnPage(gc.cur).slot[gc.src] \in Cell
<1>1. /\ FlashOK(flash, writes) /\ Roles /\ GcOK
  BY FlightFacts
<1>2. /\ AllData /\ OnSwap.tag = "swap" /\ gc.src \in Places /\ Valid(OnPage(gc.cur).slot[gc.src])
      /\ flashing = [addr |-> swap.addr, stages |-> CopyStages(OnSwap, swap.offset, OnPage(gc.cur).slot[gc.src])]
      /\ CopiedUpTo(gc.cur, gc.src - 1, swap.offset)
  BY DEF GcCopying
<1>3. gc.cur \in Index
  BY <1>1, GcFields
<1>4. PICK a \in Phys, n \in 1 .. Slots + 1, c \in Cell, b \in Page :
         /\ a = swap.addr /\ n = swap.offset /\ c = OnPage(gc.cur).slot[gc.src] /\ b = OnSwap
  <2>1. pages[gc.cur].addr \in Phys /\ OnPage(gc.cur) = flash[pages[gc.cur].addr] /\ swap.addr \in Phys
        /\ OnSwap = flash[swap.addr]
    BY <1>1, <1>3, RolesFacts DEF OnPage, OnSwap
  <2>2. OnPage(gc.cur).slot[gc.src] \in Cell /\ OnSwap \in Page
    BY <1>1, <1>2, <2>1, Formation
  <2>3. swap.offset \in 1 .. Slots + 1
    BY <1>1, RolesFacts
  <2> QED
    BY <2>1, <2>2, <2>3, Zenon
<1>5. Filled(b, n) /\ n <= (gc.src - 1) + 1 /\ n \in 1 .. Slots + 1 /\ Valid(c) /\ b = flash[a]
  BY <1>1, <1>2, <1>4, RolesFacts DEF CopiedUpTo, OnSwap
<1>6. n \in Places /\ n <= n
  <2> DEFINE s == gc.src
  <2>1. s \in 1 .. Slots /\ n \in 1 .. Slots + 1 /\ n <= (s - 1) + 1 /\ Slots \in Nat
    BY <1>2, <1>5, ConstantFacts DEF Places
  <2> HIDE DEF s
  <2>2. n \in 1 .. Slots /\ n <= n
    BY <2>1
  <2> QED
    BY <2>2 DEF Places
<1>7. b.slot[n] = Empty
  <2>1. ~ (n < n)
    BY <1>6, FilledRange
  <2> QED
    BY <1>5, <1>6, <2>1 DEF Filled
<1>8. /\ Len(CopyStages(b, n, c)) = 4
      /\ \A k \in 1 .. 4 : /\ CopyStages(b, n, c)[k] = Put(b, n, CopyPart(c, k))
                           /\ CopyPart(c, k) \in Cell /\ CopyPart(c, k).key # "none"
      /\ CopyPart(c, 4) = c
  BY <1>5, <1>6, <1>7, CopyStagesAre
<1>9. ~ Untagged(flash[a]) /\ ~ Alive(flash, a)
  <2>1. \A p \in Phys : ~ Untagged(flash[p])
    BY <1>1, <1>2, PhysKinds
  <2>2. flash[a].tag = "swap"
    BY <1>2, <1>4, <1>5
  <2> QED
    BY <2>1, <2>2 DEF Alive
<1>10. flashing.stages = CopyStages(b, n, c) /\ flashing.addr = a
  BY <1>2, <1>4
<1>11. ASSUME NEW k \in 1 .. 4
       PROVE  /\ [flash EXCEPT ![a] = flashing.stages[k]] = Write(flash, a, n, CopyPart(c, k))
              /\ FlashOK(Write(flash, a, n, CopyPart(c, k)), writes) /\ SameRecords(Write(flash, a, n, CopyPart(c, k)))
  <2>1. [flash EXCEPT ![a] = flashing.stages[k]] = Write(flash, a, n, CopyPart(c, k))
    BY <1>5, <1>8, <1>10 DEF Write
  <2> DEFINE d == CopyPart(c, k)
  <2>2. d \in Cell /\ d.key # "none"
    BY <1>8
  <2> HIDE DEF d
  <2>3. /\ FlashOK(Write(flash, a, n, d), writes)
        /\ StoredIn(Write(flash, a, n, d)) = StoredIn(flash)
        /\ IdsIn(Write(flash, a, n, d)) = IdsIn(flash) /\ CellsIn(Write(flash, a, n, d)) = CellsIn(flash)
    BY <1>1, <1>5, <1>6, <1>9, <2>2, PartChanges
  <2> QED
    BY <2>1, <2>3 DEF SameRecords, d
<1>12. \A k \in 1 .. 4 : CopyStage(k)
  BY <1>4, <1>11 DEF CopyStage
<1> QED
  BY <1>2, <1>3, <1>4, <1>6, <1>8, <1>10, <1>12

\* a page is erased; a tag is written
ErasesPage(a) ==
    /\ a \in Phys /\ flashing = [addr |-> a, stages |-> <<Blank>>]
    /\ FlashOK(Erase(flash, a), writes) /\ SameRecords(Erase(flash, a))
TagsPage(a, t) ==
    /\ a \in Phys /\ flashing = [addr |-> a, stages |-> TagStages(flash[a], t)]
    /\ Untagged(flash[a]) \/ (flash[a].tag = "swap" /\ t = "data")
    /\ FlashOK(Tag(flash, a, t), writes) /\ SameRecords(Tag(flash, a, t))

(* Erasing a swap page loses nothing while every other page is tagged data. *)
LEMMA ErasesSwap ==
    ASSUME FlashOK(flash, writes), Roles, AllData, OnSwap.tag = "swap",
           flashing = [addr |-> swap.addr, stages |-> <<Blank>>]
    PROVE  ErasesPage(swap.addr)
<1>1. swap.addr \in Phys /\ flash[swap.addr].tag = "swap" /\ \A p \in Phys : ~ Untagged(flash[p])
  BY PhysKinds
<1>2. PICK a \in Phys : a = swap.addr
  BY <1>1
<1>3. FlashOK(Erase(flash, a), writes) /\ SameRecords(Erase(flash, a))
  BY <1>1, <1>2, SwapErased DEF SameRecords
<1> QED
  BY <1>2, <1>3 DEF ErasesPage

(* Tagging the only page without a tag as swap changes no record.           *)
LEMMA TagsSwap ==
    ASSUME FlashOK(flash, writes), Roles, Untagged(OnSwap), \A p \in Phys : p # swap.addr => flash[p].tag # "swap",
           flashing = [addr |-> swap.addr, stages |-> TagStages(OnSwap, "swap")]
    PROVE  TagsPage(swap.addr, "swap")
<1>1. swap.addr \in Phys /\ flash[swap.addr] = OnSwap
  BY PhysKinds
<1>2. PICK a \in Phys : a = swap.addr
  BY <1>1
<1>3. Untagged(flash[a]) /\ \A p \in Phys : flash[p].tag # "swap"
  BY <1>1, <1>2 DEF Untagged
<1>4. FlashOK(Tag(flash, a, "swap"), writes) /\ SameRecords(Tag(flash, a, "swap"))
  BY <1>3, SwapTagged DEF SameRecords
<1> QED
  BY <1>1, <1>2, <1>3, <1>4 DEF TagsPage

(* Promoting a swap page changes no record, as an erased page has made it   *)
(* alive before.                                                            *)
LEMMA PromotesPage ==
    ASSUME FlashOK(flash, writes), Roles, Untagged(OnSwap), NEW i \in Index, OnPage(i).tag = "swap",
           flashing = [addr |-> pages[i].addr, stages |-> TagStages(OnPage(i), "data")]
    PROVE  TagsPage(pages[i].addr, "data")
<1>1. swap.addr \in Phys /\ flash[swap.addr] = OnSwap /\ pages[i].addr \in Phys /\ flash[pages[i].addr] = OnPage(i)
  BY PhysKinds
<1>2. PICK a \in Phys, q \in Phys : a = pages[i].addr /\ q = swap.addr
  BY <1>1
<1>3. FlashOK(Tag(flash, a, "data"), writes) /\ SameRecords(Tag(flash, a, "data"))
  BY <1>1, <1>2, SwapPromoted DEF SameRecords
<1> QED
  BY <1>1, <1>2, <1>3 DEF TagsPage

(* Tagging an erased page changes no record, as the swap page is clean.     *)
LEMMA TagsData ==
    ASSUME FlashOK(flash, writes), Roles, CleanSwap, NEW i \in Index, Untagged(OnPage(i)),
           flashing = [addr |-> pages[i].addr, stages |-> TagStages(OnPage(i), "data")]
    PROVE  TagsPage(pages[i].addr, "data")
<1>1. swap.addr \in Phys /\ flash[swap.addr] = OnSwap /\ pages[i].addr \in Phys /\ flash[pages[i].addr] = OnPage(i)
      /\ OnSwap.tag = "swap" /\ Filled(OnSwap, 1)
  BY PhysKinds DEF CleanSwap
<1>2. PICK a \in Phys, q \in Phys : a = pages[i].addr /\ q = swap.addr
  BY <1>1
<1>3. FlashOK(Tag(flash, a, "data"), writes) /\ SameRecords(Tag(flash, a, "data"))
  BY <1>1, <1>2, DataTagged DEF SameRecords
<1> QED
  BY <1>1, <1>2, <1>3 DEF TagsPage

(* Erasing a collected page loses nothing: the swap page comes alive with   *)
(* the copies.                                                              *)
LEMMA ErasesCollected ==
    ASSUME FlashOK(flash, writes), Roles, GcOK, GcErasing, Flying
    PROVE  ErasesPage(pages[gc.cur].addr)
<1>1. /\ AllData /\ OnSwap.tag = "swap" /\ CopiedUpTo(gc.cur, Slots, swap.offset)
      /\ flashing = [addr |-> pages[gc.cur].addr, stages |-> <<Blank>>]
  BY DEF GcErasing
<1>2. gc.cur \in Index
  BY GcFields
<1>3. swap.addr \in Phys /\ flash[swap.addr] = OnSwap /\ pages[gc.cur].addr \in Phys
      /\ flash[pages[gc.cur].addr] = OnPage(gc.cur)
  BY <1>2, PhysKinds
<1>4. PICK a \in Phys, s \in Phys, n \in 1 .. Slots + 1 : a = pages[gc.cur].addr /\ s = swap.addr /\ n = swap.offset
  BY <1>3, RolesFacts
<1>5. \A p \in Phys : ~ Untagged(flash[p])
  BY <1>1, PhysKinds
<1>6. flash[a].tag = "data" /\ flash[s].tag = "swap"
  BY <1>1, <1>2, <1>3, <1>4 DEF AllData
<1>7. \A j \in Places : j <= Slots
  BY FilledRange
<1>8. \A m \in Places : Valid(flash[s].slot[m]) => m < n
  <2>1. Filled(flash[s], n)
    BY <1>1, <1>3, <1>4 DEF CopiedUpTo
  <2> QED
    BY <2>1, EmptyFacts DEF Filled
<1>9. Copied(flash, a, s)
  <2>1. \A j \in Places : Valid(flash[a].slot[j]) => \E m \in Places : flash[s].slot[m] = flash[a].slot[j]
    BY <1>1, <1>3, <1>4, <1>7 DEF CopiedUpTo
  <2>2. \A m \in Places : Valid(flash[s].slot[m]) =>
           \E j \in Places : Valid(flash[a].slot[j]) /\ flash[s].slot[m] = flash[a].slot[j]
    BY <1>1, <1>3, <1>4, <1>8 DEF CopiedUpTo
  <2>3. \A m, l \in Places :
              (Valid(flash[s].slot[m]) /\ Valid(flash[s].slot[l]) /\ flash[s].slot[m].id = flash[s].slot[l].id)
                 => m = l
    <3>1. OnSwap = flash[s] /\ swap.offset = n
      BY <1>3, <1>4
    <3>2. \A m, l \in Places : m < n /\ l < n /\ flash[s].slot[m].id = flash[s].slot[l].id => m = l
      BY <1>1, <3>1, Zenon DEF CopiedUpTo
    <3> QED
      BY <1>8, <3>2, Zenon
  <2> QED
    BY <2>1, <2>2, <2>3 DEF Copied
<1>10. FlashOK(Erase(flash, a), writes) /\ SameRecords(Erase(flash, a))
  BY <1>5, <1>6, <1>9, PageErased DEF SameRecords
<1> QED
  BY <1>1, <1>4, <1>10 DEF ErasesPage

(* What can be in flight.                                                   *)
LEMMA FlightCases ==
    ASSUME Good, Flying
    PROVE  \/ Writing /\ ~ FlagsOld
           \/ Writing /\ FlagsOld
           \/ Deleting /\ ~ Writing
           \/ GcWorks /\ GcCopying
           \/ GcWorks /\ GcErasing /\ ErasesPage(pages[gc.cur].addr)
           \/ GcWorks /\ GcPromoting /\ TagsPage(pages[gc.cur].addr, "data")
           \/ GcWorks /\ GcDiscarding /\ ErasesPage(swap.addr)
           \/ GcWorks /\ GcTagging /\ TagsPage(swap.addr, "swap")
           \/ InstallOK /\ InstallErases /\ ErasesPage(swap.addr)
           \/ /\ InstallOK /\ InstallPromotes
              /\ \E i \in Index : TagsPage(pages[i].addr, "data")
           \/ InstallOK /\ InstallTagsSwap /\ TagsPage(swap.addr, "swap")
           \/ /\ InstallOK /\ InstallTagsData
              /\ \E i \in Index : TagsPage(pages[i].addr, "data")
<1>1. /\ Working /\ FlashOK(flash, writes) /\ Roles /\ QueueOK /\ GcOK /\ Op \in OpType /\ OpOK(Op)
      /\ \/ phase = "installing" /\ Op.code = "init" /\ InstallOK /\ ~ InstallWaits
         \/ phase = "initialized" /\ Op.code # "init"
  BY FlightFacts, OpFacts
<1>2. CASE phase = "installing"
  <2>1. InstallOK /\ ~ InstallWaits
    BY <1>1, <1>2
  <2>2. CASE InstallErases
    <3>1. /\ flashing = [addr |-> swap.addr, stages |-> <<Blank>>] /\ AllData /\ OnSwap.tag = "swap"
      BY <2>2 DEF InstallErases
    <3> QED
      BY <1>1, <2>1, <2>2, <3>1, ErasesSwap
  <2>3. CASE InstallPromotes
    <3>1. Untagged(OnSwap)
      BY <2>3 DEF InstallPromotes, InstallFresh
    <3>2. PICK i \in Index : flashing = [addr |-> pages[i].addr, stages |-> TagStages(OnPage(i), "data")]
                             /\ OnPage(i).tag = "swap"
      BY <2>3 DEF InstallPromotes
    <3>3. TagsPage(pages[i].addr, "data")
      BY <1>1, <3>1, <3>2, PromotesPage
    <3> QED
      BY <2>1, <2>3, <3>3
  <2>4. CASE InstallTagsSwap
    <3>1. /\ Untagged(OnSwap) /\ flashing = [addr |-> swap.addr, stages |-> TagStages(OnSwap, "swap")]
          /\ \A i \in Index : Tagged(i)
      BY <2>4 DEF InstallTagsSwap, InstallFresh
    <3>2. \A p \in Phys : p # swap.addr => flash[p].tag # "swap"
      BY <1>1, <3>1, PhysKinds DEF Untagged
    <3> QED
      BY <1>1, <2>1, <2>4, <3>1, <3>2, TagsSwap
  <2>5. CASE InstallTagsData
    <3>1. CleanSwap
      BY <2>5 DEF InstallTagsData
    <3>2. PICK i \in Index : flashing = [addr |-> pages[i].addr, stages |-> TagStages(OnPage(i), "data")]
                             /\ Untagged(OnPage(i))
      BY <2>5 DEF InstallTagsData
    <3>3. TagsPage(pages[i].addr, "data")
      BY <1>1, <3>1, <3>2, TagsData
    <3> QED
      BY <2>1, <2>5, <3>3
  <2> QED
    BY <2>1, <2>2, <2>3, <2>4, <2>5 DEF InstallOK
<1>3. CASE phase = "initialized"
  <2>1. Op.code # "init" /\ Op.code \in Codes
    <3> DEFINE P == 0 .. DataPages
    <3>1. OpType = [code : Codes, step : Steps, page : P, id : Nat, data : Nat,
                    file : Files \union {NoFile}, key : Keys \union {"none"}, target : Nat \union {-1}]
      BY DEF OpType
    <3> HIDE DEF P
    <3> QED
      BY <1>1, <1>3, <3>1
  <2>2. Writing \/ (Deleting /\ ~ Writing) \/ GcWorks
    BY <1>1, <2>1 DEF Codes, Writing, IsWriteOp, Deleting, GcWorks
  <2>3. CASE GcWorks
    <3>1. GcRuns
      BY <1>1, <2>3 DEF GcOK
    <3>2. gc.cur \in Index
      BY <1>1, GcFields
    <3>3. CASE GcCopying
      BY <2>3, <3>3
    <3>4. CASE GcErasing
      BY <1>1, <2>3, <3>4, ErasesCollected
    <3>5. CASE GcPromoting
      <4>1. Untagged(OnSwap) /\ OnPage(gc.cur).tag = "swap"
            /\ flashing = [addr |-> pages[gc.cur].addr, stages |-> TagStages(OnPage(gc.cur), "data")]
        BY <3>5, EmptyFacts DEF GcPromoting
      <4>2. PICK c \in Index : c = gc.cur
        BY <3>2
      <4>3. TagsPage(pages[c].addr, "data")
        BY <1>1, <4>1, <4>2, PromotesPage
      <4> QED
        BY <2>3, <3>5, <4>2, <4>3
    <3>6. CASE GcDiscarding
      <4>1. /\ flashing = [addr |-> swap.addr, stages |-> <<Blank>>] /\ AllData /\ OnSwap.tag = "swap"
        BY <3>6 DEF GcDiscarding
      <4> QED
        BY <1>1, <2>3, <3>6, <4>1, ErasesSwap
    <3>7. CASE GcTagging
      <4>1. /\ Untagged(OnSwap) /\ AllData /\ flashing = [addr |-> swap.addr, stages |-> TagStages(OnSwap, "swap")]
        BY <3>7, EmptyFacts DEF GcTagging
      <4>2. \A p \in Phys : p # swap.addr => flash[p].tag # "swap"
        BY <1>1, <4>1, PhysKinds
      <4> QED
        BY <1>1, <2>3, <3>7, <4>1, <4>2, TagsSwap
    <3> QED
      BY <3>1, <3>3, <3>4, <3>5, <3>6, <3>7 DEF GcRuns
  <2> QED
    BY <2>2, <2>3
<1> QED
  BY <1>1, <1>2, <1>3

(* A flash operation of one stage.                                          *)
LEMMA OneStage ==
    ASSUME NEW a, NEW p
    PROVE  /\ Len([addr |-> a, stages |-> <<p>>].stages) = 1
           /\ [addr |-> a, stages |-> <<p>>].stages[1] = p
           /\ [addr |-> a, stages |-> <<p>>].addr = a
           /\ Last([addr |-> a, stages |-> <<p>>].stages) = p
BY DEF Last

(* Every stage of an erasure.                                               *)
LEMMA EraseStage ==
    ASSUME NEW a, ErasesPage(a), NEW k \in 1 .. Len(flashing.stages), NEW g,
           g = [flash EXCEPT ![flashing.addr] = flashing.stages[k]]
    PROVE  g = Erase(flash, a) /\ FlashOK(g, writes) /\ SameRecords(g)
<1>1. flashing = [addr |-> a, stages |-> <<Blank>>] /\ FlashOK(Erase(flash, a), writes) /\ SameRecords(Erase(flash, a))
  BY DEF ErasesPage
<1>2. Len(flashing.stages) = 1 /\ flashing.stages[1] = Blank /\ flashing.addr = a
  BY <1>1, OneStage
<1>3. k = 1
  BY <1>2
<1>4. g = Erase(flash, a)
  BY <1>2, <1>3 DEF Erase
<1> QED
  BY <1>1, <1>4

(* Every stage of a tag.                                                    *)
LEMMA TagStage ==
    ASSUME NEW a, NEW t \in {"swap", "data"}, TagsPage(a, t), FlashOK(flash, writes),
           NEW k \in 1 .. Len(flashing.stages), NEW g,
           g = [flash EXCEPT ![flashing.addr] = flashing.stages[k]]
    PROVE  FlashOK(g, writes) /\ SameRecords(g)
<1>1. /\ a \in Phys /\ flashing = [addr |-> a, stages |-> TagStages(flash[a], t)]
      /\ Untagged(flash[a]) \/ (flash[a].tag = "swap" /\ t = "data")
      /\ FlashOK(Tag(flash, a, t), writes) /\ SameRecords(Tag(flash, a, t))
  BY DEF TagsPage
<1>2. flashing.addr = a /\ flashing.stages = TagStages(flash[a], t)
  BY <1>1
<1>3. PICK n \in 1 .. Len(TagStages(flash[a], t)) : g = [flash EXCEPT ![a] = TagStages(flash[a], t)[n]]
  BY <1>2
<1>4. a \in Phys
  BY <1>1
<1>5. Untagged(flash[a]) \/ (flash[a].tag = "swap" /\ t = "data")
  BY <1>1
<1>6. FlashOK(Tag(flash, a, t), writes) /\ SameRecords(Tag(flash, a, t))
  BY <1>1
<1> QED
  BY <1>3, <1>4, <1>5, <1>6, TagEffect

\* A deletion in flight flags a record that it is to remove.
LEMMA DeleteFlight ==
    ASSUME Good, Flying, Deleting
    PROVE  \E i \in Index, j \in Places :
               /\ flashing = [addr |-> pages[i].addr, stages |-> <<WithKey(OnPage(i), j, "dirty")>>]
               /\ Valid(OnPage(i).slot[j]) /\ Targets(OnPage(i).slot[j]) /\ AllData
               /\ Op.code = "delete" => Op.step = "done"
<1>1. DeletingOK /\ ~ GcWorks /\ phase = "initialized" /\ AllData
  BY FlightFacts DEF Deleting, GcWorks
<1>2. PICK i \in Index, j \in Places :
        /\ flashing = [addr |-> pages[i].addr, stages |-> <<WithKey(OnPage(i), j, "dirty")>>]
        /\ Valid(OnPage(i).slot[j])
        /\ Op.code = "delete" => Op.step = "done" /\ OnPage(i).slot[j].id = Op.target
        /\ Op.code = "delete file" => OnPage(i).slot[j].file = Op.file
  BY <1>1 DEF DeletingOK
<1>3. Targets(OnPage(i).slot[j])
  BY <1>2 DEF Deleting, Targets
<1> QED
  BY <1>1, <1>2, <1>3

(* Every stage of a flag.                                                   *)
LEMMA FlagStage ==
    ASSUME Good, Flying, AllData, NEW i \in Index, NEW j \in Places, Valid(OnPage(i).slot[j]), Targets(OnPage(i).slot[j]),
           Op.code = "update" => Op.data \in StoredIn(flash) /\ Content(Op, 4) \in CellsIn(flash)
                                 /\ Op.data # OnPage(i).slot[j].data,
           flashing = [addr |-> pages[i].addr, stages |-> <<WithKey(OnPage(i), j, "dirty")>>],
           NEW k \in 1 .. Len(flashing.stages), NEW g,
           g = [flash EXCEPT ![flashing.addr] = flashing.stages[k]]
    PROVE  /\ g = Write(flash, pages[i].addr, j, Dirtied(OnPage(i).slot[j]))
           /\ FlashOK(g, writes) /\ Removes(g)
<1>1. Len(flashing.stages) = 1 /\ flashing.stages[1] = WithKey(OnPage(i), j, "dirty") /\ flashing.addr = pages[i].addr
  BY OneStage
<1>2. k = 1
  BY <1>1
<1>3. g = [flash EXCEPT ![pages[i].addr] = WithKey(OnPage(i), j, "dirty")]
  BY <1>1, <1>2
<1> DEFINE d == Dirtied(OnPage(i).slot[j])
<1>4. /\ [flash EXCEPT ![pages[i].addr] = WithKey(OnPage(i), j, "dirty")] = Write(flash, pages[i].addr, j, d)
      /\ FlashOK(Write(flash, pages[i].addr, j, d), writes)
      /\ Removes(Write(flash, pages[i].addr, j, d))
  BY FlagEffect
<1>5. g = Write(flash, pages[i].addr, j, d)
  BY <1>3, <1>4
<1> HIDE DEF d
<1> QED
  BY <1>4, <1>5 DEF d

(* Every stage of the words of a record.                                    *)
LEMMA WordsStage ==
    ASSUME Good, Flying, Writing, ~ FlagsOld,
           NEW k \in 1 .. Len(flashing.stages), NEW g,
           g = [flash EXCEPT ![flashing.addr] = flashing.stages[k]]
    PROVE  /\ g = Write(flash, WriteAddr, WriteSlot, Content(Op, Level + 1))
           /\ FlashOK(g, writes) /\ Effect(g) /\ (Level < 3 => SameRecords(g))
<1>1. /\ flashing = [addr |-> WriteAddr, stages |-> <<Put(OnPage(Op.page), WriteSlot, Content(Op, Level + 1))>>]
      /\ FlashOK(Write(flash, WriteAddr, WriteSlot, Content(Op, Level + 1)), writes)
      /\ Effect(Write(flash, WriteAddr, WriteSlot, Content(Op, Level + 1)))
      /\ Level < 3 => SameRecords(Write(flash, WriteAddr, WriteSlot, Content(Op, Level + 1)))
  BY WordsEffect
<1>2. flash[WriteAddr] = OnPage(Op.page)
  BY WriteFlight
<1> DEFINE p == Put(OnPage(Op.page), WriteSlot, Content(Op, Level + 1))
<1>3. Len(flashing.stages) = 1 /\ flashing.stages[1] = p /\ flashing.addr = WriteAddr
  BY <1>1, OneStage
<1>4. k = 1
  BY <1>3
<1> HIDE DEF p
<1>5. g = [flash EXCEPT ![WriteAddr] = p]
  BY <1>3, <1>4
<1>6. g = Write(flash, WriteAddr, WriteSlot, Content(Op, Level + 1))
  BY <1>2, <1>5 DEF Write, p
<1> QED
  BY <1>1, <1>6

(* Whatever part of a flash operation is done, the flash stays in order.    *)
LEMMA StageEffect ==
    ASSUME Good, Flying, NEW k \in 1 .. Len(flashing.stages), NEW g,
           g = [flash EXCEPT ![flashing.addr] = flashing.stages[k]]
    PROVE  FlashOK(g, writes) /\ Effect(g)
<1>1. FlashOK(flash, writes)
  BY FlightFacts
<1>2. CASE Writing /\ ~ FlagsOld
  BY <1>2, WordsStage
<1>3. CASE Writing /\ FlagsOld
  <2>1. /\ old.page \in Index /\ old.slot \in Places
        /\ Valid(OnPage(old.page).slot[old.slot]) /\ Targets(OnPage(old.page).slot[old.slot])
        /\ flashing = [addr |-> pages[old.page].addr, stages |-> <<WithKey(OnPage(old.page), old.slot, "dirty")>>]
        /\ Op.data \in StoredIn(flash) /\ Op.data # OnPage(old.page).slot[old.slot].data
        /\ Content(Op, 4) \in CellsIn(flash)
    BY <1>3, OldEffect
  <2>2. AllData
    BY <1>3, WriteFlight
  <2>3. FlashOK(g, writes) /\ Removes(g)
    BY <2>1, <2>2, FlagStage
  <2> QED
    BY <2>3 DEF Effect
<1>4. CASE Deleting /\ ~ Writing
  <2>1. PICK i \in Index, j \in Places :
               /\ flashing = [addr |-> pages[i].addr, stages |-> <<WithKey(OnPage(i), j, "dirty")>>]
               /\ Valid(OnPage(i).slot[j]) /\ Targets(OnPage(i).slot[j]) /\ AllData
    BY <1>4, DeleteFlight
  <2>2. Op.code # "update"
    BY <1>4 DEF Deleting
  <2>3. FlashOK(g, writes) /\ Removes(g)
    BY <2>1, <2>2, FlagStage
  <2> QED
    BY <2>3 DEF Effect
<1>5. CASE GcWorks /\ GcCopying
  <2> DEFINE c(n) == CopyPart(OnPage(gc.cur).slot[gc.src], n)
  <2>1. /\ Len(flashing.stages) = 4 /\ flashing.addr = swap.addr
        /\ \A n \in 1 .. 4 : CopyStage(n)
    BY <1>5, CopyEffect
  <2> DEFINE h == Write(flash, swap.addr, swap.offset, c(k))
  <2>2. k \in 1 .. 4 /\ g = [flash EXCEPT ![swap.addr] = flashing.stages[k]]
    BY <2>1
  <2>3. CopyStage(k)
    BY <2>1, <2>2
  <2>4. [flash EXCEPT ![swap.addr] = flashing.stages[k]] = h /\ FlashOK(h, writes) /\ SameRecords(h)
    BY <2>3 DEF CopyStage
  <2>5. g = h
    BY <2>2, <2>4
  <2> HIDE DEF h
  <2>6. FlashOK(g, writes) /\ SameRecords(g)
    BY <2>4, <2>5
  <2> QED
    BY <2>6 DEF Effect
<1>6. ASSUME NEW a, ErasesPage(a) PROVE FlashOK(g, writes) /\ Effect(g)
  BY <1>6, EraseStage DEF Effect
<1>7. ASSUME NEW a, NEW t \in {"swap", "data"}, TagsPage(a, t) PROVE FlashOK(g, writes) /\ Effect(g)
  BY <1>1, <1>7, TagStage DEF Effect
<1>8. \/ Writing /\ ~ FlagsOld
      \/ Writing /\ FlagsOld
      \/ Deleting /\ ~ Writing
      \/ GcWorks /\ GcCopying
      \/ \E a : ErasesPage(a)
      \/ \E a : TagsPage(a, "data") \/ TagsPage(a, "swap")
  BY FlightCases
<1> QED
  BY <1>2, <1>3, <1>4, <1>5, <1>6, <1>7, <1>8

(* No flash operation has no stages.                                        *)
LEMMA NoStages == NoFlash.stages = <<>> /\ Len(NoFlash.stages) = 0
BY DEF NoFlash

(* A power cut: part of the flash operation may be there, and RAM is lost.  *)
LEMMA DoPowerCut == ASSUME Good, PowerCut PROVE Good'
<1>1. /\ phase # "off" /\ phase' = "off" /\ writes' = writes
      /\ pages' = NoPages /\ swap' = NoSwap /\ gc' = GcIdle /\ queue' = <<>>
      /\ latest' = 0 /\ tok' = TokStart /\ opened' = NoDesc
      /\ flashing' = NoFlash /\ hand' = "idle" /\ result' = "success"
      /\ \/ flash' = flash
         \/ \E k \in 1 .. Len(flashing.stages) : flash' = [flash EXCEPT ![flashing.addr] = flashing.stages[k]]
  BY DEF PowerCut
<1>2. FlashOK(flash, writes) /\ writes \in Nat
  BY <1>1 DEF Good, OnOK, QueueOK
<1>3. FlashOK(flash', writes)
  <2>1. CASE flash' = flash
    BY <1>2, <2>1
  <2>2. ASSUME NEW k \in 1 .. Len(flashing.stages), flash' = [flash EXCEPT ![flashing.addr] = flashing.stages[k]]
        PROVE FlashOK(flash', writes)
    <3>1. Flying
      BY NoStages DEF Flying
    <3> QED
      BY <2>2, <3>1, StageEffect
  <2> QED
    BY <1>1, <2>1, <2>2
<1>4. OffOK'
  BY <1>1, <1>2 DEF OffOK, Resting, Flying
<1> QED
  BY <1>1, <1>3, <1>4 DEF Good, ModeOK

-----------------------------------------------------------------------------
(* The end of a flash operation.                                            *)

(* A flash operation ends.                                                  *)
LEMMA DoneFacts ==
    ASSUME Good, FlashDone
    PROVE  /\ Flying /\ ~ Flying' /\ Working' /\ ~ Telling' /\ hand' = "run" /\ result' = "success"
           /\ UNCHANGED <<pages, swap, gc, phase, queue, latest, tok, old, opened, writes>>
           /\ flash' = [flash EXCEPT ![flashing.addr] = flashing.stages[Len(flashing.stages)]]
           /\ Op' = Op /\ Roles' /\ QueueOK' /\ TokOK' /\ DeletingOK'
           /\ Level' = Groups[Op.step] /\ (Writing' <=> Writing) /\ (GcWorks' <=> GcWorks)
           /\ ~ FlagsOld' /\ WriteAddr' = WriteAddr /\ WriteSlot' = WriteSlot
<1>1. /\ Flying /\ flashing' = NoFlash /\ hand' = "run" /\ result' = "success"
      /\ UNCHANGED <<pages, swap, gc, phase, queue, latest, tok, old, opened, writes>>
      /\ flash' = [flash EXCEPT ![flashing.addr] = flashing.stages[Len(flashing.stages)]]
  BY DEF FlashDone, Flying, ram, bounds, Last
<1>2. Working /\ Roles /\ QueueOK /\ TokOK /\ queue # <<>>
  BY <1>1, FlightFacts
<1>3. ~ Flying' /\ Working' /\ ~ Telling'
  BY <1>1, <1>2 DEF Flying, Working, Telling
<1>4. Op' = Op
  BY <1>1 DEF Op
<1>5. Roles'
  BY <1>1, <1>2 DEF Roles
<1>6. QueueOK'
  BY <1>1, <1>2 DEF QueueOK, OpOK, Waits
<1>7. TokOK' /\ DeletingOK'
  BY <1>1, <1>2, <1>3, <1>4 DEF TokOK, DeletingOK
<1>8. Level' = Groups[Op.step] /\ ~ FlagsOld'
  BY <1>3, <1>4 DEF Level, FlagsOld
<1>9. (Writing' <=> Writing) /\ (GcWorks' <=> GcWorks)
  BY <1>2, <1>3, <1>4 DEF Writing, GcWorks
<1>10. WriteAddr' = WriteAddr /\ WriteSlot' = WriteSlot
  BY <1>1, <1>4 DEF WriteAddr, WriteSlot
<1> QED
  BY <1>1, <1>3, <1>4, <1>5, <1>6, <1>7, <1>8, <1>9, <1>10

(* The words that were on their way are there.                              *)
LEMMA LevelRises ==
    ASSUME Good, FlashDone, Writing
    PROVE  /\ FlagsOld => Level' = 4 /\ Level = 4
           /\ ~ FlagsOld => Level \in 0 .. 3 /\ Level' = Level + 1
<1>1. Flying /\ Level' = Groups[Op.step]
  BY DoneFacts
<1>2. (FlagsOld => Level = 4) /\ (~ FlagsOld => Level \in 0 .. 3)
  BY <1>1, WriteFlight
<1>3. FlagsOld => Level = Groups[Op.step]
  BY DEF Level
<1>4. ~ FlagsOld => Level = Groups[Op.step] - 1
  BY <1>1 DEF Level
<1>5. Groups[Op.step] \in 0 .. 4
  <2>1. Op.step \in {"begin", "id", "data", "finalize", "done", "find", "flag"}
    BY <1>1, FlightFacts DEF OpOK, Writing, IsWriteOp
  <2> QED
    BY <2>1 DEF Groups
<1> QED
  BY <1>1, <1>2, <1>3, <1>4, <1>5

(* Ids and data stay unused when a flash operation ends.                    *)
LEMMA DoneNumbers ==
    ASSUME Good, FlashDone, Effect(flash')
    PROVE  NumbersOK'
<1>1. /\ Flying /\ Working /\ Op' = Op /\ UNCHANGED <<queue, latest>> /\ NumbersOK /\ QueueOK
      /\ Op = queue[1] /\ OpOK(Op) /\ 1 \in 1 .. Len(queue)
  BY FlightFacts, DoneFacts
<1>2. \A k \in 1 .. Len(queue) : Uncommitted(k)' => Uncommitted(k)
  <2> SUFFICES ASSUME NEW k \in 1 .. Len(queue), Uncommitted(k)' PROVE Uncommitted(k)
    OBVIOUS
  <2>1. IsWriteOp(queue[k])
    BY <1>1 DEF Uncommitted, IsWriteOp
  <2>2. CASE k # 1
    BY <2>1, <2>2 DEF Uncommitted
  <2>3. CASE k = 1
    <3>1. Writing /\ Level' < 4
      BY <1>1, <2>1, <2>3 DEF Uncommitted, Writing
    <3>2. Level < 4
      BY <3>1, LevelRises
    <3> QED
      BY <1>1, <2>1, <3>2 DEF Uncommitted
  <2> QED
    BY <2>2, <2>3
<1>3. /\ IdsIn(flash) \subseteq 1 .. latest
      /\ \A k \in 1 .. Len(queue) : Uncommitted(k) =>
            queue[k].id \notin IdsIn(flash) /\ queue[k].data \notin StoredIn(flash)
  BY <1>1 DEF NumbersOK
<1>4. ASSUME IdsIn(flash') \subseteq IdsIn(flash), StoredIn(flash') \subseteq StoredIn(flash)
      PROVE  NumbersOK'
  <2>1. IdsIn(flash') \subseteq 1 .. latest'
    BY <1>1, <1>3, <1>4
  <2>2. \A k \in 1 .. Len(queue) : Uncommitted(k)' =>
            queue[k].id \notin IdsIn(flash') /\ queue[k].data \notin StoredIn(flash')
    BY <1>2, <1>3, <1>4
  <2> QED
    BY <1>1, <2>1, <2>2 DEF NumbersOK
<1>5. CASE SameRecords(flash')
  BY <1>4, <1>5 DEF SameRecords
<1>6. CASE Removes(flash')
  <2>1. IdsIn(flash') \subseteq IdsIn(flash) /\ StoredIn(flash') \subseteq StoredIn(flash)
    BY <1>6 DEF Removes
  <2> QED
    BY <1>4, <2>1
<1>7. CASE Commits(flash')
  <2>1. /\ Writing /\ ~ FlagsOld /\ Level = 3 /\ IsWriteOp(Op)
        /\ StoredIn(flash') = StoredIn(flash) \union {Op.data} /\ IdsIn(flash') = IdsIn(flash) \union {Op.id}
    BY <1>7 DEF Commits, Writing
  <2>2. Level' = 4
    BY <2>1, LevelRises
  <2>3. Op.id \in 1 .. latest
    BY <1>1, <2>1 DEF OpOK
  <2>4. ~ Uncommitted(1)'
    BY <2>2 DEF Uncommitted
  <2>5. \A k \in 1 .. Len(queue) : Uncommitted(k)' =>
            queue[k].id \notin IdsIn(flash') /\ queue[k].data \notin StoredIn(flash')
    <3> SUFFICES ASSUME NEW k \in 1 .. Len(queue), Uncommitted(k)'
                 PROVE  queue[k].id \notin IdsIn(flash') /\ queue[k].data \notin StoredIn(flash')
      OBVIOUS
    <3>1. k # 1 /\ Uncommitted(k) /\ IsWriteOp(queue[k])
      BY <1>2, <2>4 DEF Uncommitted
    <3>2. queue[k].id # Op.id /\ queue[k].data # Op.data
      BY <1>1, <2>1, <3>1 DEF QueueOK
    <3> QED
      BY <1>3, <2>1, <3>1, <3>2
  <2>6. IdsIn(flash') \subseteq 1 .. latest'
    BY <1>1, <1>3, <2>1, <2>3
  <2> QED
    BY <1>1, <2>5, <2>6 DEF NumbersOK
<1> QED
  BY <1>5, <1>6, <1>7 DEF Effect

(* What the end of a flash operation has to show.                           *)
LEMMA DoneKeeps ==
    ASSUME Good, FlashDone, FlashOK(flash', writes), Effect(flash'), WritingOK', GcOK',
           phase = "installing" => InstallOK', phase = "initialized" => OffsetsOK'
    PROVE  Good'
<1>1. /\ Flying /\ ~ Flying' /\ Working' /\ ~ Telling' /\ hand' = "run" /\ result' = "success"
      /\ UNCHANGED <<pages, phase, queue, writes>> /\ Op' = Op /\ Roles' /\ QueueOK' /\ TokOK' /\ DeletingOK'
  BY DoneFacts
<1>2. /\ ~ Telling /\ SpaceOK /\ QueueOK
      /\ \/ phase = "installing" /\ Op.code = "init"
         \/ phase = "initialized" /\ Op.code # "init" /\ InitializedOK
  BY <1>1, FlightFacts
<1>3. NumbersOK'
  BY DoneNumbers
<1>4. SpaceOK'
  <2>1. \A i : WritesOn(i)' = WritesOn(i)
    BY <1>1, <1>2 DEF WritesOn, IsWriteOp
  <2> QED
    BY <1>1, <1>2, <2>1 DEF SpaceOK
<1>5. OnOK'
  BY <1>1, <1>3, <1>4 DEF OnOK
<1>6. phase = "initialized" => InitializedOK'
  BY <1>1, <1>2 DEF InitializedOK
<1>7. ModeOK'
  BY <1>1, <1>2, <1>6 DEF ModeOK
<1> QED
  BY <1>1, <1>5, <1>7 DEF Good

(* Words were written on a data page.                                       *)
LEMMA PageWritten ==
    ASSUME Good, FlashDone, AllData, CleanSwap, ~ GcWorks, phase = "initialized",
           NEW i \in Index, NEW j \in Places, NEW c \in Cell, flash' = Write(flash, pages[i].addr, j, c),
           FlashOK(flash', writes), Effect(flash'), WritingOK',
           \A k \in Index \ {i} : Upto(k)' = Upto(k),
           Filled(Put(OnPage(i), j, c), Upto(i)')
    PROVE  Good'
<1>1. /\ Roles /\ GcOK /\ FlashOK(flash, writes) /\ InitializedOK /\ Op.code # "init"
  BY DoneFacts, FlightFacts
<1>2. /\ UNCHANGED <<pages, swap, gc, phase>> /\ (GcWorks' <=> GcWorks)
  BY DoneFacts
<1>3. /\ pages[i].addr \in Phys /\ flash \in [Phys -> Page] /\ swap.addr # pages[i].addr
      /\ \A k \in Index : k # i => pages[k].addr # pages[i].addr
  BY <1>1, RolesFacts DEF FlashOK, Roles
<1>4. OnPage(i) \in Page /\ OnPage(i) = flash[pages[i].addr]
  BY <1>3 DEF OnPage
<1>5. OnPage(i)' = Put(OnPage(i), j, c) /\ OnPage(i)'.tag = OnPage(i).tag
  <2>1. flash' [pages[i].addr] = Put(OnPage(i), j, c)
    BY <1>3, <1>4 DEF Write
  <2>2. OnPage(i)' = Put(OnPage(i), j, c)
    BY <1>2, <2>1 DEF OnPage
  <2> QED
    BY <1>4, <2>2, PutFacts
<1>6. \A k \in Index : k # i => OnPage(k)' = OnPage(k)
  BY <1>2, <1>3 DEF OnPage, Write
<1>7. OnSwap' = OnSwap
  BY <1>2, <1>3 DEF OnSwap, Write
<1>8. AllData'
  BY <1>5, <1>6 DEF AllData
<1>9. CleanSwap'
  BY <1>2, <1>7 DEF CleanSwap
<1>10. GcOK'
  BY <1>1, <1>2, <1>8, <1>9 DEF GcOK
<1>11. \A k \in Index : Filled(OnPage(k), Upto(k))
  BY <1>1 DEF InitializedOK, OffsetsOK, GcErased
<1>12. \A k \in Index : Filled(OnPage(k)', Upto(k)')
  <2>1. Filled(OnPage(i)', Upto(i)')
    BY <1>5
  <2>2. \A k \in Index : k # i => Filled(OnPage(k)', Upto(k)')
    BY <1>6, <1>11
  <2> QED
    BY <2>1, <2>2
<1>13. OffsetsOK'
  BY <1>12 DEF OffsetsOK
<1> QED
  BY <1>10, <1>13, DoneKeeps

(* A group of words of a record is written.                                 *)
LEMMA WordsDone ==
    ASSUME Good, FlashDone, Writing, ~ FlagsOld
    PROVE  Good'
<1>1. /\ Flying /\ ~ Flying' /\ UNCHANGED <<pages, queue, old>> /\ Op' = Op /\ (Writing' <=> Writing) /\ ~ FlagsOld'
      /\ WriteAddr' = WriteAddr /\ WriteSlot' = WriteSlot
      /\ flash' = [flash EXCEPT ![flashing.addr] = flashing.stages[Len(flashing.stages)]]
  BY DoneFacts
<1>2. /\ Op.page \in Index /\ Op.file \in Files /\ Op.key \in Keys /\ Op.id \in Nat \ {0} /\ Op.data \in Nat
      /\ WriteAddr \in Phys /\ WriteAddr = pages[Op.page].addr /\ WriteSlot \in Places /\ WriteSlot = pages[Op.page].offset
      /\ OnPage(Op.page) \in Page
      /\ OnPage(Op.page).slot[WriteSlot] = Content(Op, Level) /\ Level \in 0 .. 3
      /\ phase = "initialized" /\ AllData /\ CleanSwap /\ ~ GcWorks
  <2>1. writes \in Nat
    BY <1>1, FlightFacts DEF QueueOK
  <2> QED
    BY <1>1, <2>1, WriteFlight DEF GcWorks, Writing, IsWriteOp
<1>3. Level' = Level + 1
  BY LevelRises
<1> DEFINE c == Content(Op, Level + 1)
<1>4. c \in Cell /\ c.key # "none"
  BY <1>2, ContentFacts
<1>5. /\ flashing = [addr |-> WriteAddr, stages |-> <<Put(OnPage(Op.page), WriteSlot, c)>>]
      /\ FlashOK(Write(flash, WriteAddr, WriteSlot, c), writes) /\ Effect(Write(flash, WriteAddr, WriteSlot, c))
  BY <1>1, WordsEffect
<1>6. flash' = Write(flash, WriteAddr, WriteSlot, c) /\ FlashOK(flash', writes) /\ Effect(flash')
  <2> DEFINE p == Put(OnPage(Op.page), WriteSlot, c)
  <2>1. Len(flashing.stages) = 1 /\ flashing.stages[1] = p /\ flashing.addr = WriteAddr
    BY <1>5, OneStage
  <2> HIDE DEF p, c
  <2>2. flash' = [flash EXCEPT ![WriteAddr] = p]
    BY <1>1, <2>1
  <2>3. flash[WriteAddr] = OnPage(Op.page)
    BY <1>2 DEF OnPage
  <2>4. flash' = Write(flash, WriteAddr, WriteSlot, c)
    BY <2>2, <2>3 DEF Write, p
  <2> QED
    BY <1>5, <2>4
<1>7. \A n : Content(Op, n)' = Content(Op, n)
  BY <1>1 DEF Content
<1>8. /\ flash' [WriteAddr].slot[WriteSlot] = c
      /\ \A p \in Phys, k \in Places : p # WriteAddr \/ k # WriteSlot => flash'[p].slot[k] = flash[p].slot[k]
  <2>1. flash \in [Phys -> Page]
    BY <1>1, FlightFacts DEF FlashOK
  <2>2. Put(flash[WriteAddr], WriteSlot, c).slot[WriteSlot] = c
        /\ \A k \in Places : k # WriteSlot => Put(flash[WriteAddr], WriteSlot, c).slot[k] = flash[WriteAddr].slot[k]
    BY <1>2, <1>4, <2>1, PutFacts
  <2> HIDE DEF c
  <2> QED
    BY <1>2, <1>6, <2>1, <2>2 DEF Write
<1>9. Op.code = "update" /\ Op.step \in {"id", "data", "finalize", "flag"} => OldThere'
  <2> SUFFICES ASSUME Op.code = "update", Op.step \in {"id", "data", "finalize", "flag"} PROVE OldThere'
    OBVIOUS
  <2>1. OldThere
    BY <1>1, FlightFacts DEF WritingOK
  <2>2. /\ old.page \in Index /\ old.addr = pages[old.page].addr /\ old.slot \in Places
        /\ Valid(flash[old.addr].slot[old.slot]) /\ flash[old.addr].slot[old.slot].id = Op.target
        /\ Op.target # Op.id /\ old.addr \in Phys
    <3>1. Roles
      BY <1>1, FlightFacts
    <3> QED
      BY <2>1, <3>1, RolesFacts DEF OldThere
  <2>3. ~ Valid(Content(Op, Level))
    BY <1>2, ContentFacts
  <2>4. old.addr # WriteAddr \/ old.slot # WriteSlot
    <3>1. flash[WriteAddr].slot[WriteSlot] = Content(Op, Level)
      BY <1>2 DEF OnPage
    <3> QED
      BY <2>2, <2>3, <3>1
  <2>5. flash'[old.addr].slot[old.slot] = flash[old.addr].slot[old.slot]
    BY <1>8, <2>2, <2>4
  <2> QED
    BY <1>1, <2>2, <2>5 DEF OldThere
<1>10. WritingOK'
  <2>1. OnPage(Op.page)' = flash'[WriteAddr]
    BY <1>1, <1>2 DEF OnPage
  <2>2. Content(Op, Level)' = Content(Op, Level + 1)
    BY <1>1, <1>3 DEF Content
  <2>3. OnPage(Op.page)'.slot[WriteSlot'] = Content(Op, Level)'
    BY <1>1, <1>8, <2>1, <2>2
  <2> QED
    BY <1>1, <1>9, <2>3 DEF WritingOK
<1>11. \A k \in Index \ {Op.page} : Upto(k)' = Upto(k)
  BY <1>1 DEF Upto
<1>12. Upto(Op.page)' = pages[Op.page].offset + 1
  BY <1>1, <1>2, <1>3 DEF Upto
<1>13. Filled(Put(OnPage(Op.page), WriteSlot, c), WriteSlot + 1)
  <2>1. Roles /\ InitializedOK
    BY <1>1, <1>2, FlightFacts DEF Writing, IsWriteOp
  <2>2. Filled(OnPage(Op.page), Upto(Op.page))
    BY <1>2, <2>1 DEF InitializedOK, OffsetsOK, GcErased
  <2>3. /\ WriteSlot \in Nat /\ WriteSlot \in 1 .. Slots + 1 /\ WriteSlot <= Slots
    BY <1>2, FilledRange
  <2>4. WriteSlot + 1 \in 1 .. Slots + 1
    BY <2>3, ConstantFacts
  <2>5. CASE Level = 0
    <3>1. Filled(OnPage(Op.page), WriteSlot)
      BY <1>2, <2>2, <2>5 DEF Upto
    <3> HIDE DEF c
    <3> QED
      BY <1>2, <1>4, <2>3, <3>1, PutFilled
  <2>6. CASE Level > 0
    <3>1. Filled(OnPage(Op.page), WriteSlot + 1)
      BY <1>2, <2>2, <2>6 DEF Upto
    <3>2. WriteSlot < WriteSlot + 1 /\ WriteSlot <= WriteSlot + 1
      BY <2>3
    <3> HIDE DEF c
    <3> QED
      BY <1>2, <1>4, <2>4, <3>1, <3>2, PutFilled
  <2> QED
    BY <1>2, <2>5, <2>6
<1>14. flash' = Write(flash, pages[Op.page].addr, WriteSlot, c)
  BY <1>2, <1>6
<1>15. Filled(Put(OnPage(Op.page), WriteSlot, c), Upto(Op.page)')
  BY <1>2, <1>12, <1>13
<1> HIDE DEF c
<1>16. PICK i \in Index : i = Op.page
  BY <1>2
<1>17. PICK s \in Places : s = WriteSlot
  BY <1>2
<1>18. /\ flash' = Write(flash, pages[i].addr, s, c) /\ Filled(Put(OnPage(i), s, c), Upto(i)')
       /\ \A k \in Index \ {i} : Upto(k)' = Upto(k)
  BY <1>1, <1>11, <1>14, <1>15, <1>16, <1>17
<1> QED
  BY <1>2, <1>4, <1>6, <1>10, <1>18, PageWritten

(* Flagging a record frees no slot.                                         *)
LEMMA FlagFilled ==
    ASSUME NEW p \in Page, NEW j \in Places, Valid(p.slot[j]), NEW n, Filled(p, n)
    PROVE  Filled(Put(p, j, Dirtied(p.slot[j])), n)
<1>1. Dirtied(p.slot[j]) \in Cell /\ Dirtied(p.slot[j]).key # "none"
  BY DirtyFacts
<1> DEFINE d == Dirtied(p.slot[j])
<1>2. d \in Cell /\ d.key # "none"
  BY <1>1
<1> HIDE DEF d
<1>3. Put(p, j, d).slot[j] = d /\ \A m \in Places : m # j => Put(p, j, d).slot[m] = p.slot[m]
  BY <1>2, PutFacts
<1>4. p.slot[j] # Empty
  BY EmptyFacts
<1>5. Filled(Put(p, j, d), n)
  BY <1>2, <1>3, <1>4 DEF Filled
<1> QED
  BY <1>5 DEF d

(* A record is flagged.                                                     *)
LEMMA FlagDone ==
    ASSUME Good, FlashDone, AllData, NEW i \in Index, NEW j \in Places,
           Valid(OnPage(i).slot[j]), Targets(OnPage(i).slot[j]),
           Op.code = "update" => Op.data \in StoredIn(flash) /\ Content(Op, 4) \in CellsIn(flash)
                                 /\ Op.data # OnPage(i).slot[j].data,
           Op.code = "update" => FlagsOld /\ OnPage(i).slot[j].id # Op.id,
           flashing = [addr |-> pages[i].addr, stages |-> <<WithKey(OnPage(i), j, "dirty")>>]
    PROVE  Good'
<1>1. /\ Flying /\ ~ Flying' /\ UNCHANGED <<pages, queue, old>> /\ Op' = Op /\ (Writing' <=> Writing) /\ ~ FlagsOld'
      /\ WriteAddr' = WriteAddr /\ WriteSlot' = WriteSlot /\ Roles
      /\ flash' = [flash EXCEPT ![flashing.addr] = flashing.stages[Len(flashing.stages)]]
  BY DoneFacts, FlightFacts
<1>2. Op.code \in {"delete", "update", "delete file"} /\ ~ GcWorks
  BY DEF Targets, GcWorks
<1>3. phase = "initialized" /\ CleanSwap /\ FlashOK(flash, writes) /\ InitializedOK
  BY <1>1, <1>2, FlightFacts
<1>4. OnPage(i) \in Page /\ pages[i].addr \in Phys /\ OnPage(i) = flash[pages[i].addr]
  BY <1>1, <1>3, RolesFacts, Formation DEF OnPage
<1> DEFINE d == Dirtied(OnPage(i).slot[j])
<1>5. d \in Cell /\ ~ Valid(d)
  BY <1>4, DirtyFacts
<1>6. /\ [flash EXCEPT ![pages[i].addr] = WithKey(OnPage(i), j, "dirty")] = Write(flash, pages[i].addr, j, d)
      /\ FlashOK(Write(flash, pages[i].addr, j, d), writes)
      /\ Removes(Write(flash, pages[i].addr, j, d))
  BY <1>1, FlagEffect
<1>7. flash' = [flash EXCEPT ![pages[i].addr] = WithKey(OnPage(i), j, "dirty")]
  <2>1. Len(flashing.stages) = 1 /\ flashing.stages[1] = WithKey(OnPage(i), j, "dirty") /\ flashing.addr = pages[i].addr
    BY OneStage
  <2> QED
    BY <1>1, <2>1
<1>8. flash' = Write(flash, pages[i].addr, j, d) /\ FlashOK(flash', writes) /\ Effect(flash')
  BY <1>6, <1>7 DEF Effect
<1>9. Writing => Op.code = "update" /\ FlagsOld /\ Level' = 4 /\ Level = 4 /\ OnPage(i).slot[j].id # Op.id
  <2>1. Writing => Op.code = "update"
    BY <1>2 DEF Writing, IsWriteOp
  <2> QED
    BY <2>1, LevelRises
<1>10. \A k \in Index : Upto(k)' = Upto(k)
  <2>1. Writing => Level' = Level
    BY <1>9
  <2> QED
    BY <1>1, <2>1 DEF Upto
<1>11. Filled(Put(OnPage(i), j, d), Upto(i)')
  <2>1. Filled(OnPage(i), Upto(i))
    BY <1>2, <1>3 DEF InitializedOK, OffsetsOK, GcErased
  <2> QED
    BY <1>4, <1>10, <2>1, FlagFilled
<1>12. WritingOK'
  <2> SUFFICES ASSUME Writing PROVE WritingOK'
    BY <1>1 DEF WritingOK
  <2>1. /\ Op.code = "update" /\ FlagsOld /\ Level' = 4 /\ Level = 4 /\ Op.step = "done"
    BY <1>9 DEF FlagsOld
  <2>2. /\ Op.page \in Index /\ Op.file \in Files /\ Op.key \in Keys /\ Op.id \in Nat \ {0} /\ Op.data \in Nat
        /\ WriteAddr \in Phys /\ WriteAddr = pages[Op.page].addr /\ WriteSlot \in Places
        /\ flash[WriteAddr].slot[WriteSlot] = Content(Op, 4)
    <3>1. writes \in Nat
      BY <1>1, FlightFacts DEF QueueOK
    <3>2. /\ Op.page \in Index /\ Op.file \in Files /\ Op.key \in Keys /\ Op.id \in Nat \ {0} /\ Op.data \in 1 .. writes
        /\ WriteAddr \in Phys /\ WriteAddr = pages[Op.page].addr /\ WriteSlot \in Places
        /\ OnPage(Op.page).slot[WriteSlot] = Content(Op, Level)
      BY <1>1, WriteFlight
    <3> QED
      BY <2>1, <3>1, <3>2 DEF OnPage
  <2>3. Content(Op, 4).id = Op.id
    BY <2>2, ContentFacts
  <2>4. flash[pages[i].addr].slot[j].id # Op.id
    BY <1>4, <1>9
  <2>5. WriteAddr # pages[i].addr \/ WriteSlot # j
    BY <2>2, <2>3, <2>4
  <2>6. flash'[WriteAddr].slot[WriteSlot] = flash[WriteAddr].slot[WriteSlot]
    <3>1. flash \in [Phys -> Page]
      BY <1>3 DEF FlashOK
    <3>2. \A k \in Places : k # j => Put(flash[pages[i].addr], j, d).slot[k] = flash[pages[i].addr].slot[k]
      BY <1>4, <1>5, PutFacts
    <3> HIDE DEF d
    <3>3. CASE WriteAddr # pages[i].addr
      BY <1>8, <2>2, <3>1, <3>3 DEF Write
    <3>4. CASE WriteAddr = pages[i].addr
      <4>1. flash'[WriteAddr] = Put(flash[pages[i].addr], j, d)
        BY <1>4, <1>8, <3>1, <3>4 DEF Write
      <4> QED
        BY <2>2, <2>5, <3>2, <3>4, <4>1
    <3> QED
      BY <3>3, <3>4
  <2>7. OnPage(Op.page)' = flash'[WriteAddr]
    BY <1>1, <2>2 DEF OnPage
  <2>8. Content(Op, Level)' = Content(Op, 4)
    BY <1>1, <2>1 DEF Content
  <2>9. OnPage(Op.page)'.slot[WriteSlot'] = Content(Op, Level)'
    BY <1>1, <2>2, <2>6, <2>7, <2>8
  <2> QED
    BY <1>1, <2>1, <2>9 DEF WritingOK
<1> HIDE DEF d
<1>13. \A k \in Index \ {i} : Upto(k)' = Upto(k)
  BY <1>10
<1> QED
  BY <1>2, <1>3, <1>5, <1>8, <1>11, <1>12, <1>13, PageWritten

(* A record that is updated or deleted is flagged.                          *)
LEMMA FlagsDone ==
    ASSUME Good, FlashDone, (Writing /\ FlagsOld) \/ (Deleting /\ ~ Writing)
    PROVE  Good'
<1>1. Flying
  BY DoneFacts
<1>2. CASE Writing /\ FlagsOld
  <2>1. /\ old.page \in Index /\ old.slot \in Places
        /\ Valid(OnPage(old.page).slot[old.slot]) /\ Targets(OnPage(old.page).slot[old.slot])
        /\ flashing = [addr |-> pages[old.page].addr, stages |-> <<WithKey(OnPage(old.page), old.slot, "dirty")>>]
        /\ Op.data \in StoredIn(flash) /\ Op.data # OnPage(old.page).slot[old.slot].data
        /\ Content(Op, 4) \in CellsIn(flash)
        /\ OnPage(old.page).slot[old.slot].id # Op.id
    BY <1>1, <1>2, OldEffect
  <2>2. AllData
    BY <1>1, <1>2, WriteFlight
  <2>3. PICK i \in Index, j \in Places : i = old.page /\ j = old.slot
    BY <2>1
  <2>4. /\ Valid(OnPage(i).slot[j]) /\ Targets(OnPage(i).slot[j])
        /\ flashing = [addr |-> pages[i].addr, stages |-> <<WithKey(OnPage(i), j, "dirty")>>]
        /\ Op.data \in StoredIn(flash) /\ Op.data # OnPage(i).slot[j].data /\ OnPage(i).slot[j].id # Op.id
        /\ Content(Op, 4) \in CellsIn(flash)
    BY <2>1, <2>3
  <2> QED
    BY <1>2, <2>2, <2>4, FlagDone
<1>3. CASE Deleting /\ ~ Writing
  <2>1. PICK i \in Index, j \in Places :
               /\ flashing = [addr |-> pages[i].addr, stages |-> <<WithKey(OnPage(i), j, "dirty")>>]
               /\ Valid(OnPage(i).slot[j]) /\ Targets(OnPage(i).slot[j]) /\ AllData
    BY <1>1, <1>3, DeleteFlight
  <2>2. Op.code # "update"
    BY <1>3 DEF Deleting
  <2> QED
    BY <2>1, <2>2, FlagDone
<1> QED
  BY <1>2, <1>3

(* A page is erased.                                                        *)
LEMMA ErasedDone ==
    ASSUME Good, FlashDone, NEW a \in Phys, ErasesPage(a)
    PROVE  /\ FlashOK(flash', writes) /\ SameRecords(flash')
           /\ flash'[a] = Blank /\ \A p \in Phys : p # a => flash'[p] = flash[p]
<1>1. flash' = [flash EXCEPT ![flashing.addr] = flashing.stages[Len(flashing.stages)]] /\ flash \in [Phys -> Page]
  BY DoneFacts, FlightFacts DEF FlashOK
<1>2. /\ flashing = [addr |-> a, stages |-> <<Blank>>]
      /\ FlashOK(Erase(flash, a), writes) /\ SameRecords(Erase(flash, a))
  BY DEF ErasesPage
<1>3. Len(flashing.stages) = 1 /\ flashing.stages[1] = Blank /\ flashing.addr = a
  BY <1>2, OneStage
<1>4. flash' = Erase(flash, a)
  BY <1>1, <1>3 DEF Erase
<1> QED
  BY <1>1, <1>2, <1>4, EraseFacts

(* A tag is written.                                                        *)
LEMMA TaggedDone ==
    ASSUME Good, FlashDone, NEW a \in Phys, NEW t \in {"swap", "data"}, TagsPage(a, t)
    PROVE  /\ FlashOK(flash', writes) /\ SameRecords(flash')
           /\ flash'[a].tag = t /\ \A p \in Phys : p # a => flash'[p] = flash[p]
           /\ \A p \in Phys, n \in Int : Filled(flash'[p], n) <=> Filled(flash[p], n)
<1>1. flash' = [flash EXCEPT ![flashing.addr] = flashing.stages[Len(flashing.stages)]] /\ flash \in [Phys -> Page]
  BY DoneFacts, FlightFacts DEF FlashOK
<1>2. /\ flashing = [addr |-> a, stages |-> TagStages(flash[a], t)]
      /\ Untagged(flash[a]) \/ (flash[a].tag = "swap" /\ t = "data")
      /\ FlashOK(Tag(flash, a, t), writes) /\ SameRecords(Tag(flash, a, t))
  BY DEF TagsPage
<1>3. flash[a] \in Page
  BY <1>1
<1>4. Len(TagStages(flash[a], t)) = 2 /\ TagStages(flash[a], t)[2] = [flash[a] EXCEPT !.tag = t]
  BY <1>2, <1>3, TagStagesAre
<1>5. flashing.addr = a /\ flashing.stages = TagStages(flash[a], t)
  BY <1>2
<1>6. flash' = [flash EXCEPT ![a] = [flash[a] EXCEPT !.tag = t]]
  BY <1>1, <1>4, <1>5
<1>7. flash' = Tag(flash, a, t)
  BY <1>6 DEF Tag
<1>8. t \in Tags
  BY DEF Tags
<1> DEFINE g == Tag(flash, a, t)
<1>9. /\ g[a].tag = t /\ \A p \in Phys : p # a => g[p] = flash[p]
      /\ \A p \in Phys, n \in Int : Filled(g[p], n) <=> Filled(flash[p], n)
  BY <1>1, <1>8, TagFacts
<1>10. flash' = g /\ FlashOK(g, writes) /\ SameRecords(g)
  BY <1>2, <1>7
<1> HIDE DEF g
<1> QED
  BY <1>9, <1>10

\* where the pages of RAM lie does not change
LEMMA DonePages ==
    ASSUME Good, FlashDone
    PROVE  /\ \A i \in Index : /\ pages[i].addr \in Phys /\ pages[i].addr # swap.addr
                               /\ OnPage(i) = flash[pages[i].addr] /\ OnPage(i)' = flash'[pages[i].addr]
           /\ \A i, j \in Index : pages[i].addr = pages[j].addr => i = j
           /\ swap.addr \in Phys /\ OnSwap = flash[swap.addr] /\ OnSwap' = flash'[swap.addr]
           /\ \A i \in Index : pages[i].offset \in Int
<1>1. Roles /\ Flying /\ UNCHANGED <<pages, swap>>
  BY DoneFacts, FlightFacts
<1>2. \A i \in Index : pages[i].addr \in Phys /\ pages[i].addr # swap.addr /\ pages[i].offset \in Int
  BY <1>1, RolesFacts
<1> QED
  BY <1>1, <1>2, RolesFacts DEF OnPage, OnSwap, Roles

(* What the end of a flash operation of a collection has to show.           *)
LEMMA GcDone ==
    ASSUME Good, FlashDone, GcWorks, FlashOK(flash', writes), SameRecords(flash'), GcRuns',
           \A i \in Index : GcErased(i)' \/ Filled(OnPage(i)', pages[i].offset)
    PROVE  Good'
<1>1. /\ Flying /\ ~ Flying' /\ (GcWorks' <=> GcWorks) /\ (Writing' <=> Writing)
      /\ UNCHANGED <<pages, swap, gc, phase>>
  BY DoneFacts
<1>2. GcOK /\ ~ Writing /\ phase # "installing"
  BY <1>1, FlightFacts DEF GcWorks, Writing, IsWriteOp
<1>3. WritingOK'
  BY <1>1, <1>2 DEF WritingOK
<1>4. GcOK'
  <2>1. gc \in GcInfo /\ gc.state # "begin"
    BY <1>1, <1>2 DEF GcOK
  <2> QED
    BY <1>1, <2>1 DEF GcOK
<1>5. OffsetsOK'
  <2>1. \A i \in Index : Upto(i)' = pages[i].offset
    BY <1>1, <1>2 DEF Upto
  <2> QED
    BY <2>1 DEF OffsetsOK
<1>6. Effect(flash')
  BY DEF Effect
<1> QED
  BY <1>2, <1>3, <1>4, <1>5, <1>6, DoneKeeps

(* What a collection knows of the offsets while it waits.                   *)
LEMMA GcFilled ==
    ASSUME Good, FlashDone, GcWorks
    PROVE  /\ \A i \in Index : Filled(OnPage(i), pages[i].offset)
           /\ gc \in GcInfo /\ gc.cur \in Index /\ gc.state # "begin" /\ GcOK
           /\ UNCHANGED <<pages, swap, gc>> /\ Flying /\ ~ Flying' /\ FlashOK(flash, writes) /\ GcWorks'
<1>1. /\ Flying /\ ~ Flying' /\ GcWorks' /\ UNCHANGED <<pages, swap, gc>>
  BY DoneFacts
<1>2. GcOK /\ ~ Writing /\ InitializedOK /\ FlashOK(flash, writes)
  BY <1>1, FlightFacts DEF GcWorks, Writing, IsWriteOp
<1>3. gc \in GcInfo /\ gc.cur \in Index /\ gc.state # "begin"
  BY <1>1, <1>2 DEF GcOK, GcInfo
<1>4. \A i \in Index : Filled(OnPage(i), pages[i].offset)
  BY <1>1, <1>2 DEF InitializedOK, OffsetsOK, GcErased, Upto
<1> QED
  BY <1>1, <1>2, <1>3, <1>4

(* The collected page is erased.                                            *)
LEMMA EraseDone == ASSUME Good, FlashDone, GcWorks, GcErasing, ErasesPage(pages[gc.cur].addr) PROVE Good'
<1>1. /\ \A i \in Index : Filled(OnPage(i), pages[i].offset)
      /\ gc.cur \in Index /\ UNCHANGED <<pages, swap, gc>> /\ Flying /\ ~ Flying' /\ GcWorks'
  BY GcFilled
<1>2. PICK c \in Index : c = gc.cur
  BY <1>1
<1>3. PICK a \in Phys : a = pages[c].addr
  BY <1>2, DonePages
<1>4. ErasesPage(a)
  BY <1>2, <1>3
<1>5. /\ FlashOK(flash', writes) /\ SameRecords(flash')
      /\ flash'[a] = Blank /\ \A p \in Phys : p # a => flash'[p] = flash[p]
  BY <1>4, ErasedDone
<1>6. OnPage(c)' = Blank /\ OnSwap' = OnSwap /\ \A i \in Index \ {c} : OnPage(i)' = OnPage(i)
  BY <1>3, <1>5, DonePages
<1>7. GcErasing'
  <2>1. gc' = gc /\ swap' = swap /\ pages' = pages /\ OnPage(gc.cur)' = OnPage(c)'
    BY <1>1, <1>2 DEF OnPage
  <2> QED
    BY <1>1, <1>2, <1>6, <2>1 DEF GcErasing
<1>8. \A i \in Index : GcErased(i)' \/ Filled(OnPage(i)', pages[i].offset)
  <2>1. gc.state = "erase"
    BY DEF GcErasing
  <2>2. \A i \in Index : i # c => Filled(OnPage(i)', pages[i].offset)
    BY <1>1, <1>6
  <2>3. GcErased(c)'
    BY <1>1, <1>2, <2>1 DEF GcErased
  <2> QED
    BY <2>2, <2>3
<1> QED
  BY <1>5, <1>7, <1>8, GcDone DEF GcRuns

(* The swap page has become a data page.                                    *)
LEMMA PromoteDone == ASSUME Good, FlashDone, GcWorks, GcPromoting, TagsPage(pages[gc.cur].addr, "data") PROVE Good'
<1>1. /\ \A i \in Index : Filled(OnPage(i), pages[i].offset)
      /\ gc.cur \in Index /\ UNCHANGED <<pages, swap, gc>> /\ Flying /\ ~ Flying' /\ GcWorks'
  BY GcFilled
<1>2. PICK c \in Index : c = gc.cur
  BY <1>1
<1>3. PICK a \in Phys : a = pages[c].addr
  BY <1>2, DonePages
<1>4. TagsPage(a, "data")
  BY <1>2, <1>3
<1>5. /\ FlashOK(flash', writes) /\ SameRecords(flash')
      /\ flash'[a].tag = "data" /\ \A p \in Phys : p # a => flash'[p] = flash[p]
      /\ \A p \in Phys, n \in Int : Filled(flash'[p], n) <=> Filled(flash[p], n)
  BY <1>4, TaggedDone
<1>6. OnPage(c)'.tag = "data" /\ OnSwap' = OnSwap /\ \A i \in Index \ {c} : OnPage(i)' = OnPage(i)
  BY <1>3, <1>5, DonePages
<1>7. GcPromoting'
  <2>1. AllData'
    BY <1>2, <1>6 DEF AllData, GcPromoting
  <2> QED
    BY <1>1, <1>2, <1>6, <2>1 DEF GcPromoting, AllData
<1>8. \A i \in Index : Filled(OnPage(i)', pages[i].offset)
  BY <1>1, <1>5, DonePages
<1> QED
  BY <1>5, <1>7, <1>8, GcDone DEF GcRuns

(* The old copy of the swap page is erased.                                 *)
LEMMA DiscardDone == ASSUME Good, FlashDone, GcWorks, GcDiscarding, ErasesPage(swap.addr) PROVE Good'
<1>1. /\ \A i \in Index : Filled(OnPage(i), pages[i].offset)
      /\ gc.cur \in Index /\ UNCHANGED <<pages, swap, gc>> /\ Flying /\ ~ Flying' /\ GcWorks'
  BY GcFilled
<1>2. PICK a \in Phys : a = swap.addr
  BY DonePages
<1>3. /\ FlashOK(flash', writes) /\ SameRecords(flash')
      /\ flash'[a] = Blank /\ \A p \in Phys : p # a => flash'[p] = flash[p]
  BY <1>2, ErasedDone
<1>4. OnSwap' = Blank /\ \A i \in Index : OnPage(i)' = OnPage(i)
  BY <1>2, <1>3, DonePages
<1>5. GcDiscarding'
  <2>1. AllData'
    BY <1>4 DEF AllData, GcDiscarding
  <2> QED
    BY <1>1, <1>4, <2>1 DEF GcDiscarding
<1>6. \A i \in Index : Filled(OnPage(i)', pages[i].offset)
  BY <1>1, <1>4
<1> QED
  BY <1>3, <1>5, <1>6, GcDone DEF GcRuns

(* The new swap page is tagged.                                             *)
LEMMA TagDone == ASSUME Good, FlashDone, GcWorks, GcTagging, TagsPage(swap.addr, "swap") PROVE Good'
<1>1. /\ \A i \in Index : Filled(OnPage(i), pages[i].offset)
      /\ gc.cur \in Index /\ UNCHANGED <<pages, swap, gc>> /\ Flying /\ ~ Flying' /\ GcWorks'
  BY GcFilled
<1>2. PICK a \in Phys : a = swap.addr
  BY DonePages
<1>3. /\ FlashOK(flash', writes) /\ SameRecords(flash')
      /\ flash'[a].tag = "swap" /\ \A p \in Phys : p # a => flash'[p] = flash[p]
      /\ \A p \in Phys, n \in Int : Filled(flash'[p], n) <=> Filled(flash[p], n)
  BY <1>2, TaggedDone
<1>4. OnSwap'.tag = "swap" /\ (Filled(OnSwap', 1) <=> Filled(OnSwap, 1)) /\ \A i \in Index : OnPage(i)' = OnPage(i)
  BY <1>2, <1>3, DonePages
<1>5. GcTagging'
  <2>1. AllData'
    BY <1>4 DEF AllData, GcTagging
  <2>2. CleanSwap'
    BY <1>1, <1>4, EmptyFacts DEF CleanSwap, GcTagging
  <2> QED
    BY <1>1, <2>1, <2>2 DEF GcTagging
<1>6. \A i \in Index : Filled(OnPage(i)', pages[i].offset)
  BY <1>1, <1>4
<1> QED
  BY <1>3, <1>5, <1>6, GcDone DEF GcRuns

\* CopiedUpTo, of any page p in place of the swap page
CopiedOn(p, c, s, n) ==
    /\ Filled(p, n) /\ n <= s + 1
    /\ \A j \in Places : j <= s /\ Valid(OnPage(c).slot[j]) =>
          \E m \in Places : m < n /\ p.slot[m] = OnPage(c).slot[j]
    /\ \A m \in Places : m < n =>
          \E j \in Places : j <= s /\ Valid(OnPage(c).slot[j]) /\ p.slot[m] = OnPage(c).slot[j]
    /\ \A m, l \in Places : m < n /\ l < n /\ p.slot[m].id = p.slot[l].id => m = l

(* A slot below the offset stays below it.                                  *)
LEMMA Below == ASSUME NEW m \in Nat, NEW o \in Nat, m < o PROVE m # o /\ m < o + 1
OBVIOUS

\* one more record is on the swap page
LEMMA CopyGrows ==
    ASSUME FlashOK(flash, writes), Roles, AllData, NEW c \in Index, NEW s \in Places, NEW o \in Places,
           OnSwap \in Page, Valid(OnPage(c).slot[s]), CopiedUpTo(c, s - 1, o),
           NEW p, p = Put(OnSwap, o, OnPage(c).slot[s]),
           NEW n, n = o + 1
    PROVE  p.tag = OnSwap.tag /\ CopiedOn(p, c, s, n)
<1> DEFINE d == OnPage(c).slot[s]
<1>1. /\ Filled(OnSwap, o) /\ o <= (s - 1) + 1
      /\ \A j \in Places : j <= s - 1 /\ Valid(OnPage(c).slot[j]) =>
            \E m \in Places : m < o /\ OnSwap.slot[m] = OnPage(c).slot[j]
      /\ \A m \in Places : m < o =>
            \E j \in Places : j <= s - 1 /\ Valid(OnPage(c).slot[j]) /\ OnSwap.slot[m] = OnPage(c).slot[j]
      /\ \A m, l \in Places : m < o /\ l < o /\ OnSwap.slot[m].id = OnSwap.slot[l].id => m = l
  BY DEF CopiedUpTo
<1>2. d \in Cell /\ d.key # "none" /\ OnPage(c) \in Page /\ pages[c].addr \in Phys /\ flash[pages[c].addr] = OnPage(c)
  <2>1. pages[c].addr \in Phys
    BY RolesFacts
  <2>2. OnPage(c) \in Page /\ \A i \in Places : OnPage(c).slot[i] \in Cell
    BY <2>1, Formation DEF OnPage
  <2> QED
    BY <2>1, <2>2 DEF OnPage, Valid
<1>3. d.key # "none" /\ Valid(d)
  BY DEF Valid
<1>4. o \in Nat /\ s \in Nat /\ o \in 1 .. Slots + 1 /\ \A j \in Places : j \in Nat
  BY FilledRange
<1> HIDE DEF d
<1>5. p.tag = OnSwap.tag /\ p.slot[o] = d /\ \A m \in Places : m # o => p.slot[m] = OnSwap.slot[m]
  <2>1. p = Put(OnSwap, o, d)
    BY DEF d
  <2> QED
    BY <1>2, <2>1, PutFacts
<1>6. Filled(p, n)
  <2>1. p = Put(OnSwap, o, d)
    BY DEF d
  <2>2. Filled(Put(OnSwap, o, d), o + 1)
    BY <1>1, <1>2, <1>4, PutFilled
  <2> QED
    BY <2>1, <2>2
<1>7. n <= s + 1
  BY <1>1, <1>4
<1>8. ASSUME NEW j \in Places, j <= s, Valid(OnPage(c).slot[j])
      PROVE  \E m \in Places : m < n /\ p.slot[m] = OnPage(c).slot[j]
  <2>1. CASE j = s
    <3>1. o < n /\ p.slot[o] = OnPage(c).slot[j]
      BY <1>4, <1>5, <2>1 DEF d
    <3> QED
      BY <3>1
  <2>2. CASE j # s
    <3>1. j <= s - 1
      BY <1>4, <1>8, <2>2
    <3>2. PICK m \in Places : m < o /\ OnSwap.slot[m] = OnPage(c).slot[j]
      BY <1>1, <1>8, <3>1
    <3>3. m # o /\ m < n
      <4>1. m \in Nat /\ o \in Nat
        BY <1>4
      <4>2. m < o
        BY <3>2
      <4> QED
        BY <4>1, <4>2, Below
    <3> QED
      BY <1>5, <3>2, <3>3
  <2> QED
    BY <2>1, <2>2
<1>9. \A m \in Places : m < n => m = o \/ m < o
  BY <1>4
<1>10. ASSUME NEW m \in Places, m < o
       PROVE  m # o /\ \E j \in Places : j <= s /\ j # s /\ Valid(OnPage(c).slot[j]) /\ p.slot[m] = OnPage(c).slot[j]
  <2>1. PICK j \in Places : j <= s - 1 /\ Valid(OnPage(c).slot[j]) /\ OnSwap.slot[m] = OnPage(c).slot[j]
    BY <1>1, <1>10
  <2>2. m # o /\ j <= s /\ j # s
    BY <1>4, <1>10, <2>1
  <2> QED
    BY <1>5, <2>1, <2>2
<1>11. ASSUME NEW m \in Places, m < n
       PROVE  \E j \in Places : j <= s /\ Valid(OnPage(c).slot[j]) /\ p.slot[m] = OnPage(c).slot[j]
  <2>1. CASE m = o
    <3>1. p.slot[m] = OnPage(c).slot[s] /\ s <= s
      BY <1>4, <1>5, <2>1 DEF d
    <3> QED
      BY <3>1
  <2>2. CASE m < o
    BY <1>10, <2>2
  <2> QED
    BY <1>9, <1>11, <2>1, <2>2
<1>12. ASSUME NEW m \in Places, m < o PROVE p.slot[m].id # p.slot[o].id
  <2>1. PICK j \in Places : j # s /\ Valid(OnPage(c).slot[j]) /\ p.slot[m] = OnPage(c).slot[j]
    BY <1>10, <1>12
  <2>2. Holds(flash, pages[c].addr, j) /\ Holds(flash, pages[c].addr, s)
    BY <1>2, <2>1 DEF Holds, Alive, AllData
  <2>3. OnPage(c).slot[j].id # OnPage(c).slot[s].id
    BY <1>2, <2>1, <2>2 DEF Distinct, FlashOK
  <2> QED
    BY <1>5, <2>1, <2>3 DEF d
<1>13. ASSUME NEW m \in Places, NEW l \in Places, m < n, l < n, p.slot[m].id = p.slot[l].id PROVE m = l
  <2>1. CASE m = o
    <3>1. l = o \/ l < o
      BY <1>9, <1>13
    <3> QED
      BY <1>12, <1>13, <2>1, <3>1
  <2>2. CASE l = o
    <3>1. m = o \/ m < o
      BY <1>9, <1>13
    <3> QED
      BY <1>12, <1>13, <2>2, <3>1
  <2>3. CASE m < o /\ l < o
    <3>1. p.slot[m] = OnSwap.slot[m] /\ p.slot[l] = OnSwap.slot[l]
      BY <1>5, <1>10, <2>3
    <3> QED
      BY <1>1, <1>13, <2>3, <3>1
  <2> QED
    BY <1>9, <1>13, <2>1, <2>2, <2>3
<1> QED
  BY <1>5, <1>6, <1>7, <1>8, <1>11, <1>13 DEF CopiedOn

(* A record is copied: it is one more of those on the swap page.            *)
LEMMA CopyDone == ASSUME Good, FlashDone, GcWorks, GcCopying PROVE Good'
<1>1. /\ \A i \in Index : Filled(OnPage(i), pages[i].offset)
      /\ gc.cur \in Index /\ UNCHANGED <<pages, swap, gc>> /\ Flying /\ ~ Flying' /\ GcWorks' /\ FlashOK(flash, writes)
      /\ flash' = [flash EXCEPT ![flashing.addr] = flashing.stages[Len(flashing.stages)]]
  BY GcFilled, DoneFacts
<1>2. Roles /\ writes' = writes
  BY <1>1, FlightFacts, DoneFacts
<1>3. PICK c \in Index : c = gc.cur
  BY <1>1
<1>4. PICK s \in Places : s = gc.src
  BY DEF GcCopying
<1> DEFINE e(n) == CopyPart(OnPage(gc.cur).slot[gc.src], n)
<1>5. /\ Len(flashing.stages) = 4 /\ flashing.addr = swap.addr /\ swap.offset \in Places
      /\ CopyStage(4)
      /\ e(4) = OnPage(gc.cur).slot[gc.src]
  BY <1>1, CopyEffect
<1>6. PICK o \in Places : o = swap.offset
  BY <1>5
<1> DEFINE d == OnPage(c).slot[s]
<1>7. flash' = Write(flash, swap.addr, o, d) /\ FlashOK(flash', writes) /\ SameRecords(flash')
  <2> DEFINE h == Write(flash, swap.addr, swap.offset, e(4))
  <2>1. [flash EXCEPT ![swap.addr] = flashing.stages[4]] = h /\ FlashOK(h, writes) /\ SameRecords(h)
    BY <1>5 DEF CopyStage
  <2>2. flash' = h
    BY <1>1, <1>5, <2>1
  <2>3. h = Write(flash, swap.addr, o, d)
    BY <1>3, <1>4, <1>5, <1>6
  <2> HIDE DEF h, d
  <2> QED
    BY <2>1, <2>2, <2>3
<1> HIDE DEF e
<1>8. OnSwap \in Page /\ OnSwap = flash[swap.addr] /\ swap.addr \in Phys
  BY <1>1, DonePages, Formation
<1>9. OnSwap' = Put(OnSwap, o, d) /\ \A i \in Index : OnPage(i)' = OnPage(i)
  <2>1. flash \in [Phys -> Page]
    BY <1>1 DEF FlashOK
  <2> HIDE DEF d
  <2>2. flash'[swap.addr] = Put(OnSwap, o, d) /\ \A p \in Phys : p # swap.addr => flash'[p] = flash[p]
    BY <1>7, <1>8, <2>1 DEF Write
  <2> QED
    BY <2>2, DonePages
<1>10. /\ AllData /\ OnSwap.tag = "swap" /\ Valid(OnPage(c).slot[s]) /\ CopiedUpTo(c, s - 1, o)
  BY <1>1, <1>3, <1>4, <1>6 DEF GcCopying
<1>11. PICK n : n = o + 1
  OBVIOUS
<1>12. OnSwap'.tag = OnSwap.tag /\ CopiedOn(OnSwap', c, s, n)
  <2>1. PICK p : p = Put(OnSwap, o, OnPage(c).slot[s])
    OBVIOUS
  <2>2. OnSwap' = p
    BY <1>9, <2>1
  <2> HIDE DEF d
  <2>3. p.tag = OnSwap.tag /\ CopiedOn(p, c, s, n)
    BY <1>1, <1>2, <1>8, <1>10, <1>11, <2>1, CopyGrows
  <2> QED
    BY <2>2, <2>3
<1>13. CopiedUpTo(c, s, n)'
  BY <1>9, <1>12 DEF CopiedUpTo, CopiedOn
<1>14. GcCopying'
  <2>1. AllData'
    BY <1>9, <1>10 DEF AllData
  <2>2. CopiedUpTo(gc.cur, gc.src, swap.offset + 1)'
    BY <1>1, <1>3, <1>4, <1>6, <1>11, <1>13
  <2>3. swap'.offset <= Slots
    BY <1>1, <1>6, FilledRange
  <2>4. OnPage(gc.cur)' = OnPage(c)'
    BY <1>1, <1>3 DEF OnPage
  <2>5. gc'.src \in Places /\ gc'.state = "copy" /\ Valid(OnPage(gc.cur)'.slot[gc'.src])
    BY <1>1, <1>4, <1>9, <1>10, <2>4 DEF GcCopying
  <2> QED
    BY <1>1, <1>10, <1>12, <2>1, <2>2, <2>3, <2>5 DEF GcCopying
<1>15. \A i \in Index : Filled(OnPage(i)', pages[i].offset)
  BY <1>1, <1>9
<1> HIDE DEF d
<1> QED
  BY <1>7, <1>14, <1>15, GcDone DEF GcRuns

(* What the end of a flash operation of the installation has to show.       *)
LEMMA InstallDone ==
    ASSUME Good, FlashDone, InstallOK, phase = "installing", FlashOK(flash', writes), SameRecords(flash'),
           \A i \in Index : Filled(OnPage(i)', pages[i].offset) /\ Tagged(i)',
           \/ Op.step = "tag swap" /\ InstallFresh'
           \/ Op.step = "tag data" /\ CleanSwap'
    PROVE  Good'
<1>1. /\ Flying /\ ~ Flying' /\ Working' /\ (GcWorks' <=> GcWorks) /\ (Writing' <=> Writing)
      /\ UNCHANGED <<pages, swap, gc, phase, queue, opened>> /\ Op' = Op
  BY DoneFacts
<1>2. GcOK /\ ~ Writing /\ ~ GcWorks /\ Op.code = "init"
  BY <1>1, FlightFacts DEF GcWorks, Writing, IsWriteOp
<1>3. WritingOK'
  BY <1>1, <1>2 DEF WritingOK
<1>4. GcOK'
  BY <1>1, <1>2 DEF GcOK
<1>5. InstallOK'
  <2>1. InstallWaits'
    BY <1>1 DEF InstallWaits
  <2>2. Len(queue) = 1 /\ opened = NoDesc /\ \A i \in Index : pages[i].reserved = 0
    BY DEF InstallOK
  <2> QED
    BY <1>1, <1>2, <2>1, <2>2 DEF InstallOK
<1>6. Effect(flash')
  BY DEF Effect
<1> QED
  BY <1>3, <1>4, <1>5, <1>6, DoneKeeps

(* The tags the installation has come to.                                   *)
LEMMA TaggedFacts ==
    ASSUME Good, FlashDone
    PROVE  \A i \in Index : /\ Tagged(i) <=> \/ pages[i].type = "data" /\ OnPage(i).tag = "data"
                                             \/ pages[i].type = "erased" /\ Untagged(OnPage(i))
                            /\ Tagged(i)' <=> \/ pages[i].type = "data" /\ OnPage(i)'.tag = "data"
                                              \/ pages[i].type = "erased" /\ Untagged(OnPage(i)')
<1>1. pages' = pages
  BY DoneFacts
<1> QED
  BY <1>1 DEF Tagged, Ready4, OnPage

(* The installation has erased or tagged the swap page.                     *)
LEMMA InstallSwapDone ==
    ASSUME Good, FlashDone, InstallOK, phase = "installing",
           \/ InstallErases /\ ErasesPage(swap.addr)
           \/ InstallTagsSwap /\ TagsPage(swap.addr, "swap")
    PROVE  Good'
<1>1. /\ swap' = swap /\ \A i \in Index : Filled(OnPage(i), pages[i].offset)
  BY DoneFacts DEF InstallOK
<1>2. PICK a \in Phys : a = swap.addr
  BY DonePages
<1>3. \A i \in Index : Tagged(i)
  BY DEF InstallErases, InstallTagsSwap
<1>4. CASE InstallErases /\ ErasesPage(swap.addr)
  <2>1. /\ FlashOK(flash', writes) /\ SameRecords(flash')
        /\ flash'[a] = Blank /\ \A p \in Phys : p # a => flash'[p] = flash[p]
    BY <1>2, <1>4, ErasedDone
  <2>2. OnSwap' = Blank /\ \A i \in Index : OnPage(i)' = OnPage(i)
    BY <1>2, <2>1, DonePages
  <2>3. \A i \in Index : Filled(OnPage(i)', pages[i].offset) /\ Tagged(i)'
    BY <1>1, <1>3, <2>2, TaggedFacts
  <2>4. InstallFresh'
    BY <1>1, <1>4, <2>2, EmptyFacts DEF InstallFresh, InstallErases
  <2>5. Op.step = "tag swap"
    BY <1>4 DEF InstallErases
  <2> QED
    BY <2>1, <2>3, <2>4, <2>5, InstallDone
<1>5. CASE InstallTagsSwap /\ TagsPage(swap.addr, "swap")
  <2>1. /\ FlashOK(flash', writes) /\ SameRecords(flash')
        /\ flash'[a].tag = "swap" /\ \A p \in Phys : p # a => flash'[p] = flash[p]
        /\ \A p \in Phys, n \in Int : Filled(flash'[p], n) <=> Filled(flash[p], n)
    BY <1>2, <1>5, TaggedDone
  <2>2. OnSwap'.tag = "swap" /\ (Filled(OnSwap', 1) <=> Filled(OnSwap, 1)) /\ \A i \in Index : OnPage(i)' = OnPage(i)
    BY <1>2, <2>1, DonePages
  <2>3. \A i \in Index : Filled(OnPage(i)', pages[i].offset) /\ Tagged(i)'
    BY <1>1, <1>3, <2>2, TaggedFacts
  <2>4. CleanSwap' /\ Op.step = "tag data"
    BY <1>1, <1>5, <2>2 DEF InstallFresh, InstallTagsSwap, CleanSwap
  <2> QED
    BY <2>1, <2>3, <2>4, InstallDone
<1> QED
  BY <1>4, <1>5

(* The installation has tagged a data page.                                 *)
LEMMA InstallPageDone ==
    ASSUME Good, FlashDone, InstallOK, phase = "installing", InstallPromotes \/ InstallTagsData,
           NEW k \in Index, TagsPage(pages[k].addr, "data")
    PROVE  Good'
<1>1. /\ swap' = swap /\ \A i \in Index : Filled(OnPage(i), pages[i].offset)
  BY DoneFacts DEF InstallOK
<1>2. PICK a \in Phys : a = pages[k].addr
  BY DonePages
<1>3. /\ FlashOK(flash', writes) /\ SameRecords(flash')
      /\ flash'[a].tag = "data" /\ \A p \in Phys : p # a => flash'[p] = flash[p]
      /\ \A p \in Phys, n \in Int : Filled(flash'[p], n) <=> Filled(flash[p], n)
  BY <1>2, TaggedDone
<1>4. /\ OnPage(k)'.tag = "data" /\ OnSwap' = OnSwap /\ \A i \in Index \ {k} : OnPage(i)' = OnPage(i)
      /\ \A i \in Index : Filled(OnPage(i)', pages[i].offset)
  BY <1>1, <1>2, <1>3, DonePages
<1>5. pages[k].type = "data" /\ \A i \in Index \ {k} : Tagged(i)
  <2>1. flashing.addr = pages[k].addr
    BY DEF TagsPage
  <2>2. PICK i \in Index : /\ flashing.addr = pages[i].addr /\ pages[i].type = "data"
                           /\ \A j \in Index \ {i} : Tagged(j)
    <3>1. \E i \in Index : /\ flashing = [addr |-> pages[i].addr, stages |-> TagStages(OnPage(i), "data")]
                           /\ pages[i].type = "data" /\ \A j \in Index \ {i} : Tagged(j)
      BY Zenon DEF InstallPromotes, InstallTagsData
    <3>2. PICK i \in Index : /\ flashing = [addr |-> pages[i].addr, stages |-> TagStages(OnPage(i), "data")]
                            /\ pages[i].type = "data" /\ \A j \in Index \ {i} : Tagged(j)
      BY <3>1
    <3>3. flashing.addr = pages[i].addr
      BY <3>2
    <3> QED
      BY <3>2, <3>3
  <2>3. i = k
    BY <2>1, <2>2, DonePages
  <2> QED
    BY <2>2, <2>3
<1>6. \A i \in Index : Tagged(i)'
  <2>1. Tagged(k)'
    BY <1>4, <1>5, TaggedFacts
  <2>2. \A i \in Index : i # k => Tagged(i)'
    BY <1>4, <1>5, TaggedFacts
  <2> QED
    BY <2>1, <2>2
<1>7. \/ Op.step = "tag swap" /\ InstallFresh'
      \/ Op.step = "tag data" /\ CleanSwap'
  BY <1>1, <1>4 DEF InstallPromotes, InstallTagsData, InstallFresh, CleanSwap
<1> QED
  BY <1>3, <1>4, <1>6, <1>7, InstallDone

(* The end of a flash operation, whichever it is.                           *)
LEMMA DoFlashDone == ASSUME Good, FlashDone PROVE Good'
<1>1. Flying
  BY DoneFacts
<1>2. CASE Writing
  BY <1>2, WordsDone, FlagsDone
<1>3. CASE Deleting /\ ~ Writing
  BY <1>3, FlagsDone
<1>4. CASE GcWorks
  <2>1. \/ GcCopying
        \/ GcErasing /\ ErasesPage(pages[gc.cur].addr)
        \/ GcPromoting /\ TagsPage(pages[gc.cur].addr, "data")
        \/ GcDiscarding /\ ErasesPage(swap.addr)
        \/ GcTagging /\ TagsPage(swap.addr, "swap")
    <3>1. ~ Writing /\ ~ Deleting /\ ~ InstallOK
      BY <1>4 DEF GcWorks, Writing, IsWriteOp, Deleting, InstallOK
    <3> QED
      BY <1>1, <3>1, FlightCases
  <2> QED
    BY <1>4, <2>1, CopyDone, EraseDone, PromoteDone, DiscardDone, TagDone
<1>5. CASE InstallOK
  <2>1. phase = "installing" /\ ~ Writing /\ ~ Deleting /\ ~ GcWorks
    <3>1. Op.code = "init"
      BY <1>5 DEF InstallOK
    <3> QED
      BY <1>1, <3>1, FlightFacts DEF GcWorks, Writing, IsWriteOp, Deleting
  <2>2. \/ InstallErases /\ ErasesPage(swap.addr)
        \/ InstallPromotes /\ \E i \in Index : TagsPage(pages[i].addr, "data")
        \/ InstallTagsSwap /\ TagsPage(swap.addr, "swap")
        \/ InstallTagsData /\ \E i \in Index : TagsPage(pages[i].addr, "data")
    BY <1>1, <2>1, FlightCases
  <2> QED
    BY <1>5, <2>1, <2>2, InstallSwapDone, InstallPageDone
<1>6. Writing \/ (Deleting /\ ~ Writing) \/ GcWorks \/ InstallOK
  BY <1>1, FlightCases
<1> QED
  BY <1>2, <1>3, <1>4, <1>5, <1>6

-----------------------------------------------------------------------------
(* Every step.                                                              *)

(* Every step of the system.                                                *)
LEMMA ExecuteSteps ==
    ASSUME Good, InitExecute \/ WriteExecute \/ DeleteExecute
    PROVE  Good' /\ flash' = flash
<1>1. CASE InitExecute
  <2>1. flash' = flash
    BY <1>1 DEF InitExecute, InitTimeout, InitTagSwap, InitTagData, InitEraseSwap, InitPromoteSwap
  <2>2. ~ InitTimeout
    <3>1. InitTimeout => hand = "run" /\ ~ Proceeds
      BY DEF InitTimeout, Ready
    <3> QED
      BY <3>1, RunFacts
  <2>3. InitTagSwap \/ InitTagData \/ InitEraseSwap \/ InitPromoteSwap
    BY <1>1, <2>2 DEF InitExecute
  <2> QED
    BY <2>1, <2>3, DoInitTagSwap, DoInitTagData, DoInitEraseSwap, DoInitPromoteSwap
<1>2. CASE WriteExecute
  <2>1. flash' = flash
    BY <1>2 DEF WriteExecute, WriteTimeout, UpdateFindsNothing, WriteHeaderBegin, WriteRecordId,
                WriteData, WriteHeaderFinalize, WriteFlagDirty, WriteDone
  <2>2. ~ WriteTimeout
    <3>1. WriteTimeout => hand = "run" /\ ~ Proceeds
      BY DEF WriteTimeout, IsWrite
    <3> QED
      BY <3>1, RunFacts
  <2>3. UpdateFindsNothing \/ WriteHeaderBegin \/ WriteRecordId \/ WriteData \/ WriteHeaderFinalize
        \/ WriteFlagDirty \/ WriteDone
    BY <1>2, <2>2 DEF WriteExecute
  <2> QED
    BY <2>1, <2>3, DoUpdateFindsNothing, DoWriteHeaderBegin, DoWriteRecordId, DoWriteData,
       DoWriteHeaderFinalize, DoWriteFlagDirty, DoWriteDone
<1>3. CASE DeleteExecute
  <2>1. flash' = flash
    BY <1>3 DEF DeleteExecute, DeleteTimeout, DeleteRecord, DeleteDone, DeleteFile
  <2>2. ~ DeleteTimeout
    <3>1. DeleteTimeout => hand = "run" /\ ~ Proceeds
      BY DEF DeleteTimeout, IsDelete
    <3> QED
      BY <3>1, RunFacts
  <2>3. DeleteRecord \/ DeleteDone \/ DeleteFile
    BY <1>3, <2>2 DEF DeleteExecute
  <2> QED
    BY <2>1, <2>3, DoDeleteRecord, DoDeleteDone, DoDeleteFile
<1> QED
  BY <1>1, <1>2, <1>3

(* The steps of collections, and the end of an operation.                   *)
LEMMA CollectSteps ==
    ASSUME Good, GcExecute \/ QueueNext
    PROVE  Good' /\ flash' = flash
<1>1. CASE QueueNext
  BY <1>1, DoQueueNext DEF QueueNext
<1>2. CASE GcExecute
  <2>1. flash' = flash
    BY <1>2 DEF GcExecute, GcTimeout, GcBegin, GcNextPage, GcFindNext, GcCopyAgain, GcEraseAgain,
                GcPromote, GcTagSwap, GcDiscardAgain
  <2>2. ~ GcTimeout
    <3>1. GcTimeout => hand = "run" /\ ~ Proceeds
      BY DEF GcTimeout, Ready
    <3> QED
      BY <3>1, RunFacts
  <2>3. ~ GcCopyAgain /\ ~ GcEraseAgain /\ ~ GcDiscardAgain
    <3>1. GcCopyAgain \/ GcEraseAgain \/ GcDiscardAgain => hand = "run" /\ gc.resume
      BY DEF GcCopyAgain, GcEraseAgain, GcDiscardAgain, GcAgain, Ready
    <3>2. hand = "run" => ~ gc.resume
      BY RunFacts DEF GcOK, GcInfo
    <3> QED
      BY <3>1, <3>2
  <2>4. GcBegin \/ GcNextPage \/ GcFindNext \/ GcPromote \/ GcTagSwap
    BY <1>2, <2>2, <2>3 DEF GcExecute
  <2> QED
    BY <2>1, <2>4, DoGcBegin, DoGcNextPage, DoGcFindNext, DoGcPromote, DoGcTagSwap
<1> QED
  BY <1>1, <1>2

(* The ids a client can name are numbers.                                   *)
LEMMA IdsNumbers ==
    ASSUME Good, NEW id \in Ids
    PROVE  id \in Nat
<1>1. PICK loc \in Found : id = RecordAt(loc).id
  BY DEF Ids
<1>2. phase = "initialized"
  BY <1>1 DEF Found
<1>3. FlashOK(flash, writes) /\ Roles
  BY <1>2 DEF Good, OnOK
<1>4. RecordAt(loc) \in Cell
  BY <1>3, FoundFacts
<1> QED
  BY <1>1, <1>4 DEF Cell

\* The calls of a client and the steps of the storage, without the bound on the
\* number of writes.
Calls ==
    \/ \E f \in Files, k \in Keys : RecordWrite(f, k)
    \/ \E f \in Files, k \in Keys, id \in Ids : RecordUpdate(f, k, id)
    \/ \E f \in Files : FileDelete(f)
    \/ \E id \in Ids : RecordDelete(id)
    \/ ~ Collecting /\ GcRequest
    \/ \E loc \in Found : RecordOpen(loc)
    \/ RecordClose
Step == Boot \/ QueueProcess \/ FlashDone \/ FlashTimeout \/ PowerCut \/ Calls

(* The steps of Fds are among them.                                         *)
LEMMA NextIsStep == [Next]_vars => [Step]_vars
BY DEF Next, Step, Client, Calls

(* The calls of a client.                                                   *)
LEMMA ClientSteps ==
    ASSUME Good, Calls
    PROVE  Good' /\ flash' = flash
<1>1. flash' = flash
  BY DEF Calls, RecordWrite, RecordUpdate, WriteEnqueue, FileDelete, RecordDelete, GcRequest, RecordOpen, RecordClose
<1>2. \A id \in Ids : id \in Nat
  BY IdsNumbers
<1>3. CASE \E f \in Files, k \in Keys : RecordWrite(f, k)
  BY <1>1, <1>3, DoRecordWrite
<1>4. CASE \E f \in Files, k \in Keys, id \in Ids : RecordUpdate(f, k, id)
  <2>1. PICK f \in Files, k \in Keys, id \in Ids : RecordUpdate(f, k, id)
    BY <1>4
  <2>2. id \in Nat
    BY <1>2
  <2> QED
    BY <1>1, <2>1, <2>2, DoRecordUpdate
<1>5. CASE \E f \in Files : FileDelete(f)
  BY <1>1, <1>5, DoFileDelete
<1>6. CASE \E id \in Ids : RecordDelete(id)
  BY <1>1, <1>2, <1>6, DoRecordDelete
<1>7. CASE ~ Collecting /\ GcRequest
  BY <1>1, <1>7, DoGcRequest
<1>8. CASE \E loc \in Found : RecordOpen(loc)
  BY <1>1, <1>8, DoRecordOpen
<1>9. CASE RecordClose
  BY <1>1, <1>9, DoRecordClose
<1> QED
  BY <1>3, <1>4, <1>5, <1>6, <1>7, <1>8, <1>9 DEF Calls

(* Only a flash operation that is given up is counted.                      *)
LEMMA TimeoutsKeep ==
    ASSUME [Step]_vars, ~ FlashTimeout
    PROVE  timeouts' = timeouts
<1>1. CASE QueueProcess
  BY <1>1 DEF QueueProcess, InitExecute, InitTimeout, InitTagSwap, InitTagData, InitEraseSwap, InitPromoteSwap,
              WriteExecute, WriteTimeout, UpdateFindsNothing, WriteHeaderBegin, WriteRecordId,
              WriteData, WriteHeaderFinalize, WriteFlagDirty, WriteDone,
              DeleteExecute, DeleteTimeout, DeleteRecord, DeleteDone, DeleteFile,
              GcExecute, GcTimeout, GcBegin, GcNextPage, GcFindNext, GcCopyAgain, GcEraseAgain,
              GcPromote, GcTagSwap, GcDiscardAgain, QueueNext, ram, bounds
<1>2. CASE Calls
  BY <1>2 DEF Calls, RecordWrite, RecordUpdate, WriteEnqueue, FileDelete, RecordDelete, GcRequest,
              RecordOpen, RecordClose, bounds
<1>3. CASE Boot \/ FlashDone \/ PowerCut
  BY <1>3 DEF Boot, FlashDone, PowerCut, ram, bounds
<1>4. CASE UNCHANGED vars
  BY <1>4 DEF vars, bounds
<1> QED
  BY <1>1, <1>2, <1>3, <1>4 DEF Step

\* flash changes when an operation in flight ends, or when the power goes
LEMMA GoodStep ==
    ASSUME Good, [Step]_vars, ~ FlashTimeout
    PROVE  Good' /\ (flash' = flash \/ FlashDone \/ PowerCut)
<1>1. CASE QueueProcess
  BY <1>1, ExecuteSteps, CollectSteps DEF QueueProcess
<1>2. CASE Calls
  BY <1>2, ClientSteps
<1>3. CASE Boot
  BY <1>3, DoBoot DEF Boot
<1>4. CASE FlashDone
  BY <1>4, DoFlashDone
<1>5. CASE PowerCut
  BY <1>5, DoPowerCut
<1>6. CASE UNCHANGED vars
  <2>1. UNCHANGED <<flash, flashing, pages, swap, gc, phase, queue, hand, result, latest, tok, old, opened, writes, cuts, timeouts>>
    BY <1>6 DEF vars, ram, bounds
  <2> USE <2>1
  <2>2. FlashOK(flash, writes)' <=> FlashOK(flash, writes)
    OBVIOUS
  <2>3. (\A i : OnPage(i)' = OnPage(i)) /\ (\A i : Tagged(i)' <=> Tagged(i)) /\ OnSwap' = OnSwap
    BY DEF OnPage, OnSwap, Tagged, Ready4
  <2>4. Op' = Op /\ (Flying' <=> Flying) /\ WriteAddr' = WriteAddr /\ WriteSlot' = WriteSlot
    BY DEF Op, Flying, WriteAddr, WriteSlot
  <2>5. (Working' <=> Working) /\ (Telling' <=> Telling) /\ (Resting' <=> Resting)
    BY <2>4 DEF Working, Telling, Resting
  <2>6. (Writing' <=> Writing) /\ (FlagsOld' <=> FlagsOld) /\ (Deleting' <=> Deleting) /\ (GcWorks' <=> GcWorks)
    BY <2>4, <2>5 DEF Writing, FlagsOld, Deleting, GcWorks
  <2>7. Level' = Level /\ (OldThere' <=> OldThere) /\ (AllData' <=> AllData) /\ (CleanSwap' <=> CleanSwap)
    BY <2>3, <2>4, <2>6 DEF Level, OldThere, AllData, CleanSwap
  <2>8. \A n : Content(Op, n)' = Content(Op, n)
    BY <2>4 DEF Content
  <2>9. (Roles => Roles') /\ (QueueOK => QueueOK') /\ (SpaceOK => SpaceOK')
    <3>1. \A i : WritesOn(i)' = WritesOn(i)
      BY <2>5 DEF WritesOn, IsWriteOp
    <3> QED
      BY <3>1 DEF Roles, QueueOK, OpOK, Waits, IsWriteOp, SpaceOK
  <2>10. NumbersOK => NumbersOK'
    <3>1. \A k : Uncommitted(k)' <=> Uncommitted(k)
      BY <2>5, <2>7 DEF Uncommitted
    <3> QED
      BY <3>1 DEF NumbersOK
  <2>11. (WritingOK => WritingOK') /\ (DeletingOK => DeletingOK') /\ (TokOK => TokOK')
    <3>1. WritingOK => WritingOK'
      BY <2>3, <2>4, <2>6, <2>7, <2>8 DEF WritingOK
    <3>2. DeletingOK => DeletingOK'
      BY <2>3, <2>4, <2>6 DEF DeletingOK
    <3>3. TokOK => TokOK'
      BY <2>4, <2>5 DEF TokOK
    <3> QED
      BY <3>1, <3>2, <3>3
  <2>12. GcOK => GcOK'
    <3>1. \A c, s, n : CopiedUpTo(c, s, n)' <=> CopiedUpTo(c, s, n)
      BY <2>3 DEF CopiedUpTo
    <3>2. GcCopying => GcCopying'
      BY <2>3, <2>4, <2>7, <3>1 DEF GcCopying
    <3>3. GcErasing => GcErasing'
      BY <2>3, <2>4, <2>7, <3>1 DEF GcErasing
    <3>4. (GcPromoting => GcPromoting') /\ (GcDiscarding => GcDiscarding') /\ (GcTagging => GcTagging')
      BY <2>3, <2>4, <2>7 DEF GcPromoting, GcDiscarding, GcTagging
    <3> QED
      BY <2>4, <2>6, <2>7, <3>2, <3>3, <3>4 DEF GcOK, GcRuns
  <2>13. InstallOK => InstallOK'
    <3>1. InstallFresh' <=> InstallFresh
      BY <2>3 DEF InstallFresh
    <3>2. (InstallErases => InstallErases') /\ (InstallPromotes => InstallPromotes')
      BY <2>3, <2>4, <2>7, <3>1 DEF InstallErases, InstallPromotes
    <3>3. (InstallTagsSwap => InstallTagsSwap') /\ (InstallTagsData => InstallTagsData')
      BY <2>3, <2>4, <2>7, <3>1 DEF InstallTagsSwap, InstallTagsData
    <3>4. InstallWaits => InstallWaits'
      BY <2>3, <2>4, <2>7, <3>1 DEF InstallWaits
    <3> QED
      BY <2>3, <2>4, <2>5, <3>2, <3>3, <3>4 DEF InstallOK
  <2>14. InitializedOK => InitializedOK'
    <3>1. \A i : (GcErased(i)' <=> GcErased(i)) /\ Upto(i)' = Upto(i)
      BY <2>4, <2>6, <2>7 DEF GcErased, Upto
    <3> QED
      BY <2>3, <2>4, <2>5, <3>1 DEF InitializedOK, OffsetsOK
  <2>15. OffOK => OffOK'
    BY <2>5 DEF OffOK
  <2>16. OnOK => OnOK'
    BY <2>9, <2>10, <2>11, <2>12 DEF OnOK
  <2>17. ModeOK => ModeOK'
    BY <2>13, <2>14, <2>15 DEF ModeOK
  <2> QED
    BY <2>2, <2>16, <2>17 DEF Good
<1> QED
  BY <1>1, <1>2, <1>3, <1>4, <1>5, <1>6 DEF Step

(* IInv is inductive.                                                       *)
LEMMA Inductive == IInv /\ [Step]_vars => IInv'
<1> SUFFICES ASSUME IInv, [Step]_vars PROVE IInv'
  OBVIOUS
<1>1. CASE FlashTimeout
  BY <1>1 DEF FlashTimeout, IInv
<1>2. CASE ~ FlashTimeout
  <2>1. timeouts' = timeouts
    BY <1>2, TimeoutsKeep
  <2>2. timeouts = 0 => Good
    BY DEF IInv
  <2>3. timeouts = 0 => Good'
    BY <1>2, <2>2, GoodStep
  <2> QED
    BY <2>1, <2>3 DEF IInv
<1> QED
  BY <1>1, <1>2

(* It holds at the start, with every page erased.                           *)
LEMMA Starts == Init => IInv
<1> SUFFICES ASSUME Init PROVE IInv
  OBVIOUS
<1>1. /\ pages = NoPages /\ swap = NoSwap /\ gc = GcIdle /\ phase = "off" /\ queue = <<>>
      /\ latest = 0 /\ tok = TokStart /\ opened = NoDesc
      /\ flashing = NoFlash /\ hand = "idle" /\ result = "success"
      /\ flash = [p \in Phys |-> Blank] /\ writes = 0 /\ timeouts = 0
  BY DEF Init
<1>2. flash \in [Phys -> Page] /\ \A p \in Phys : flash[p] = Blank
  BY <1>1, EmptyFacts
<1>3. \A p \in Phys, j \in Places : ~ Holds(flash, p, j)
  BY <1>2, BlankFacts DEF Holds
<1>4. Formed(flash)
  BY <1>2, EmptyFacts, BlankFacts DEF Formed
<1>5. OneSwap(flash) /\ SomeSpare(flash)
  <2>1. 0 \in Phys
    BY ConstantFacts DEF Phys
  <2> QED
    BY <1>2, <2>1, BlankFacts DEF OneSwap, SomeSpare
<1>6. FlashOK(flash, writes)
  BY <1>2, <1>3, <1>4, <1>5 DEF FlashOK, Numbered, Distinct
<1>7. ModeOK
  BY <1>1 DEF ModeOK, OffOK, Resting, Flying
<1> QED
  BY <1>1, <1>6, <1>7 DEF IInv, Good

(* The inductive invariant holds of every behaviour.                        *)
THEOREM FdsInvariant == Spec => []IInv
BY Starts, Inductive, NextIsStep, PTL DEF Spec

-----------------------------------------------------------------------------
(* What follows from the invariant.                                         *)

(* Without a flash operation that was given up no word is spoiled.          *)
LEMMA NoSpoils ==
    ASSUME timeouts = 0
    PROVE  \A S, x : S \union Spoils(x) = S
BY DEF Spoils

(* The kinds of the variables.                                              *)
LEMMA TypesFollow ==
    ASSUME Good, timeouts = 0
    PROVE  TypeOK
<1>1. FlashOK(flash, writes)
  BY DEF Good
<1>2. flash \in [Phys -> [tag : {"none", "magic", "swap", "data"} \union Spoils("spoiled"),
                          slot : [1 .. Slots ->
                            [key : Keys \union {"none", "dirty"} \union Spoils("spoiled"),
                             file : Files \union {NoFile} \union Spoils(-1),
                             id : Nat \union Spoils(-1), data : Nat \union Spoils(-1)]]]]
  <2>1. /\ {"none", "magic", "swap", "data"} \union Spoils("spoiled") = Tags
        /\ Keys \union {"none", "dirty"} \union Spoils("spoiled") = Keys \union {"none", "dirty"}
        /\ Files \union {NoFile} \union Spoils(-1) = Files \union {NoFile}
        /\ Nat \union Spoils(-1) = Nat
    BY NoSpoils DEF Tags
  <2>2. flash \in [Phys -> Page]
    BY <1>1 DEF FlashOK
  <2> QED
    BY <2>1, <2>2 DEF Page, Cell, Places
<1>3. CASE phase = "off"
  <2>1. pages = NoPages /\ swap = NoSwap /\ queue = <<>>
    BY <1>3 DEF Good, ModeOK, OffOK, Resting
  <2>2. 0 \in 0 .. Slots + 1 /\ 0 \in 0 .. Slots /\ 0 \in Nat /\ Len(<<>>) <= QueueSize
    BY ConstantFacts
  <2> DEFINE O == 0 .. Slots + 1
             R == 0 .. Slots
             A == Phys \union {NoPage}
             T == {"data", "erased", "undefined"}
  <2>3. 0 \in O /\ 0 \in R /\ NoPage \in A /\ "data" \in T
    BY <2>2
  <2> HIDE DEF O, R, A, T
  <2>4. NewPage \in [type : T, addr : A, offset : O, reserved : R, open : Nat, canGc : BOOLEAN]
    BY <2>2, <2>3 DEF NewPage
  <2>5. pages \in [Index -> [type : T, addr : A, offset : O, reserved : R, open : Nat, canGc : BOOLEAN]]
    BY <2>1, <2>4 DEF NoPages
  <2>6. swap \in [addr : A, offset : O]
    BY <2>1, <2>3 DEF NoSwap
  <2> QED
    BY <1>2, <2>1, <2>2, <2>5, <2>6 DEF TypeOK, O, R, A, T
<1>4. CASE phase # "off"
  <2>1. Roles /\ QueueOK
    BY <1>4 DEF Good, OnOK
  <2> DEFINE O == 0 .. Slots + 1
             N == 1 .. Slots + 1
             R == 0 .. Slots
             A == Phys \union {NoPage}
             T == {"data", "erased", "undefined"}
  <2>2. N \subseteq O /\ Phys \subseteq A /\ {"data", "erased"} \subseteq T
    BY ConstantFacts
  <2>3. PageInfo = [type : {"data", "erased"}, addr : Phys, offset : N, reserved : R, open : Nat, canGc : BOOLEAN]
    BY DEF PageInfo
  <2>4. SwapInfo = [addr : Phys, offset : N]
    BY DEF SwapInfo
  <2>5. pages \in [Index -> PageInfo] /\ swap \in SwapInfo
    BY <2>1 DEF Roles, PageList
  <2>6. Len(queue) <= QueueSize
    BY <2>1 DEF QueueOK
  <2> HIDE DEF O, N, R, A, T
  <2>7. \A q \in PageInfo : q \in [type : T, addr : A, offset : O, reserved : R, open : Nat, canGc : BOOLEAN]
    BY <2>2, <2>3
  <2>8. pages \in [Index -> [type : T, addr : A, offset : O, reserved : R, open : Nat, canGc : BOOLEAN]]
    BY <2>5, <2>7
  <2>9. swap \in [addr : A, offset : O]
    BY <2>2, <2>4, <2>5
  <2> QED
    BY <1>2, <2>6, <2>8, <2>9 DEF TypeOK, O, R, A, T
<1> QED
  BY <1>3, <1>4

\* What a client finds is alive: a reset would find it too.
LEMMA FoundHolds ==
    ASSUME Good, NEW loc \in Found
    PROVE  /\ phase = "initialized" /\ Roles /\ FlashOK(flash, writes)
           /\ loc[1] \in Index /\ loc[2] \in Places /\ loc = <<loc[1], loc[2]>>
           /\ pages[loc[1]].addr \in Phys
           /\ Holds(flash, pages[loc[1]].addr, loc[2])
           /\ RecordAt(loc) = flash[pages[loc[1]].addr].slot[loc[2]]
<1>1. phase = "initialized"
  BY DEF Found
<1>2. Roles /\ GcOK /\ FlashOK(flash, writes) /\ InitializedOK
  BY <1>1 DEF Good, ModeOK, OnOK
<1>3. /\ loc[1] \in Index /\ loc[2] \in Places /\ loc = <<loc[1], loc[2]>>
      /\ pages[loc[1]].addr \in Phys
      /\ RecordAt(loc) = OnPage(loc[1]).slot[loc[2]] /\ Valid(RecordAt(loc))
  BY <1>2, FoundFacts
<1>4. PICK i \in Index, j \in Places : i = loc[1] /\ j = loc[2]
  BY <1>3
<1>5. Valid(OnPage(i).slot[j]) /\ OnPage(i) = flash[pages[i].addr] /\ pages[i].addr \in Phys
  BY <1>3, <1>4 DEF OnPage
<1>6. AllData \/ (GcWorks /\ (GcErasing \/ GcPromoting))
  BY <1>1, <1>2 DEF GcOK, GcRuns, GcCopying, GcDiscarding, GcTagging
<1>7. Alive(flash, pages[i].addr)
  <2>1. CASE AllData
    BY <1>5, <2>1 DEF AllData, Alive
  <2>2. CASE GcErasing /\ ~ AllData
    <3>1. OnPage(gc.cur) = Blank
      BY <2>2 DEF GcErasing
    <3>2. i # gc.cur
      BY <1>5, <3>1, BlankFacts
    <3>3. OnPage(i).tag = "data"
      BY <2>2, <3>2 DEF GcErasing
    <3> QED
      BY <1>5, <3>3 DEF Alive
  <2>3. CASE GcPromoting /\ ~ AllData
    <3>1. OnPage(gc.cur).tag = "swap" /\ OnSwap = Blank /\ \A k \in Index \ {gc.cur} : OnPage(k).tag = "data"
      BY <2>3 DEF GcPromoting
    <3>2. swap.addr \in Phys /\ Untagged(flash[swap.addr])
      BY <1>2, <3>1, RolesFacts, EmptyFacts DEF OnSwap
    <3>3. OnPage(i).tag \in {"data", "swap"}
      BY <3>1
    <3> QED
      BY <1>5, <3>2, <3>3 DEF Alive
  <2> QED
    BY <1>6, <2>1, <2>2, <2>3
<1>8. Holds(flash, pages[i].addr, j)
  BY <1>5, <1>7 DEF Holds
<1> QED
  BY <1>1, <1>2, <1>3, <1>4, <1>8 DEF OnPage

(* The records of sound flash differ in their ids, and so those a client    *)
(* finds.                                                                   *)
LEMMA IdsDiffer == ASSUME Good PROVE UniqueIds
<1> SUFFICES ASSUME NEW a \in Found, NEW b \in Found, RecordAt(a).id = RecordAt(b).id PROVE a = b
  BY DEF UniqueIds
<1>1. /\ Roles /\ FlashOK(flash, writes) /\ a[1] \in Index /\ a[2] \in Places /\ a = <<a[1], a[2]>>
      /\ pages[a[1]].addr \in Phys /\ Holds(flash, pages[a[1]].addr, a[2])
      /\ RecordAt(a) = flash[pages[a[1]].addr].slot[a[2]]
  BY FoundHolds
<1>2. /\ b[1] \in Index /\ b[2] \in Places /\ b = <<b[1], b[2]>>
      /\ pages[b[1]].addr \in Phys /\ Holds(flash, pages[b[1]].addr, b[2])
      /\ RecordAt(b) = flash[pages[b[1]].addr].slot[b[2]]
  BY FoundHolds
<1>3. pages[a[1]].addr = pages[b[1]].addr /\ a[2] = b[2]
  BY <1>1, <1>2 DEF FlashOK, Distinct
<1>4. a[1] = b[1]
  BY <1>1, <1>2, <1>3 DEF Roles
<1> QED
  BY <1>1, <1>2, <1>3, <1>4

(* With no flash operation on its way, every page that is alive is one a    *)
(* client reads.                                                            *)
LEMMA RestsEqual == ASSUME Good PROVE ReadableIsStored
<1> SUFFICES ASSUME Quiet, flashing = NoFlash
             PROVE  Readable = Stored /\ {pages[i].addr : i \in Index} \union {swap.addr} = Phys
  BY DEF ReadableIsStored
<1>1. phase = "initialized" /\ hand = "idle" /\ ~ Flying
  BY DEF Quiet, Flying
<1>2. Roles /\ GcOK /\ FlashOK(flash, writes) /\ InitializedOK
  BY <1>1 DEF Good, ModeOK, OnOK
<1>3. ~ Working
  BY <1>1 DEF Working
<1>4. AllData /\ CleanSwap
  BY <1>1, <1>2, <1>3 DEF GcOK, GcWorks
<1>5. {pages[i].addr : i \in Index} \union {swap.addr} = Phys
  <2>1. /\ \A i \in Index : pages[i].addr \in Phys
        /\ swap.addr \in Phys
        /\ \A p \in Phys : p = swap.addr \/ \E i \in Index : pages[i].addr = p
    BY <1>2, RolesFacts DEF Roles
  <2> QED
    BY <2>1
<1>6. Stored = StoredIn(flash)
  BY <1>2, StoredIs
<1>7. \A d \in Readable : d \in StoredIn(flash)
  <2> SUFFICES ASSUME NEW loc \in Found PROVE RecordAt(loc).data \in StoredIn(flash)
    BY DEF Readable
  <2>1. /\ loc[2] \in Places /\ pages[loc[1]].addr \in Phys /\ Holds(flash, pages[loc[1]].addr, loc[2])
        /\ RecordAt(loc) = flash[pages[loc[1]].addr].slot[loc[2]]
    BY FoundHolds
  <2> QED
    BY <2>1, StoredMember
<1>8. \A d \in StoredIn(flash) : d \in Readable
  <2> SUFFICES ASSUME NEW d, d \in StoredIn(flash) PROVE d \in Readable
    OBVIOUS
  <2>1. PICK p \in Phys, j \in Places : Holds(flash, p, j) /\ flash[p].slot[j].data = d
    BY StoredMember
  <2>2. Valid(flash[p].slot[j]) /\ Alive(flash, p)
    BY <2>1 DEF Holds
  <2>3. p # swap.addr
    <3>1. \A q \in Phys : ~ Untagged(flash[q])
      BY <1>2, <1>4, PhysKinds DEF CleanSwap
    <3>2. OnSwap.tag = "swap" /\ OnSwap = flash[swap.addr]
      BY <1>4 DEF CleanSwap, OnSwap
    <3> QED
      BY <2>2, <3>1, <3>2 DEF Alive
  <2>4. PICK i \in Index : pages[i].addr = p
    BY <1>2, <2>3 DEF Roles
  <2>5. j \in Records(flash[pages[i].addr])
    BY <1>2, <2>2, <2>4, Formation
  <2>6. pages[i].type = "data"
    BY <1>2 DEF InitializedOK
  <2> DEFINE loc == <<i, j>>
  <2>7. loc \in Found /\ RecordAt(loc) = flash[p].slot[j]
    BY <1>1, <2>4, <2>5, <2>6 DEF Found, RecordAt, Places
  <2> HIDE DEF loc
  <2> QED
    BY <2>1, <2>7 DEF Readable
<1> QED
  BY <1>5, <1>6, <1>7, <1>8

(* The slot at the write offset is erased.                                  *)
LEMMA OffsetsFree == ASSUME Good PROVE OffsetsErased
<1> SUFFICES ASSUME phase = "initialized", queue = <<>>, NEW i \in Index, pages[i].offset <= Slots
             PROVE  flash[pages[i].addr].slot[pages[i].offset] = Empty
  BY DEF OffsetsErased
<1>1. Roles /\ InitializedOK /\ ~ Working
  BY DEF Good, ModeOK, OnOK, Working
<1>2. Filled(OnPage(i), pages[i].offset)
  BY <1>1 DEF InitializedOK, OffsetsOK, GcErased, GcWorks, Upto, Writing
<1>3. pages[i].offset \in Places /\ ~ pages[i].offset < pages[i].offset
  <2> DEFINE o == pages[i].offset
  <2>1. o \in 1 .. Slots + 1 /\ o <= Slots
    BY <1>1, RolesFacts
  <2> HIDE DEF o
  <2>2. o \in Places /\ ~ o < o
    BY <2>1, ConstantFacts DEF Places
  <2> QED
    BY <2>2 DEF o
<1> QED
  BY <1>2, <1>3 DEF Filled, OnPage

(* What the queue is to write: only a call of this step adds to it.         *)
Asks(q, d) == \E k \in 1 .. Len(q) : IsWriteOp(q[k]) /\ q[k].data = d
AsksOnly == \A d : Asks(queue', d) => Asks(queue, d) \/ (writes' = writes + 1 /\ d = writes')

(* A queue that is left alone asks for the same records.                    *)
LEMMA SameAsked ==
    ASSUME queue' = queue
    PROVE  AsksOnly
BY DEF AsksOnly

(* So does one whose head takes a step.                                     *)
LEMMA HeadAsked ==
    ASSUME QueueOK, queue # <<>>, NEW st, NEW f,
           \/ queue' = [queue EXCEPT ![1].step = st]
           \/ queue' = [queue EXCEPT ![1].step = st, ![1].file = f]
    PROVE  AsksOnly
<1>1. queue \in Seq(OpType) /\ 1 \in 1 .. Len(queue) /\ queue[1] \in OpType
  BY OpFacts DEF QueueOK
<1> DEFINE b == [queue[1] EXCEPT !.step = st]
           c == [queue[1] EXCEPT !.step = st, !.file = f]
<1>2. b.code = queue[1].code /\ b.data = queue[1].data /\ c.code = queue[1].code /\ c.data = queue[1].data
  <2> DEFINE P == 0 .. DataPages
  <2>1. OpType = [code : Codes, step : Steps, page : P, id : Nat, data : Nat,
                  file : Files \union {NoFile}, key : Keys \union {"none"}, target : Nat \union {-1}]
    BY DEF OpType
  <2> HIDE DEF P
  <2> QED
    BY <1>1, <2>1
<1>3. queue' = [queue EXCEPT ![1] = b] \/ queue' = [queue EXCEPT ![1] = c]
  BY <1>1
<1> HIDE DEF b, c
<1>4. Len(queue') = Len(queue) /\ \A k \in 1 .. Len(queue) : queue'[k].code = queue[k].code /\ queue'[k].data = queue[k].data
  BY <1>1, <1>2, <1>3
<1> QED
  BY <1>4 DEF AsksOnly, Asks, IsWriteOp

(* What queue_process leaves alone.                                         *)
LEMMA ExecuteLeaves ==
    ASSUME InitExecute \/ WriteExecute \/ DeleteExecute \/ GcExecute
    PROVE  hand = "run" /\ UNCHANGED <<writes, latest, flash>>
<1>1. CASE InitExecute
  BY <1>1 DEF InitExecute, InitTimeout, InitTagSwap, InitTagData, InitEraseSwap, InitPromoteSwap, Ready, ram, bounds
<1>2. CASE WriteExecute
  BY <1>2 DEF WriteExecute, WriteTimeout, UpdateFindsNothing, WriteHeaderBegin, WriteRecordId,
              WriteData, WriteHeaderFinalize, WriteFlagDirty, WriteDone, IsWrite, ram, bounds
<1>3. CASE DeleteExecute
  BY <1>3 DEF DeleteExecute, DeleteTimeout, DeleteRecord, DeleteDone, DeleteFile, IsDelete, ram, bounds
<1>4. CASE GcExecute
  BY <1>4 DEF GcExecute, GcTimeout, GcBegin, GcNextPage, GcFindNext, GcCopyAgain, GcEraseAgain,
              GcPromote, GcTagSwap, GcDiscardAgain, GcStep, GcAgain, Ready, ram, bounds
<1> QED
  BY <1>1, <1>2, <1>3, <1>4

(* What it does to the queue.                                               *)
LEMMA ExecuteQueue ==
    ASSUME InitExecute \/ WriteExecute \/ DeleteExecute \/ GcExecute
    PROVE  \/ queue' = queue
           \/ \E st : queue' = [queue EXCEPT ![1].step = st]
           \/ Op.code = "delete" /\ \E f : queue' = [queue EXCEPT ![1].step = "done", ![1].file = f]
<1>1. CASE InitExecute
  BY <1>1 DEF InitExecute, InitTimeout, InitTagSwap, InitTagData, InitEraseSwap, InitPromoteSwap, SetStep, ram
<1>2. CASE WriteExecute
  BY <1>2 DEF WriteExecute, WriteTimeout, UpdateFindsNothing, WriteHeaderBegin, WriteRecordId,
              WriteData, WriteHeaderFinalize, WriteFlagDirty, WriteDone, SetStep, ram
<1>3. CASE DeleteExecute
  BY <1>3 DEF DeleteExecute, DeleteTimeout, DeleteRecord, DeleteDone, DeleteFile, SetStep, ram
<1>4. CASE GcExecute
  BY <1>4 DEF GcExecute, GcTimeout, GcBegin, GcNextPage, GcFindNext, GcCopyAgain, GcEraseAgain,
              GcPromote, GcTagSwap, GcDiscardAgain, ram
<1> QED
  BY <1>1, <1>2, <1>3, <1>4

(* A call asks for one more record at most, the one just numbered.          *)
LEMMA AppendAsked ==
    ASSUME QueueOK, NEW op \in OpType, queue' = Append(queue, op),
           IsWriteOp(op) => writes' = writes + 1 /\ op.data = writes'
    PROVE  AsksOnly
<1>1. queue \in Seq(OpType) /\ Len(queue) \in Nat
  BY DEF QueueOK
<1>2. Len(queue') = Len(queue) + 1 /\ queue'[Len(queue) + 1] = op
      /\ \A k \in 1 .. Len(queue) : queue'[k] = queue[k]
  BY <1>1
<1>3. \A k \in 1 .. Len(queue') : k \in 1 .. Len(queue) \/ k = Len(queue) + 1
  BY <1>1, <1>2
<1> QED
  BY <1>2, <1>3 DEF AsksOnly, Asks

(* A write or an update asks for the record just numbered.                  *)
LEMMA WriteAsks ==
    ASSUME Good, NEW op \in OpType, WriteEnqueue(op)
    PROVE  AsksOnly /\ writes' = writes + 1
<1>1. /\ CanCall /\ HasSpace # {} /\ writes' = writes + 1
      /\ Enqueue([op EXCEPT !.page = Min(HasSpace), !.id = latest + 1, !.data = writes + 1])
  BY DEF WriteEnqueue
<1>2. QueueOK /\ latest \in Nat /\ writes \in Nat
  BY <1>1, CallFacts
<1>3. HasSpace \in SUBSET Nat
  BY PhysFacts DEF HasSpace
<1>4. PICK m \in HasSpace : m = Min(HasSpace)
  BY <1>1, <1>3, MinOf
<1>5. m \in Index
  BY <1>4 DEF HasSpace
<1>6. PICK a \in Nat, d \in Nat : a = latest + 1 /\ d = writes + 1
  BY <1>2
<1> DEFINE o == Numbers(op, m, a, d)
<1>7. o \in OpType /\ o.data = d
  BY <1>5, OpSet
<1>8. queue' = Append(queue, o)
  BY <1>1, <1>4, <1>6 DEF Enqueue, Numbers
<1> HIDE DEF o
<1> QED
  BY <1>1, <1>2, <1>6, <1>7, <1>8, AppendAsked

(* Another call asks for none.                                              *)
LEMMA OtherAsks ==
    ASSUME Good, CanCall, NEW op \in OpType, Enqueue(op), ~ IsWriteOp(op)
    PROVE  AsksOnly
<1>1. QueueOK /\ queue' = Append(queue, op)
  BY CallFacts DEF Enqueue
<1> QED
  BY <1>1, AppendAsked

(* So it is with every call.                                                *)
LEMMA ClientAsks ==
    ASSUME Good, Calls
    PROVE  AsksOnly /\ writes' \in {writes, writes + 1}
<1>1. \A id \in Ids : id \in Nat
  BY IdsNumbers
<1>2. CASE \E f \in Files, k \in Keys : RecordWrite(f, k)
  <2>1. PICK f \in Files, k \in Keys : RecordWrite(f, k)
    BY <1>2
  <2> DEFINE o == WriteOp(f, k)
  <2>2. o \in OpType
    BY NewOpFacts
  <2>3. WriteEnqueue(o)
    BY <2>1 DEF RecordWrite, WriteOp
  <2> HIDE DEF o
  <2> QED
    BY <2>2, <2>3, WriteAsks
<1>3. CASE \E f \in Files, k \in Keys, id \in Ids : RecordUpdate(f, k, id)
  <2>1. PICK f \in Files, k \in Keys, id \in Ids : RecordUpdate(f, k, id)
    BY <1>3
  <2>2. id \in Nat
    BY <1>1
  <2> DEFINE o == UpdateOp(f, k, id)
  <2>3. o \in OpType
    BY <2>2, UpdateOpFacts
  <2>4. WriteEnqueue(o)
    BY <2>1 DEF RecordUpdate, UpdateOp
  <2> HIDE DEF o
  <2> QED
    BY <2>3, <2>4, WriteAsks
<1>4. CASE \E f \in Files : FileDelete(f)
  <2>1. PICK f \in Files : FileDelete(f)
    BY <1>4
  <2> DEFINE o == FileOp(f)
  <2>2. o \in OpType /\ o.code = "delete file"
    BY NewOpFacts
  <2>3. CanCall /\ Enqueue(o) /\ writes' = writes
    BY <2>1 DEF FileDelete, FileOp, bounds
  <2> HIDE DEF o
  <2> QED
    BY <2>2, <2>3, OtherAsks DEF IsWriteOp
<1>5. CASE \E id \in Ids : RecordDelete(id)
  <2>1. PICK id \in Ids : RecordDelete(id)
    BY <1>5
  <2>2. id \in Nat
    BY <1>1
  <2> DEFINE o == DeleteOp(id)
  <2>3. o \in OpType /\ o.code = "delete"
    BY <2>2, NewOpFacts
  <2>4. CanCall /\ Enqueue(o) /\ writes' = writes
    BY <2>1 DEF RecordDelete, DeleteOp, bounds
  <2> HIDE DEF o
  <2> QED
    BY <2>3, <2>4, OtherAsks DEF IsWriteOp
<1>6. CASE GcRequest
  <2>1. CanCall /\ Enqueue(NewOp) /\ writes' = writes
    BY <1>6 DEF GcRequest, bounds
  <2> QED
    BY <2>1, NewOpFacts, OtherAsks DEF IsWriteOp
<1>7. CASE (\E loc \in Found : RecordOpen(loc)) \/ RecordClose
  <2>1. queue' = queue /\ writes' = writes
    BY <1>7 DEF RecordOpen, RecordClose, bounds
  <2> QED
    BY <2>1, SameAsked
<1> QED
  BY <1>2, <1>3, <1>4, <1>5, <1>6, <1>7 DEF Calls

(* Every step of the system asks for no record but the one it numbers.      *)
LEMMA StepAsks ==
    ASSUME Good, [Step]_vars, ~ FlashTimeout
    PROVE  AsksOnly /\ writes' \in {writes, writes + 1}
<1>1. CASE InitExecute \/ WriteExecute \/ DeleteExecute \/ GcExecute
  <2>1. /\ hand = "run" /\ writes' = writes
        /\ \/ queue' = queue
           \/ \E st : queue' = [queue EXCEPT ![1].step = st]
           \/ \E f : queue' = [queue EXCEPT ![1].step = "done", ![1].file = f]
    BY <1>1, ExecuteLeaves, ExecuteQueue
  <2>2. QueueOK /\ queue # <<>>
    BY <2>1, RunFacts
  <2> QED
    BY <2>1, <2>2, SameAsked, HeadAsked
<1>2. CASE QueueNext
  <2>1. hand = "event" /\ queue' = Tail(queue) /\ writes' = writes
    BY <1>2 DEF QueueNext, bounds
  <2>2. phase = "initialized" /\ Telling
    BY <2>1 DEF Good, ModeOK, OffOK, InstallOK, InitializedOK, Working, Resting
  <2>3. queue # <<>> /\ QueueOK
    BY <2>2 DEF Telling, Good, OnOK
  <2>4. queue \in Seq(OpType) /\ Len(queue) \in Nat /\ Len(queue) >= 1
    BY <2>3, OpFacts DEF QueueOK
  <2>5. \A k \in 1 .. Len(queue') : k + 1 \in 1 .. Len(queue) /\ queue'[k] = queue[k + 1]
    BY <2>1, <2>3, <2>4
  <2> QED
    BY <2>1, <2>5 DEF AsksOnly, Asks
<1>3. CASE Calls
  BY <1>3, ClientAsks
<1>4. CASE Boot
  <2>1. queue = <<>> /\ writes' = writes
    BY <1>4 DEF Boot, bounds, Good, ModeOK, OffOK, Resting
  <2>2. queue' = <<>> \/ \E s : queue' = <<[NewOp EXCEPT !.code = "init", !.step = s]>>
    BY <1>4, <2>1 DEF Boot
  <2>3. \A d : ~ Asks(queue', d)
    <3>1. CASE queue' = <<>>
      BY <3>1 DEF Asks
    <3>2. ASSUME NEW s, queue' = <<[NewOp EXCEPT !.code = "init", !.step = s]>> PROVE \A d : ~ Asks(queue', d)
      <4>1. Len(queue') = 1 /\ queue'[1].code = "init"
        BY <3>2 DEF NewOp
      <4> QED
        BY <4>1 DEF Asks, IsWriteOp
    <3> QED
      BY <2>2, <3>1, <3>2
  <2> QED
    BY <2>1, <2>3 DEF AsksOnly
<1>5. CASE FlashDone
  BY <1>5, SameAsked DEF FlashDone, ram, bounds
<1>6. CASE PowerCut
  <2>1. queue' = <<>> /\ writes' = writes
    BY <1>6 DEF PowerCut
  <2> QED
    BY <2>1 DEF AsksOnly, Asks
<1>7. CASE UNCHANGED vars
  BY <1>7, SameAsked DEF vars, ram, bounds
<1> QED
  BY <1>1, <1>2, <1>3, <1>4, <1>5, <1>6, <1>7 DEF Step, QueueProcess

(* A flash operation on its way has a last stage.                           *)
LEMMA StagesThere ==
    ASSUME Good, Flying
    PROVE  Len(flashing.stages) \in 1 .. Len(flashing.stages)
<1>1. CASE Writing /\ ~ FlagsOld
  <2>1. Len(flashing.stages) = 1
    BY <1>1, WordsEffect, OneStage
  <2> QED
    BY <2>1
<1>2. CASE Writing /\ FlagsOld
  <2>1. Len(flashing.stages) = 1
    BY <1>2, OldEffect, OneStage
  <2> QED
    BY <2>1
<1>3. CASE Deleting /\ ~ Writing
  <2>1. PICK i \in Index, j \in Places :
               flashing = [addr |-> pages[i].addr, stages |-> <<WithKey(OnPage(i), j, "dirty")>>]
    BY <1>3, DeleteFlight
  <2>2. Len(flashing.stages) = 1
    BY <2>1, OneStage
  <2> QED
    BY <2>2
<1>4. CASE GcWorks /\ GcCopying
  <2>1. Len(flashing.stages) = 4
    BY <1>4, CopyEffect
  <2> QED
    BY <2>1
<1>5. ASSUME NEW a, ErasesPage(a) PROVE Len(flashing.stages) \in 1 .. Len(flashing.stages)
  <2>1. Len(flashing.stages) = 1
    BY <1>5, OneStage DEF ErasesPage
  <2> QED
    BY <2>1
<1>6. ASSUME NEW a, NEW t \in {"swap", "data"}, TagsPage(a, t) PROVE Len(flashing.stages) \in 1 .. Len(flashing.stages)
  <2>1. /\ a \in Phys /\ flashing.stages = TagStages(flash[a], t)
        /\ Untagged(flash[a]) \/ (flash[a].tag = "swap" /\ t = "data")
    BY <1>6 DEF TagsPage
  <2>2. flash[a] \in Page
    BY <2>1, FlightFacts, Formation
  <2>3. Len(TagStages(flash[a], t)) = 2
    BY <2>1, <2>2, TagStagesAre
  <2> QED
    BY <2>1, <2>3
<1>7. \/ Writing /\ ~ FlagsOld
      \/ Writing /\ FlagsOld
      \/ Deleting /\ ~ Writing
      \/ GcWorks /\ GcCopying
      \/ \E a : ErasesPage(a)
      \/ \E a : TagsPage(a, "data") \/ TagsPage(a, "swap")
  BY FlightCases
<1> QED
  BY <1>1, <1>2, <1>3, <1>4, <1>5, <1>6, <1>7

(* What a step does to what the flash holds.                                *)
LEMMA StepEffect ==
    ASSUME Good, [Step]_vars, ~ FlashTimeout, flash' # flash
    PROVE  /\ Flying /\ Effect(flash') /\ writes' = writes /\ \A d : Asks(queue', d) => Asks(queue, d)
<1>1. FlashDone \/ PowerCut
  BY GoodStep
<1>2. CASE FlashDone
  <2>1. Flying /\ flash' = [flash EXCEPT ![flashing.addr] = flashing.stages[Len(flashing.stages)]]
        /\ queue' = queue /\ writes' = writes
    BY <1>2, DoneFacts
  <2>2. PICK k \in 1 .. Len(flashing.stages) : k = Len(flashing.stages)
    BY <2>1, StagesThere
  <2>3. PICK g : g = [flash EXCEPT ![flashing.addr] = flashing.stages[k]]
    OBVIOUS
  <2>4. Effect(g)
    BY <2>1, <2>3, StageEffect
  <2>5. flash' = g
    BY <2>1, <2>2, <2>3
  <2> QED
    BY <2>1, <2>4, <2>5
<1>3. CASE PowerCut
  <2>1. PICK k \in 1 .. Len(flashing.stages) : flash' = [flash EXCEPT ![flashing.addr] = flashing.stages[k]]
    BY <1>3 DEF PowerCut
  <2>2. Flying
    BY <2>1, NoStages DEF Flying
  <2>3. PICK g : g = [flash EXCEPT ![flashing.addr] = flashing.stages[k]]
    OBVIOUS
  <2>4. Effect(g) /\ flash' = g
    BY <2>1, <2>2, <2>3, StageEffect
  <2>5. queue' = <<>> /\ writes' = writes
    BY <1>3 DEF PowerCut
  <2> QED
    BY <2>2, <2>4, <2>5 DEF Asks
<1> QED
  BY <1>1, <1>2, <1>3

\* What a record that is removed is known by.
LEMMA RemovedFacts ==
    ASSUME Good, Flying, NEW p \in Phys, NEW i \in Places,
           flash[p].tag = "data", Valid(flash[p].slot[i]), Targets(flash[p].slot[i])
    PROVE  /\ flash[p].slot[i].data \in StoredIn(flash)
           /\ Targeted(flash[p].slot[i])
           /\ i \in Records(flash[p])
<1>1. FlashOK(flash, writes) /\ Op = queue[1] /\ 1 \in 1 .. Len(queue)
  BY FlightFacts
<1>2. Holds(flash, p, i)
  BY DEF Holds, Alive
<1>3. flash[p].slot[i].data \in StoredIn(flash)
  BY <1>2, StoredMember
<1>4. Op \in Queued
  BY <1>1 DEF Queued
<1>5. Targeted(flash[p].slot[i])
  BY <1>4 DEF Targeted, Targets
<1>6. i \in Records(flash[p])
  BY <1>1, Formation
<1> QED
  BY <1>3, <1>5, <1>6

\* a record that goes is not one that is still to be written
LEMMA RemovedAsked ==
    ASSUME Good, Flying, NEW g, NEW d \in StoredIn(flash), d \notin StoredIn(g),
           Op.code = "update" => Op.data \in StoredIn(g), Op.code # "write"
    PROVE  ~ Asks(queue, d)
<1> SUFFICES ASSUME NEW k \in 1 .. Len(queue), IsWriteOp(queue[k]), queue[k].data = d PROVE FALSE
  BY DEF Asks
<1>1. NumbersOK /\ Op = queue[1]
  BY FlightFacts
<1>2. ~ Uncommitted(k)
  BY <1>1 DEF NumbersOK
<1>3. k = 1
  BY <1>2 DEF Uncommitted
<1> QED
  BY <1>1, <1>3 DEF IsWriteOp

PendingAre == \A d : d \in Pending <=> Asks(queue, d) /\ d \notin Stored

(* The records pending are those the queue asks for that are not stored.    *)
LEMMA PendingIs == PendingAre
BY DEF PendingAre, Pending, Queued, Asks, IsWriteOp

(* The same after a step.                                                   *)
LEMMA PendingIsNext == PendingAre'
BY DEF PendingAre, Pending, Queued, Asks, IsWriteOp

(* What is to be removed is stored.                                         *)
LEMMA DoomedStored == Doomed \subseteq Stored
BY DEF Doomed

(* The same after a step.                                                   *)
LEMMA DoomedStoredNext == Doomed' \subseteq Stored'
BY DEF Doomed

StoreIs == Stored = StoredIn(flash)

(* A step of fds.c is a step of RecordStore, or of its requests.            *)
LEMMA StoreStep ==
    ASSUME Good, StoreIs, StoreIs', [Step]_vars, ~ FlashTimeout
    PROVE  Store!Next
<1>1. AsksOnly /\ writes' \in {writes, writes + 1}
  BY StepAsks
<1>2. Stored = StoredIn(flash) /\ Stored' = StoredIn(flash')
  BY DEF StoreIs
<1>3. /\ \A d : d \in Pending <=> Asks(queue, d) /\ d \notin Stored
      /\ \A d : d \in Pending' <=> Asks(queue', d) /\ d \notin Stored'
      /\ Doomed' \subseteq Stored'
  BY PendingIs, PendingIsNext, DoomedStoredNext DEF PendingAre
<1>4. writes \in Nat
  BY DEF Good, ModeOK, OffOK, OnOK, QueueOK
<1>5. CASE Stored' = Stored
  <2>1. Pending' \subseteq Pending \union (writes + 1 .. writes')
    <3> SUFFICES ASSUME NEW d \in Pending' PROVE d \in Pending \union (writes + 1 .. writes')
      OBVIOUS
    <3>1. Asks(queue', d) /\ d \notin Stored
      BY <1>3, <1>5
    <3>2. CASE Asks(queue, d)
      BY <1>3, <3>1, <3>2
    <3>3. CASE ~ Asks(queue, d)
      <4>1. writes' = writes + 1 /\ d = writes'
        BY <1>1, <3>1, <3>3 DEF AsksOnly
      <4>2. d \in writes + 1 .. writes'
        BY <1>4, <4>1
      <4> QED
        BY <4>2
    <3> QED
      BY <3>2, <3>3
  <2>2. Store!Request
    BY <1>1, <1>3, <1>5, <2>1 DEF Store!Request
  <2> QED
    BY <2>2 DEF Store!Next
<1>6. CASE Stored' # Stored
  <2>1. flash' # flash
    BY <1>2, <1>6
  <2>2. /\ Flying /\ Effect(flash') /\ writes' = writes /\ \A d : Asks(queue', d) => Asks(queue, d)
    BY <2>1, StepEffect
  <2>3. /\ FlashOK(flash, writes) /\ NumbersOK /\ Op = queue[1] /\ 1 \in 1 .. Len(queue)
    BY <2>2, FlightFacts
  <2>4. ~ SameRecords(flash')
    BY <1>2, <1>6 DEF SameRecords
  <2>5. CASE Commits(flash')
    <3>1. Writing /\ Level = 3 /\ IsWriteOp(Op) /\ Working /\ StoredIn(flash') = StoredIn(flash) \union {Op.data}
      BY <2>5 DEF Commits, Writing
    <3>2. Uncommitted(1)
      BY <2>3, <3>1 DEF Uncommitted
    <3>3. Op.data \notin Stored /\ Asks(queue, Op.data)
      BY <1>2, <2>3, <3>1, <3>2 DEF NumbersOK, Asks
    <3>4. Op.data \in Pending
      BY <1>3, <3>3
    <3>5. Stored' = Stored \union {Op.data}
      BY <1>2, <3>1
    <3>6. Pending' \subseteq Pending \ {Op.data}
      BY <1>3, <2>2, <3>5
    <3>7. Store!Commit(Op.data)
      BY <1>3, <2>2, <3>4, <3>5, <3>6 DEF Store!Commit
    <3> QED
      BY <3>4, <3>7 DEF Store!Next
  <2>6. CASE Removes(flash')
    <3>1. PICK p \in Phys, i \in Places :
            /\ flash[p].tag = "data" /\ Valid(flash[p].slot[i]) /\ Targets(flash[p].slot[i])
            /\ StoredIn(flash') = StoredIn(flash) \ {flash[p].slot[i].data}
            /\ Op.code = "update" => Op.data \in StoredIn(flash')
      BY <2>6 DEF Removes
    <3>2. PICK d : d = flash[p].slot[i].data
      OBVIOUS
    <3>3. d \in StoredIn(flash) /\ Targeted(flash[p].slot[i]) /\ i \in Records(flash[p])
      BY <2>2, <3>1, <3>2, RemovedFacts
    <3>4. d \in Doomed
      BY <1>2, <3>2, <3>3 DEF Doomed
    <3>5. Stored' = Stored \ {d}
      BY <1>2, <3>1, <3>2
    <3>6. ~ Asks(queue, d)
      <4>1. Op.code # "write"
        BY <3>1 DEF Targets
      <4>2. d \notin StoredIn(flash')
        BY <3>1, <3>2
      <4> QED
        BY <2>2, <3>1, <3>3, <4>1, <4>2, RemovedAsked
    <3>7. Pending' \subseteq Pending
      BY <1>3, <2>2, <3>5, <3>6
    <3>8. Store!Remove(d)
      BY <1>3, <2>2, <3>4, <3>5, <3>7 DEF Store!Remove
    <3> QED
      BY <3>4, <3>8 DEF Store!Next
  <2> QED
    BY <2>2, <2>4, <2>5, <2>6 DEF Effect
<1> QED
  BY <1>5, <1>6

(* Until a flash operation is given up, every variable has its type.  (The  *)
(* end of this module does without the condition.)                          *)
THEOREM FdsTypes == Spec => [](timeouts = 0 => TypeOK)
<1>1. IInv => (timeouts = 0 => TypeOK)
  BY TypesFollow DEF IInv
<1> QED
  BY FdsInvariant, <1>1, PTL

(* Whenever the storage rests, a client reads exactly what a reset would    *)
(* find, and every physical page has one role in RAM.                       *)
THEOREM FdsReadableIsStored == Spec => []ReadableIsStored
<1>1. IInv => ReadableIsStored
  <2>1. CASE timeouts = 0
    BY <2>1, RestsEqual DEF IInv
  <2>2. CASE timeouts # 0
    BY <2>2 DEF ReadableIsStored, Quiet
  <2> QED
    BY <2>1, <2>2
<1> QED
  BY FdsInvariant, <1>1, PTL

(* No two records a client can read carry the same record id.               *)
THEOREM FdsUniqueIds == Spec => []UniqueIds
<1>1. IInv => UniqueIds
  <2>1. CASE timeouts = 0
    BY <2>1, IdsDiffer DEF IInv
  <2>2. CASE timeouts # 0
    BY <2>2 DEF UniqueIds, Quiet
  <2> QED
    BY <2>1, <2>2
<1> QED
  BY FdsInvariant, <1>1, PTL

(* The promise of page_offsets_update holds until a flash operation is      *)
(* given up: the slot at the write offset of a data page is erased whenever *)
(* the queue is empty.                                                      *)
THEOREM FdsOffsetsErased == Spec => [](timeouts = 0 => OffsetsErased)
<1>1. IInv => (timeouts = 0 => OffsetsErased)
  BY OffsetsFree DEF IInv
<1> QED
  BY FdsInvariant, <1>1, PTL

(* Until a flash operation is given up, no boot finds pages it cannot       *)
(* install: pages_init and the steps after it never fail.                   *)
THEOREM FdsNeverFails == Spec => [](timeouts = 0 => phase # "failed")
<1>1. IInv => (timeouts = 0 => phase # "failed")
  BY DEF IInv, Good, ModeOK
<1> QED
  BY FdsInvariant, <1>1, PTL

StoreHolds == timeouts = 0 => StoreIs

(* With the invariant, what a reset would find is StoredIn(flash).          *)
LEMMA StoreFollows == IInv => StoreHolds
<1> SUFFICES ASSUME Good PROVE StoreIs
  BY DEF IInv, StoreHolds
<1>1. FlashOK(flash, writes)
  BY DEF Good
<1> QED
  BY <1>1, StoredIs DEF StoreIs

(* A step after which no flash operation has been given up.                 *)
LEMMA StepFacts ==
    ASSUME IInv, StoreHolds, StoreHolds', [Step]_vars, timeouts' = 0
    PROVE  Good /\ StoreIs /\ StoreIs' /\ ~ FlashTimeout
<1>1. ~ FlashTimeout
  BY DEF FlashTimeout, IInv
<1>2. timeouts = 0
  BY <1>1, TimeoutsKeep
<1> QED
  BY <1>1, <1>2 DEF IInv, StoreHolds

(* The store is empty at the start.                                         *)
LEMMA StoreStarts == Init => Store!Init
<1> SUFFICES ASSUME Init PROVE Store!Init
  OBVIOUS
<1>1. Good
  BY Starts DEF IInv, Init
<1>2. FlashOK(flash, writes) /\ flash = [p \in Phys |-> Blank] /\ queue = <<>> /\ writes = 0
  BY <1>1 DEF Good, Init
<1>3. \A p \in Phys, i \in Places : ~ Holds(flash, p, i)
  BY <1>2, EmptyFacts, BlankFacts DEF Holds
<1>4. Stored = {}
  BY <1>2, <1>3, StoredIs, StoredMember
<1>5. Pending = {}
  BY <1>2, PendingIs DEF PendingAre, Asks
<1>6. Doomed = {}
  BY <1>4, DoomedStored
<1> QED
  BY <1>2, <1>4, <1>5, <1>6 DEF Store!Init

(* fds.c implements RecordStore until a flash operation is given up:        *)
(* records appear once and only when asked for, and disappear only while a  *)
(* queued operation is to remove them.                                      *)
THEOREM FdsKeepsRecords == Spec => KeepsRecords
<1>1. IInv /\ StoreHolds /\ StoreHolds' /\ [Step]_vars
        => (timeouts' = 0 => [Store!Next]_<<Stored, Pending, Doomed, writes>>)
  BY StepFacts, StoreStep
<1> QED
  BY FdsInvariant, StoreFollows, StoreStarts, NextIsStep, <1>1, PTL DEF Spec, KeepsRecords

UpdateKeeps == timeouts' = 0 => \A d \in Stored \ Stored' :
      queue # <<>> /\ Op.code = "update" => Op.data \in Stored'

(* A step that removes a record for an update leaves the new record stored. *)
LEMMA UpdateStep ==
    ASSUME Good, StoreIs, StoreIs', [Step]_vars, ~ FlashTimeout
    PROVE  UpdateKeeps
<1> SUFFICES ASSUME NEW d \in Stored, d \notin Stored', Op.code = "update"
             PROVE  Op.data \in Stored'
  BY DEF UpdateKeeps
<1>1. Stored = StoredIn(flash) /\ Stored' = StoredIn(flash')
  BY DEF StoreIs
<1>2. Effect(flash')
  BY <1>1, StepEffect
<1>3. CASE SameRecords(flash')
  BY <1>1, <1>3 DEF SameRecords
<1>4. CASE Commits(flash')
  BY <1>1, <1>4 DEF Commits
<1>5. CASE Removes(flash')
  BY <1>1, <1>5 DEF Removes
<1> QED
  BY <1>2, <1>3, <1>4, <1>5 DEF Effect

(* An update takes the old record away only once the new one is there for   *)
(* good.                                                                    *)
THEOREM FdsUpdateNeverLoses == Spec => UpdateNeverLoses
<1>1. IInv /\ StoreHolds /\ StoreHolds' /\ [Step]_vars => UpdateKeeps
  <2> SUFFICES ASSUME IInv, StoreHolds, StoreHolds', [Step]_vars, timeouts' = 0 PROVE UpdateKeeps
    BY DEF UpdateKeeps
  <2> QED
    BY StepFacts, UpdateStep
<1> QED
  BY FdsInvariant, StoreFollows, NextIsStep, <1>1, PTL DEF Spec, UpdateNeverLoses, UpdateKeeps

\* asked for once, and neither stored nor waiting any more
Gone(r) == r \in 1 .. writes /\ r \notin Stored /\ r \notin Pending

\* A record that is gone stays gone: no garbage collection or installation
\* brings a deleted or replaced record back, and none is written twice.
GoneStaysGone == [][timeouts' = 0 => \A r \in 1 .. writes : Gone(r) => Gone(r)']_vars

(* A step of RecordStore brings nothing back.                               *)
LEMMA GoneStep ==
    ASSUME Store!Next, writes \in Nat, NEW r, Gone(r)
    PROVE  Gone(r)'
<1>1. CASE Store!Request
  <2>1. /\ writes' \in {writes, writes + 1} /\ Stored' = Stored
        /\ Pending' \subseteq Pending \union (writes + 1 .. writes')
    BY <1>1 DEF Store!Request
  <2>2. r \in 1 .. writes' /\ r \notin writes + 1 .. writes'
    BY <2>1 DEF Gone
  <2> QED
    BY <2>1, <2>2 DEF Gone
<1>2. ASSUME NEW s \in Pending, Store!Commit(s) PROVE Gone(r)'
  BY <1>2 DEF Store!Commit, Gone
<1>3. ASSUME NEW s \in Doomed, Store!Remove(s) PROVE Gone(r)'
  BY <1>3 DEF Store!Remove, Gone
<1> QED
  BY <1>1, <1>2, <1>3 DEF Store!Next

(* Nothing that was deleted, replaced or given up comes back, though its    *)
(* bytes may still be in flash (gc_record_copy, record_find_next).          *)
THEOREM FdsNothingReturns == Spec => GoneStaysGone
<1>1. IInv /\ StoreHolds /\ StoreHolds' /\ [Step]_vars
        => (timeouts' = 0 => \A r \in 1 .. writes : Gone(r) => Gone(r)')
  <2> SUFFICES ASSUME IInv, StoreHolds, StoreHolds', [Step]_vars, timeouts' = 0, NEW r \in 1 .. writes, Gone(r)
               PROVE  Gone(r)'
    OBVIOUS
  <2>1. Good /\ StoreIs /\ StoreIs' /\ ~ FlashTimeout
    BY StepFacts
  <2>2. writes \in Nat
    BY <2>1 DEF Good, ModeOK, OffOK, OnOK, QueueOK
  <2> QED
    BY <2>1, <2>2, StoreStep, GoneStep
<1> QED
  BY FdsInvariant, StoreFollows, NextIsStep, <1>1, PTL DEF Spec, GoneStaysGone
=============================================================================
