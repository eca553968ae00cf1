--------------------------- MODULE AtFifo_proofs ---------------------------
(***************************************************************************)
(* Proofs about the atomic FIFO, for a ring of any size and calls that     *)
(* interrupt one another to any depth.                                     *)
(***************************************************************************)
EXTENDS AtFifo, SequenceTheorems, TLAPS

-----------------------------------------------------------------------------
(* Distances along the ring *)

LEMMA DistType ==
    ASSUME NEW a \in Positions, NEW b \in Positions
    PROVE  Dist(a, b) \in Nat /\ Dist(a, b) < Size /\ (Dist(a, b) = 0 <=> a = b)
BY SizeAssumption DEF Dist, Positions

(* What is ahead of a slot tells slots apart.                               *)
LEMMA DistSame ==
    ASSUME NEW a \in Positions, NEW b \in Positions, NEW c \in Positions,
           Dist(a, b) = Dist(a, c)
    PROVE  b = c
BY SizeAssumption DEF Dist, Positions

(* Two arcs end to end that do not go all the way round.                    *)
LEMMA DistSum ==
    ASSUME NEW a \in Positions, NEW b \in Positions, NEW c \in Positions,
           Dist(a, b) + Dist(b, c) < Size
    PROVE  Dist(a, c) = Dist(a, b) + Dist(b, c)
BY SizeAssumption DEF Dist, Positions

(* One slot further, short of where the arc began.                          *)
LEMMA DistNext ==
    ASSUME NEW a \in Positions, NEW b \in Positions, NextPos(b) # a
    PROVE  NextPos(b) \in Positions /\ Dist(a, NextPos(b)) = Dist(a, b) + 1
BY SizeAssumption DEF Dist, Positions, NextPos

(* One slot nearer.                                                         *)
LEMMA NextDist ==
    ASSUME NEW a \in Positions, NEW b \in Positions, a # b
    PROVE  NextPos(a) \in Positions /\ Dist(NextPos(a), b) = Dist(a, b) - 1
BY SizeAssumption DEF Dist, Positions, NextPos

-----------------------------------------------------------------------------
(* What lies on an arc of the ring *)

(* What lies ahead of a slot, and the way to it.                            *)
LEMMA AheadType ==
    ASSUME NEW p \in Positions, NEW k \in Nat, k < Size
    PROVE  /\ Ahead(p, k) \in Positions /\ Dist(p, Ahead(p, k)) = k
           /\ Ahead(p, 0) = p
BY SizeAssumption DEF Ahead, Positions, Dist

(* Going the way to a slot arrives there.                                   *)
LEMMA AheadDist ==
    ASSUME NEW p \in Positions, NEW q \in Positions
    PROVE  Ahead(p, Dist(p, q)) = q
BY SizeAssumption DEF Ahead, Positions, Dist

(* Starting one slot further.                                               *)
LEMMA AheadNext ==
    ASSUME NEW p \in Positions, NEW k \in Nat, k + 1 < Size
    PROVE  Ahead(NextPos(p), k) = Ahead(p, k + 1)
BY SizeAssumption DEF Ahead, Positions, NextPos

(* Going on from a slot on the way.                                         *)
LEMMA AheadAhead ==
    ASSUME NEW p \in Positions, NEW q \in Positions, NEW k \in Nat, Dist(p, q) + k < Size
    PROVE  Ahead(q, k) = Ahead(p, Dist(p, q) + k)
BY SizeAssumption DEF Ahead, Positions, Dist

(* A run is a sequence of items.                                            *)
LEMMA RunType ==
    ASSUME NEW f \in [Positions -> Items], NEW p \in Positions, NEW n \in Nat, n <= Size
    PROVE  /\ Run(p, n, f) \in Seq(Items) /\ Len(Run(p, n, f)) = n
           /\ \A k \in 1 .. n : Run(p, n, f)[k] = f[Ahead(p, k - 1)]
<1>1. ASSUME NEW k \in 1 .. n PROVE f[Ahead(p, k - 1)] \in Items
  <2>1. k - 1 \in Nat /\ k - 1 < Size
    BY SizeAssumption
  <2> QED
    BY <2>1, AheadType
<1>2. Run(p, n, f) \in [1 .. n -> Items]
  BY <1>1 DEF Run
<1>3. Run(p, n, f) \in Seq(Items)
  BY <1>2
<1>4. Len(Run(p, n, f)) = n
  BY <1>2, <1>3, LenProperties
<1> QED
  BY <1>3, <1>4 DEF Run

(* A run sees the slots nearer than its length and no others.               *)
LEMMA RunSame ==
    ASSUME NEW f, NEW g, NEW p \in Positions, NEW n \in Nat, n < Size,
           \A q \in Positions : Dist(p, q) < n => f[q] = g[q]
    PROVE  Run(p, n, f) = Run(p, n, g)
<1>1. ASSUME NEW k \in 1 .. n PROVE f[Ahead(p, k - 1)] = g[Ahead(p, k - 1)]
  <2>1. k - 1 \in Nat /\ k - 1 < Size /\ k - 1 < n
    BY SizeAssumption
  <2> QED
    BY <2>1, AheadType
<1> QED
  BY <1>1 DEF Run

(* One slot more at the end.                                                *)
LEMMA RunAppend ==
    ASSUME NEW f \in [Positions -> Items], NEW p \in Positions, NEW q \in Positions,
           Dist(p, q) + 1 < Size
    PROVE  Run(p, Dist(p, q) + 1, f) = Append(Run(p, Dist(p, q), f), f[q])
<1> DEFINE n == Dist(p, q)
<1>1. n \in Nat /\ n + 1 <= Size /\ n <= Size
  BY DistType, SizeAssumption
<1>2. /\ Run(p, n, f) \in Seq(Items) /\ Len(Run(p, n, f)) = n
      /\ \A k \in 1 .. n : Run(p, n, f)[k] = f[Ahead(p, k - 1)]
  BY <1>1, RunType
<1>3. /\ Run(p, n + 1, f) \in Seq(Items) /\ Len(Run(p, n + 1, f)) = n + 1
      /\ \A k \in 1 .. n + 1 : Run(p, n + 1, f)[k] = f[Ahead(p, k - 1)]
  <2>1. n + 1 \in Nat
    BY <1>1
  <2> HIDE DEF n
  <2> QED
    BY <1>1, <2>1, RunType
<1>4. f[q] \in Items /\ Ahead(p, n + 1 - 1) = q
  BY <1>1, AheadDist
<1> HIDE DEF n
<1>5. /\ Append(Run(p, n, f), f[q]) \in Seq(Items)
      /\ Len(Append(Run(p, n, f), f[q])) = n + 1
      /\ \A k \in 1 .. n : Append(Run(p, n, f), f[q])[k] = f[Ahead(p, k - 1)]
      /\ Append(Run(p, n, f), f[q])[n + 1] = f[q]
  BY <1>2, <1>4, AppendProperties
<1>6. \A k \in 1 .. n + 1 : Run(p, n + 1, f)[k] = Append(Run(p, n, f), f[q])[k]
  BY <1>1, <1>3, <1>4, <1>5
<1>7. Run(p, n + 1, f) = Append(Run(p, n, f), f[q])
  BY <1>3, <1>5, <1>6, SeqEqual
<1> QED
  BY <1>7 DEF n

(* One slot less at the beginning.                                          *)
LEMMA RunTail ==
    ASSUME NEW f \in [Positions -> Items], NEW p \in Positions, NEW n \in Nat \ {0}, n < Size
    PROVE  /\ Run(p, n, f) # <<>> /\ Head(Run(p, n, f)) = f[p]
           /\ Tail(Run(p, n, f)) = Run(NextPos(p), n - 1, f)
<1>1. NextPos(p) \in Positions
  BY SizeAssumption DEF NextPos, Positions
<1>2. /\ Run(p, n, f) \in Seq(Items) /\ Len(Run(p, n, f)) = n
      /\ \A k \in 1 .. n : Run(p, n, f)[k] = f[Ahead(p, k - 1)]
  <2>1. n \in Nat /\ n <= Size
    BY SizeAssumption
  <2> QED
    BY <2>1, RunType
<1>3. /\ Run(NextPos(p), n - 1, f) \in Seq(Items) /\ Len(Run(NextPos(p), n - 1, f)) = n - 1
      /\ \A k \in 1 .. n - 1 : Run(NextPos(p), n - 1, f)[k] = f[Ahead(NextPos(p), k - 1)]
  <2>1. n - 1 \in Nat /\ n - 1 <= Size
    BY SizeAssumption
  <2> QED
    BY <1>1, <2>1, RunType
<1>4. Run(p, n, f) # <<>>
  BY <1>2, EmptySeq
<1>5. Head(Run(p, n, f)) = f[p]
  <2>1. Head(Run(p, n, f)) = Run(p, n, f)[1]
    BY <1>2, <1>4
  <2>2. Ahead(p, 1 - 1) = p
    BY AheadType, SizeAssumption
  <2> QED
    BY <1>2, <2>1, <2>2
<1>6. /\ Tail(Run(p, n, f)) \in Seq(Items) /\ Len(Tail(Run(p, n, f))) = n - 1
      /\ \A k \in 1 .. n - 1 : Tail(Run(p, n, f))[k] = Run(p, n, f)[k + 1]
  BY <1>2, <1>4, HeadTailProperties
<1>7. ASSUME NEW k \in 1 .. n - 1
      PROVE  Tail(Run(p, n, f))[k] = Run(NextPos(p), n - 1, f)[k]
  <2>1. Ahead(NextPos(p), k - 1) = Ahead(p, k - 1 + 1)
    <3>1. k - 1 \in Nat /\ k - 1 + 1 < Size
      BY SizeAssumption
    <3> QED
      BY <3>1, AheadNext
  <2> QED
    BY <1>2, <1>3, <1>6, <2>1
<1> QED
  BY <1>3, <1>4, <1>5, <1>6, <1>7, SeqEqual

(* Two arcs end to end.                                                     *)
LEMMA RunJoined ==
    ASSUME NEW f \in [Positions -> Items], NEW p \in Positions, NEW q \in Positions,
           NEW r \in Positions, Dist(p, q) + Dist(q, r) < Size
    PROVE  Run(p, Dist(p, r), f) = Run(p, Dist(p, q), f) \o Run(q, Dist(q, r), f)
<1> DEFINE m == Dist(p, q)  n == Dist(q, r)  t == Dist(p, r)
<1>0. m \in Nat /\ n \in Nat /\ t \in Nat /\ t = m + n /\ t < Size
  BY DistType, DistSum
<1>1. m <= Size /\ n <= Size /\ t <= Size
  BY <1>0, SizeAssumption
<1>2. ASSUME NEW k \in Nat, m + k < Size PROVE Ahead(q, k) = Ahead(p, m + k)
  BY <1>2, AheadAhead
<1> HIDE DEF m, n, t
<1>3. /\ Run(p, m, f) \in Seq(Items) /\ Len(Run(p, m, f)) = m
      /\ \A k \in 1 .. m : Run(p, m, f)[k] = f[Ahead(p, k - 1)]
  BY <1>0, <1>1, RunType
<1>4. /\ Run(q, n, f) \in Seq(Items) /\ Len(Run(q, n, f)) = n
      /\ \A k \in 1 .. n : Run(q, n, f)[k] = f[Ahead(q, k - 1)]
  BY <1>0, <1>1, RunType
<1>5. /\ Run(p, t, f) \in Seq(Items) /\ Len(Run(p, t, f)) = t
      /\ \A k \in 1 .. t : Run(p, t, f)[k] = f[Ahead(p, k - 1)]
  BY <1>0, <1>1, RunType
<1> DEFINE c == Run(p, m, f) \o Run(q, n, f)
<1>6. /\ c \in Seq(Items) /\ Len(c) = m + n
      /\ \A k \in 1 .. m + n : c[k] = IF k <= m THEN Run(p, m, f)[k] ELSE Run(q, n, f)[k - m]
  <2> DEFINE u == Run(p, m, f)  v == Run(q, n, f)
  <2>1. u \in Seq(Items) /\ v \in Seq(Items) /\ Len(u) = m /\ Len(v) = n
    BY <1>3, <1>4
  <2> HIDE DEF u, v
  <2>2. /\ u \o v \in Seq(Items) /\ Len(u \o v) = m + n
        /\ \A k \in 1 .. m + n : (u \o v)[k] = IF k <= m THEN u[k] ELSE v[k - m]
    BY <2>1, ConcatProperties
  <2> QED
    BY <2>2 DEF u, v
<1> HIDE DEF c
<1>7. ASSUME NEW k \in 1 .. t PROVE c[k] = Run(p, t, f)[k]
  <2>1. CASE k <= m
    <3>1. k \in 1 .. m /\ k \in 1 .. m + n
      BY <1>0, <2>1
    <3>2. c[k] = Run(p, m, f)[k]
      BY <1>6, <2>1, <3>1
    <3> QED
      BY <1>3, <1>5, <3>1, <3>2
  <2>2. CASE k > m
    <3>1. k \in 1 .. m + n /\ ~(k <= m) /\ k - m \in 1 .. n
      BY <1>0, <2>2
    <3>2. k - m - 1 \in Nat /\ m + (k - m - 1) = k - 1 /\ k - 1 < Size
      BY <1>0, <2>2, SizeAssumption
    <3>3. Ahead(q, k - m - 1) = Ahead(p, k - 1)
      <4> DEFINE l == k - m - 1
      <4>1. l \in Nat /\ m + l = k - 1 /\ m + l < Size
        BY <3>2
      <4> HIDE DEF l
      <4>2. Ahead(q, l) = Ahead(p, k - 1)
        BY <1>2, <4>1
      <4> QED
        BY <4>2 DEF l
    <3>4. c[k] = Run(q, n, f)[k - m]
      BY <1>6, <3>1
    <3>5. Run(q, n, f)[k - m] = f[Ahead(q, k - m - 1)]
      BY <1>4, <3>1
    <3> QED
      BY <1>5, <3>3, <3>4, <3>5
  <2> QED
    BY <1>0, <2>1, <2>2
<1>8. Run(p, t, f) = c
  BY <1>0, <1>5, <1>6, <1>7, SeqEqual
<1> QED
  BY <1>8 DEF c, m, n, t

(* No slot at all.                                                          *)
LEMMA RunEmpty == ASSUME NEW f, NEW p PROVE Run(p, 0, f) = <<>>
BY DEF Run

-----------------------------------------------------------------------------
(* Calls in hand *)

LEMMA Pushed ==
    ASSUME NEW S, NEW s \in Seq(S), NEW e \in S
    PROVE  /\ Append(s, e) \in Seq(S)
           /\ Len(s) \in Nat /\ Len(Append(s, e)) = Len(s) + 1
           /\ \A i \in 1 .. Len(s) : Append(s, e)[i] = s[i]
           /\ Append(s, e)[Len(s) + 1] = e
BY LenProperties, AppendProperties

LEMMA Popped ==
    ASSUME NEW S, NEW s \in Seq(S), s # <<>>
    PROVE  /\ Front(s) \in Seq(S)
           /\ Len(s) \in Nat \ {0} /\ Len(Front(s)) = Len(s) - 1
           /\ \A i \in 1 .. Len(s) - 1 : Front(s)[i] = s[i]
           /\ Last(s) = s[Len(s)] /\ Last(s) \in S
<1>1. Len(s) \in Nat \ {0}
  BY EmptySeq
<1>2. \A i \in 1 .. Len(s) - 1 : s[i] \in S
  BY <1>1, ElementOfSeq
<1>3. /\ SubSeq(s, 1, Len(s) - 1) \in Seq(S)
      /\ Len(SubSeq(s, 1, Len(s) - 1)) = Len(s) - 1
      /\ \A i \in 1 .. Len(s) - 1 : SubSeq(s, 1, Len(s) - 1)[i] = s[i]
  <2> DEFINE n == Len(s) - 1
  <2>1. n \in Nat /\ \A i \in 1 .. n : s[i] \in S
    BY <1>1, <1>2
  <2>2. /\ SubSeq(s, 1, n) \in Seq(S)
        /\ Len(SubSeq(s, 1, n)) = IF 1 <= n THEN n - 1 + 1 ELSE 0
        /\ \A i \in 1 .. n - 1 + 1 : SubSeq(s, 1, n)[i] = s[1 + i - 1]
    <3> HIDE DEF n
    <3> QED
      BY <2>1, SubSeqProperties
  <2>3. Len(SubSeq(s, 1, n)) = n /\ \A i \in 1 .. n : SubSeq(s, 1, n)[i] = s[i]
    <3> HIDE DEF n
    <3> QED
      BY <2>1, <2>2
  <2> QED
    BY <2>2, <2>3
<1>4. s[Len(s)] \in S
  BY <1>1, ElementOfSeq
<1> QED
  BY <1>1, <1>3, <1>4 DEF Front, Last

-----------------------------------------------------------------------------
(* The inductive invariant *)

PutFrame == [last : PosTag, item : Items, written : BOOLEAN]

\* The slots of the puts in hand lie between tail.rd and tail.wr, in the order
\* of the claims, and the first of them is at tail.rd.
PutsPart ==
    /\ tail \in PosTag
    /\ puts \in Seq(PutFrame)
    /\ \A i \in 1 .. Len(puts) :
         /\ puts[i].last.rd = tail.rd
         /\ Dist(tail.rd, PutSlot(i)) < Dist(tail.rd, tail.wr)
    /\ \A i, j \in 1 .. Len(puts) :
         i < j => Dist(tail.rd, PutSlot(i)) < Dist(tail.rd, PutSlot(j))
    /\ IF Len(puts) = 0 THEN tail.wr = tail.rd ELSE PutSlot(1) = tail.rd

\* The same for the gets, between head.wr and head.rd.
GetsPart ==
    /\ head \in PosTag
    /\ gets \in Seq(PosTag)
    /\ \A i \in 1 .. Len(gets) :
         /\ gets[i].wr = head.wr
         /\ Dist(head.wr, GetSlot(i)) < Dist(head.wr, head.rd)
    /\ \A i, j \in 1 .. Len(gets) :
         i < j => Dist(head.wr, GetSlot(i)) < Dist(head.wr, GetSlot(j))
    /\ IF Len(gets) = 0 THEN head.wr = head.rd ELSE GetSlot(1) = head.wr

\* Slots being read, slots to read and slots being filled, in this order round
\* the ring, leave at least one slot free.
Room ==
    Dist(head.wr, head.rd) + Dist(head.rd, tail.rd) + Dist(tail.rd, tail.wr) < Size

IInv == PutsPart /\ GetsPart /\ Room

(* The invariant keeps owners apart.                                        *)
LEMMA Apart == IInv => SlotsOwned
<1> SUFFICES ASSUME IInv PROVE SlotsOwned
  OBVIOUS
<1>1. /\ DOMAIN puts = 1 .. Len(puts) /\ Len(puts) \in Nat
      /\ DOMAIN gets = 1 .. Len(gets) /\ Len(gets) \in Nat
      /\ \A i \in 1 .. Len(puts) : puts[i] \in PutFrame
      /\ \A i \in 1 .. Len(gets) : gets[i] \in PosTag
  BY LenProperties, ElementOfSeq DEF IInv, PutsPart, GetsPart
<1>2. /\ tail.wr \in Positions /\ tail.rd \in Positions
      /\ head.wr \in Positions /\ head.rd \in Positions
      /\ \A i \in 1 .. Len(puts) : PutSlot(i) \in Positions
      /\ \A i \in 1 .. Len(gets) : GetSlot(i) \in Positions
  BY <1>1 DEF IInv, PutsPart, GetsPart, PosTag, PutFrame, PutSlot, GetSlot
<1>3. /\ Dist(head.wr, head.rd) \in Nat /\ Dist(head.rd, tail.rd) \in Nat
      /\ Dist(tail.rd, tail.wr) \in Nat
  BY <1>2, DistType
<1>4. /\ Dist(head.wr, head.rd) + Dist(head.rd, tail.rd) < Size
      /\ Dist(head.wr, tail.rd) = Dist(head.wr, head.rd) + Dist(head.rd, tail.rd)
  <2>1. Dist(head.wr, head.rd) + Dist(head.rd, tail.rd) < Size
    BY <1>3, SizeAssumption DEF IInv, Room
  <2> QED
    BY <2>1, <1>2, DistSum
<1>5. ASSUME NEW i \in 1 .. Len(puts)
      PROVE  /\ Dist(head.wr, PutSlot(i)) \in Nat
             /\ Dist(head.wr, PutSlot(i)) >= Dist(head.wr, tail.rd)
  <2>1. /\ Dist(tail.rd, PutSlot(i)) \in Nat
        /\ Dist(tail.rd, PutSlot(i)) < Dist(tail.rd, tail.wr)
    BY <1>2, DistType DEF IInv, PutsPart
  <2>2. Dist(head.wr, tail.rd) + Dist(tail.rd, PutSlot(i)) < Size
    BY <2>1, <1>3, <1>4, SizeAssumption DEF IInv, Room
  <2>3. Dist(head.wr, PutSlot(i)) = Dist(head.wr, tail.rd) + Dist(tail.rd, PutSlot(i))
    BY <2>2, <1>2, DistSum
  <2> QED
    BY <2>1, <2>3, <1>3, <1>4
<1>6. ASSUME NEW i \in 1 .. Len(gets)
      PROVE  /\ Dist(head.wr, GetSlot(i)) \in Nat
             /\ Dist(head.wr, GetSlot(i)) < Dist(head.wr, tail.rd)
  <2>1. /\ Dist(head.wr, GetSlot(i)) \in Nat
        /\ Dist(head.wr, GetSlot(i)) < Dist(head.wr, head.rd)
    BY <1>2, DistType DEF IInv, GetsPart
  <2> QED
    BY <2>1, <1>3, <1>4
<1>7. \A i \in 1 .. Len(puts) : PutSlot(i) \notin Arc(head.wr, tail.rd)
  BY <1>3, <1>4, <1>5 DEF Arc
<1>8. \A i, j \in 1 .. Len(puts) : PutSlot(i) = PutSlot(j) => i = j
  <2> SUFFICES ASSUME NEW i \in 1 .. Len(puts), NEW j \in 1 .. Len(puts), i < j
               PROVE  PutSlot(i) # PutSlot(j)
    BY <1>1
  <2>1. Dist(tail.rd, PutSlot(i)) < Dist(tail.rd, PutSlot(j))
    BY DEF IInv, PutsPart
  <2>2. Dist(tail.rd, PutSlot(i)) \in Nat
    BY <1>2, DistType
  <2> QED
    BY <2>1, <2>2
<1>9. \A i \in 1 .. Len(puts), j \in 1 .. Len(gets) : PutSlot(i) # GetSlot(j)
  <2> SUFFICES ASSUME NEW i \in 1 .. Len(puts), NEW j \in 1 .. Len(gets),
                      PutSlot(i) = GetSlot(j)
               PROVE  FALSE
    OBVIOUS
  <2> QED
    BY <1>3, <1>4, <1>5, <1>6
<1>10. \A i, j \in 1 .. Len(gets) : GetSlot(i) = GetSlot(j) => i = j
  <2> SUFFICES ASSUME NEW i \in 1 .. Len(gets), NEW j \in 1 .. Len(gets), i < j
               PROVE  GetSlot(i) # GetSlot(j)
    BY <1>1
  <2>1. Dist(head.wr, GetSlot(i)) < Dist(head.wr, GetSlot(j))
    BY DEF IInv, GetsPart
  <2>2. Dist(head.wr, GetSlot(i)) \in Nat
    BY <1>2, DistType
  <2> QED
    BY <2>1, <2>2
<1> QED
  BY <1>1, <1>7, <1>8, <1>9, <1>10 DEF SlotsOwned

-----------------------------------------------------------------------------
(* The invariant is inductive *)

(* The positions of an invariant state, with the distances they keep.       *)
LEMMA Placed ==
    ASSUME IInv
    PROVE  /\ tail.wr \in Positions /\ tail.rd \in Positions
           /\ head.wr \in Positions /\ head.rd \in Positions
           /\ Dist(head.wr, head.rd) \in Nat /\ Dist(head.rd, tail.rd) \in Nat
           /\ Dist(tail.rd, tail.wr) \in Nat
           /\ Dist(head.rd, tail.wr) = Dist(head.rd, tail.rd) + Dist(tail.rd, tail.wr)
           /\ Dist(head.wr, tail.rd) = Dist(head.wr, head.rd) + Dist(head.rd, tail.rd)
           /\ Dist(head.wr, tail.wr) = Dist(head.wr, head.rd) + Dist(head.rd, tail.rd)
                                        + Dist(tail.rd, tail.wr)
<1>1. /\ tail.wr \in Positions /\ tail.rd \in Positions
      /\ head.wr \in Positions /\ head.rd \in Positions
  BY DEF IInv, PutsPart, GetsPart, PosTag
<1>2. /\ Dist(head.wr, head.rd) \in Nat /\ Dist(head.rd, tail.rd) \in Nat
      /\ Dist(tail.rd, tail.wr) \in Nat
  BY <1>1, DistType
<1>3. /\ Dist(head.rd, tail.rd) + Dist(tail.rd, tail.wr) < Size
      /\ Dist(head.wr, head.rd) + Dist(head.rd, tail.rd) < Size
  BY <1>2, SizeAssumption DEF IInv, Room
<1>4. /\ Dist(head.rd, tail.wr) = Dist(head.rd, tail.rd) + Dist(tail.rd, tail.wr)
      /\ Dist(head.wr, tail.rd) = Dist(head.wr, head.rd) + Dist(head.rd, tail.rd)
  BY <1>1, <1>3, DistSum
<1>5. Dist(head.wr, tail.rd) + Dist(tail.rd, tail.wr) < Size
  BY <1>4 DEF IInv, Room
<1>6. Dist(head.wr, tail.wr) = Dist(head.wr, tail.rd) + Dist(tail.rd, tail.wr)
  BY <1>1, <1>5, DistSum
<1> QED
  BY <1>1, <1>2, <1>4, <1>6

(* The put that ends is the first of the stack when it found tail.wr at     *)
(* tail.rd, and then it is the only one.                                    *)
LEMMA OutermostPut ==
    ASSUME IInv, puts # <<>>
    PROVE  Last(puts).last.wr = Last(puts).last.rd <=> Len(puts) = 1
<1>1. Len(puts) \in Nat \ {0} /\ Last(puts) = puts[Len(puts)]
  BY Popped DEF IInv, PutsPart
<1>2. Last(puts).last.rd = tail.rd /\ PutSlot(1) = tail.rd /\ Last(puts).last.wr = PutSlot(Len(puts))
  BY <1>1 DEF IInv, PutsPart, PutSlot
<1>3. ASSUME Len(puts) # 1, PutSlot(Len(puts)) = tail.rd PROVE FALSE
  <2>1. Dist(tail.rd, PutSlot(1)) < Dist(tail.rd, PutSlot(Len(puts)))
    <3>1. 1 \in 1 .. Len(puts) /\ Len(puts) \in 1 .. Len(puts) /\ 1 < Len(puts)
      <4> DEFINE n == Len(puts)
      <4>1. n \in Nat \ {0} /\ n # 1
        BY <1>1, <1>3
      <4> HIDE DEF n
      <4>2. 1 \in 1 .. n /\ n \in 1 .. n /\ 1 < n
        BY <4>1
      <4> QED
        BY <4>2 DEF n
    <3> QED
      BY <3>1 DEF IInv, PutsPart
  <2>2. Dist(tail.rd, tail.rd) = 0
    BY Placed, DistType
  <2> QED
    BY <1>2, <1>3, <2>1, <2>2
<1> QED
  BY <1>1, <1>2, <1>3

(* The same for the get that ends.                                          *)
LEMMA OutermostGet ==
    ASSUME IInv, gets # <<>>
    PROVE  Last(gets).wr = Last(gets).rd <=> Len(gets) = 1
<1>1. Len(gets) \in Nat \ {0} /\ Last(gets) = gets[Len(gets)]
  BY Popped DEF IInv, GetsPart
<1>2. Last(gets).wr = head.wr /\ GetSlot(1) = head.wr /\ Last(gets).rd = GetSlot(Len(gets))
  BY <1>1 DEF IInv, GetsPart, GetSlot
<1>3. ASSUME Len(gets) # 1, GetSlot(Len(gets)) = head.wr PROVE FALSE
  <2>1. Dist(head.wr, GetSlot(1)) < Dist(head.wr, GetSlot(Len(gets)))
    <3>1. 1 \in 1 .. Len(gets) /\ Len(gets) \in 1 .. Len(gets) /\ 1 < Len(gets)
      <4> DEFINE n == Len(gets)
      <4>1. n \in Nat \ {0} /\ n # 1
        BY <1>1, <1>3
      <4> HIDE DEF n
      <4>2. 1 \in 1 .. n /\ n \in 1 .. n /\ 1 < n
        BY <4>1
      <4> QED
        BY <4>2 DEF n
    <3> QED
      BY <3>1 DEF IInv, GetsPart
  <2>2. Dist(head.wr, head.wr) = 0
    BY Placed, DistType
  <2> QED
    BY <1>2, <1>3, <2>1, <2>2
<1> QED
  BY <1>1, <1>2, <1>3

(* A claim makes the arc of the claims one slot longer.                     *)
LEMMA ClaimedMore ==
    ASSUME IInv, NextPos(tail.wr) # head.wr
    PROVE  /\ NextPos(tail.wr) \in Positions
           /\ Dist(head.wr, NextPos(tail.wr)) = Dist(head.wr, tail.wr) + 1
           /\ Dist(tail.rd, NextPos(tail.wr)) = Dist(tail.rd, tail.wr) + 1
<1>1. /\ NextPos(tail.wr) \in Positions
      /\ Dist(head.wr, NextPos(tail.wr)) = Dist(head.wr, tail.wr) + 1
  BY Placed, DistNext
<1>2. NextPos(tail.wr) # tail.rd
  <2>1. CASE tail.rd = head.wr
    BY <2>1
  <2>2. CASE tail.rd # head.wr
    <3>1. Dist(head.wr, NextPos(tail.wr)) > Dist(head.wr, tail.rd)
      BY <1>1, Placed
    <3>2. Dist(head.wr, tail.rd) \in Nat
      BY Placed, DistType
    <3> QED
      BY <3>1, <3>2
  <2> QED
    BY <2>1, <2>2
<1>3. Dist(tail.rd, NextPos(tail.wr)) = Dist(tail.rd, tail.wr) + 1
  BY <1>2, Placed, DistNext
<1> QED
  BY <1>1, <1>3

(* A get makes the arc of the open gets one slot longer.                    *)
LEMMA TakenMore ==
    ASSUME IInv, head.rd # tail.rd
    PROVE  /\ NextPos(head.rd) \in Positions
           /\ Dist(NextPos(head.rd), tail.rd) = Dist(head.rd, tail.rd) - 1
           /\ Dist(head.wr, NextPos(head.rd)) = Dist(head.wr, head.rd) + 1
<1>1. /\ NextPos(head.rd) \in Positions
      /\ Dist(NextPos(head.rd), tail.rd) = Dist(head.rd, tail.rd) - 1
  BY Placed, NextDist
<1>2. NextPos(head.rd) # head.wr
  <2> SUFFICES ASSUME NextPos(head.rd) = head.wr PROVE FALSE
    OBVIOUS
  <2>1. Dist(head.wr, tail.rd) = Dist(head.rd, tail.rd) - 1
    BY <1>1
  <2> QED
    BY <2>1, Placed
<1>3. Dist(head.wr, NextPos(head.rd)) = Dist(head.wr, head.rd) + 1
  BY <1>2, Placed, DistNext
<1> QED
  BY <1>1, <1>3

LEMMA Start == Init => IInv
<1> SUFFICES ASSUME Init PROVE IInv
  OBVIOUS
<1>1. 0 \in Positions /\ Dist(0, 0) = 0
  BY SizeAssumption DEF Positions, Dist
<1>2. puts \in Seq(PutFrame) /\ Len(puts) = 0 /\ gets \in Seq(PosTag) /\ Len(gets) = 0
  BY EmptySeq DEF Init
<1>3. PutsPart
  BY <1>1, <1>2 DEF Init, PutsPart, PosTag
<1>4. GetsPart
  BY <1>1, <1>2 DEF Init, GetsPart, PosTag
<1>5. Room
  BY <1>1, SizeAssumption DEF Init, Room
<1> QED
  BY <1>3, <1>4, <1>5 DEF IInv

(* A claim takes the slot at tail.wr, and leaves one free slot before       *)
(* head.wr.                                                                 *)
LEMMA Alloc ==
    ASSUME IInv, NEW x \in Items, ItemAlloc(x)
    PROVE  IInv'
<1>1. tail'.wr \in Positions /\ tail'.rd = tail.rd /\ tail' \in PosTag
      /\ Dist(head.wr, tail'.wr) = Dist(head.wr, tail.wr) + 1
      /\ Dist(tail.rd, tail'.wr) = Dist(tail.rd, tail.wr) + 1
  <2>1. tail'.wr = NextPos(tail.wr) /\ tail'.rd = tail.rd /\ NextPos(tail.wr) # head.wr
        /\ tail' = [wr |-> NextPos(tail.wr), rd |-> tail.rd]
    BY DEF ItemAlloc, IInv, PutsPart, PosTag
  <2> QED
    BY <2>1, ClaimedMore, Placed DEF PosTag
<1>2. Dist(tail.rd, tail'.wr) = Dist(tail.rd, tail.wr) + 1
  BY <1>1
<1>3. Dist(tail.rd, tail.wr) \in Nat
  BY Placed
<1>4. /\ head' = head /\ gets' = gets
      /\ puts' = Append(puts, [last |-> tail, item |-> x, written |-> FALSE])
  BY DEF ItemAlloc
<1>5. /\ puts' \in Seq(PutFrame)
      /\ Len(puts) \in Nat /\ Len(puts') = Len(puts) + 1
      /\ \A i \in 1 .. Len(puts) : puts'[i] = puts[i]
      /\ puts'[Len(puts) + 1] = [last |-> tail, item |-> x, written |-> FALSE]
  <2>1. [last |-> tail, item |-> x, written |-> FALSE] \in PutFrame /\ puts \in Seq(PutFrame)
    BY DEF PutFrame, IInv, PutsPart
  <2> QED
    BY <1>4, <2>1, Pushed
<1>6. /\ \A i \in 1 .. Len(puts) : puts'[i].last = puts[i].last
      /\ puts'[Len(puts) + 1].last.wr = tail.wr
      /\ puts'[Len(puts) + 1].last.rd = tail.rd
  BY <1>5
<1>7. PutsPart'
  <2>1. \A i \in 1 .. Len(puts) :
          /\ Dist(tail.rd, PutSlot(i)) < Dist(tail.rd, tail.wr)
          /\ Dist(tail.rd, PutSlot(i)) \in Nat
    <3>1. \A i \in 1 .. Len(puts) : puts[i] \in PutFrame
      BY ElementOfSeq DEF IInv, PutsPart
    <3>2. \A i \in 1 .. Len(puts) : PutSlot(i) \in Positions
      BY <3>1 DEF PutFrame, PosTag, PutSlot
    <3> QED
      BY <3>2, Placed, DistType DEF IInv, PutsPart
  <2>2. ASSUME NEW i \in 1 .. Len(puts')
        PROVE  /\ puts'[i].last.rd = tail'.rd
               /\ Dist(tail'.rd, puts'[i].last.wr) < Dist(tail'.rd, tail'.wr)
    <3>1. CASE i \in 1 .. Len(puts)
      BY <3>1, <1>1, <1>2, <1>3, <1>6, <2>1 DEF IInv, PutsPart, PutSlot
    <3>2. CASE i = Len(puts) + 1
      BY <3>2, <1>1, <1>2, <1>3, <1>6
    <3> QED
      BY <3>1, <3>2, <1>5
  <2>3. ASSUME NEW i \in 1 .. Len(puts'), NEW j \in 1 .. Len(puts'), i < j
        PROVE  Dist(tail'.rd, puts'[i].last.wr) < Dist(tail'.rd, puts'[j].last.wr)
    <3>1. i \in 1 .. Len(puts)
      BY <2>3, <1>5
    <3>2. CASE j \in 1 .. Len(puts)
      BY <3>1, <3>2, <2>3, <1>1, <1>6 DEF IInv, PutsPart, PutSlot
    <3>3. CASE j = Len(puts) + 1
      BY <3>1, <3>3, <2>1, <1>1, <1>6 DEF PutSlot
    <3> QED
      BY <3>2, <3>3, <1>5
  <2>4. Len(puts') # 0 /\ puts'[1].last.wr = tail'.rd
    <3>1. CASE Len(puts) = 0
      BY <3>1, <1>1, <1>5, <1>6 DEF IInv, PutsPart
    <3>2. CASE Len(puts) # 0
      BY <3>2, <1>1, <1>5, <1>6 DEF IInv, PutsPart, PutSlot
    <3> QED
      BY <3>1, <3>2, <1>5
  <2> QED
    BY <1>1, <1>5, <2>2, <2>3, <2>4 DEF PutsPart, PutSlot
<1>8. GetsPart'
  BY <1>4 DEF IInv, GetsPart, GetSlot
<1>9. Room'
  <2>1. Dist(head.wr, tail'.wr) < Size
    BY <1>1, Placed, DistType
  <2> QED
    BY <2>1, <1>1, <1>2, <1>4, Placed DEF Room, Dist
<1> QED
  BY <1>7, <1>8, <1>9 DEF IInv

(* Filling a slot moves no position.                                        *)
LEMMA Filled ==
    ASSUME IInv, Fill
    PROVE  IInv'
<1>1. /\ puts # <<>> /\ puts \in Seq(PutFrame)
      /\ tail' = tail /\ head' = head /\ gets' = gets
      /\ puts' = [puts EXCEPT ![Len(puts)] = [puts[Len(puts)] EXCEPT !.written = TRUE]]
  BY DEF IInv, PutsPart, Fill
<1>2. Len(puts) \in 1 .. Len(puts)
  BY <1>1, EmptySeq
<1>3. puts[Len(puts)] \in PutFrame
  BY <1>1, <1>2, ElementOfSeq
<1>4. /\ [puts[Len(puts)] EXCEPT !.written = TRUE] \in PutFrame
      /\ [puts[Len(puts)] EXCEPT !.written = TRUE].last = puts[Len(puts)].last
  BY <1>3 DEF PutFrame
<1>5. /\ puts' \in Seq(PutFrame) /\ Len(puts') = Len(puts)
      /\ \A j \in 1 .. Len(puts) : puts'[j].last = puts[j].last
  BY <1>1, <1>2, <1>4, ExceptSeq
<1>6. PutsPart'
  BY <1>1, <1>2, <1>5 DEF IInv, PutsPart, PutSlot
<1>7. GetsPart' /\ Room'
  BY <1>1 DEF IInv, GetsPart, GetSlot, Room
<1> QED
  BY <1>6, <1>7 DEF IInv

(* The put that ends is the last of the stack: when it is also the first,   *)
(* none is left and everything claimed is published.                        *)
LEMMA Published ==
    ASSUME IInv, ItemPut
    PROVE  IInv'
<1>1. /\ puts # <<>> /\ puts \in Seq(PutFrame) /\ puts' = Front(puts)
      /\ head' = head /\ gets' = gets
      /\ tail' = IF Last(puts).last.wr = Last(puts).last.rd
                   THEN [tail EXCEPT !.rd = tail.wr] ELSE tail
  BY DEF IInv, PutsPart, ItemPut
<1>2. /\ puts' \in Seq(PutFrame)
      /\ Len(puts) \in Nat \ {0} /\ Len(puts') = Len(puts) - 1
      /\ \A i \in 1 .. Len(puts) - 1 : puts'[i] = puts[i]
      /\ Last(puts) = puts[Len(puts)] /\ Last(puts) \in PutFrame
  BY <1>1, Popped
<1>3. GetsPart'
  BY <1>1 DEF IInv, GetsPart, GetSlot
<1>4. CASE Last(puts).last.wr = Last(puts).last.rd
  <2>2. Len(puts) = 1
    BY <1>1, <1>4, OutermostPut
  <2>3. tail' \in PosTag /\ tail'.wr = tail.wr /\ tail'.rd = tail.wr
    BY <1>1, <1>4 DEF IInv, PutsPart, PosTag
  <2>4. PutsPart'
    BY <1>2, <2>2, <2>3 DEF PutsPart
  <2>5. Room'
    <3>1. Dist(tail.wr, tail.wr) = 0
      BY Placed, DistType
    <3> QED
      BY <1>1, <2>3, <3>1, Placed DEF IInv, Room
  <2> QED
    BY <1>3, <2>4, <2>5 DEF IInv
<1>5. CASE Last(puts).last.wr # Last(puts).last.rd
  <2>1. tail' = tail
    BY <1>1, <1>5
  <2>2. Len(puts) # 1
    BY <1>2, <1>5 DEF IInv, PutsPart, PutSlot
  <2>3. PutsPart'
    BY <1>2, <2>1, <2>2 DEF IInv, PutsPart, PutSlot
  <2>4. Room'
    BY <1>1, <2>1 DEF IInv, Room
  <2> QED
    BY <1>3, <2>3, <2>4 DEF IInv
<1> QED
  BY <1>4, <1>5

(* A get takes the slot at head.rd, which is short of tail.rd.              *)
LEMMA Got ==
    ASSUME IInv, ItemGet
    PROVE  IInv'
<1>1. /\ tail' = tail /\ puts' = puts /\ gets' = Append(gets, head)
      /\ head' = [wr |-> head.wr, rd |-> NextPos(head.rd)] /\ head.rd # tail.rd
  BY DEF ItemGet, IInv, GetsPart, PosTag
<1>2. /\ NextPos(head.rd) \in Positions
      /\ Dist(NextPos(head.rd), tail.rd) = Dist(head.rd, tail.rd) - 1
      /\ Dist(head.wr, NextPos(head.rd)) = Dist(head.wr, head.rd) + 1
  BY <1>1, TakenMore
<1>3. Dist(head.wr, NextPos(head.rd)) = Dist(head.wr, head.rd) + 1
  BY <1>2
<1>4. head' \in PosTag /\ head'.wr = head.wr /\ head'.rd = NextPos(head.rd)
  BY <1>1, <1>2, Placed DEF PosTag
<1>5. /\ gets' \in Seq(PosTag)
      /\ Len(gets) \in Nat /\ Len(gets') = Len(gets) + 1
      /\ \A i \in 1 .. Len(gets) : gets'[i] = gets[i]
      /\ gets'[Len(gets) + 1] = head
  BY <1>1, Pushed DEF IInv, GetsPart
<1>6. PutsPart'
  BY <1>1 DEF IInv, PutsPart, PutSlot
<1>7. GetsPart'
  <2>1. \A i \in 1 .. Len(gets) :
          /\ Dist(head.wr, GetSlot(i)) < Dist(head.wr, head.rd)
          /\ Dist(head.wr, GetSlot(i)) \in Nat
    <3>1. \A i \in 1 .. Len(gets) : gets[i] \in PosTag
      BY ElementOfSeq DEF IInv, GetsPart
    <3>2. \A i \in 1 .. Len(gets) : GetSlot(i) \in Positions
      BY <3>1 DEF PosTag, GetSlot
    <3> QED
      BY <3>2, Placed, DistType DEF IInv, GetsPart
  <2>2. Dist(head.wr, head.rd) \in Nat
    BY Placed
  <2>3. ASSUME NEW i \in 1 .. Len(gets')
        PROVE  /\ gets'[i].wr = head'.wr
               /\ Dist(head'.wr, gets'[i].rd) < Dist(head'.wr, head'.rd)
    <3>1. CASE i \in 1 .. Len(gets)
      BY <3>1, <1>3, <1>4, <1>5, <2>1, <2>2 DEF IInv, GetsPart, GetSlot
    <3>2. CASE i = Len(gets) + 1
      BY <3>2, <1>3, <1>4, <1>5, <2>2
    <3> QED
      BY <3>1, <3>2, <1>5
  <2>4. ASSUME NEW i \in 1 .. Len(gets'), NEW j \in 1 .. Len(gets'), i < j
        PROVE  Dist(head'.wr, gets'[i].rd) < Dist(head'.wr, gets'[j].rd)
    <3>1. i \in 1 .. Len(gets)
      BY <2>4, <1>5
    <3>2. CASE j \in 1 .. Len(gets)
      BY <3>1, <3>2, <2>4, <1>4, <1>5 DEF IInv, GetsPart, GetSlot
    <3>3. CASE j = Len(gets) + 1
      BY <3>1, <3>3, <2>1, <1>4, <1>5 DEF GetSlot
    <3> QED
      BY <3>2, <3>3, <1>5
  <2>5. Len(gets') # 0 /\ gets'[1].rd = head'.wr
    <3>1. CASE Len(gets) = 0
      BY <3>1, <1>4, <1>5 DEF IInv, GetsPart
    <3>2. CASE Len(gets) # 0
      BY <3>2, <1>4, <1>5 DEF IInv, GetsPart, GetSlot
    <3> QED
      BY <3>1, <3>2
  <2> QED
    BY <1>4, <1>5, <2>3, <2>4, <2>5 DEF GetsPart, GetSlot
<1>8. Room'
  BY <1>1, <1>2, <1>3, <1>4, Placed DEF IInv, Room
<1> QED
  BY <1>6, <1>7, <1>8 DEF IInv

(* The get that ends is the last of the stack: when it is also the first,   *)
(* every slot handed out comes free.                                        *)
LEMMA Freed ==
    ASSUME IInv, ItemFree
    PROVE  IInv'
<1>1. /\ gets # <<>> /\ gets \in Seq(PosTag) /\ gets' = Front(gets)
      /\ tail' = tail /\ puts' = puts
      /\ head' = IF Last(gets).wr = Last(gets).rd
                   THEN [head EXCEPT !.wr = head.rd] ELSE head
  BY DEF IInv, GetsPart, ItemFree
<1>2. /\ gets' \in Seq(PosTag)
      /\ Len(gets) \in Nat \ {0} /\ Len(gets') = Len(gets) - 1
      /\ \A i \in 1 .. Len(gets) - 1 : gets'[i] = gets[i]
      /\ Last(gets) = gets[Len(gets)] /\ Last(gets) \in PosTag
  BY <1>1, Popped
<1>3. PutsPart'
  BY <1>1 DEF IInv, PutsPart, PutSlot
<1>4. CASE Last(gets).wr = Last(gets).rd
  <2>2. Len(gets) = 1
    BY <1>1, <1>4, OutermostGet
  <2>3. head' \in PosTag /\ head'.wr = head.rd /\ head'.rd = head.rd
    BY <1>1, <1>4 DEF IInv, GetsPart, PosTag
  <2>4. GetsPart'
    BY <1>2, <2>2, <2>3 DEF GetsPart
  <2>5. Room'
    <3>1. Dist(head.rd, head.rd) = 0
      BY Placed, DistType
    <3> QED
      BY <1>1, <2>3, <3>1, Placed, SizeAssumption DEF IInv, Room
  <2> QED
    BY <1>3, <2>4, <2>5 DEF IInv
<1>5. CASE Last(gets).wr # Last(gets).rd
  <2>1. head' = head
    BY <1>1, <1>5
  <2>2. Len(gets) # 1
    BY <1>2, <1>5 DEF IInv, GetsPart, GetSlot
  <2>3. GetsPart'
    BY <1>2, <2>1, <2>2 DEF IInv, GetsPart, GetSlot
  <2>4. Room'
    BY <1>1, <2>1 DEF IInv, Room
  <2> QED
    BY <1>3, <2>3, <2>4 DEF IInv
<1> QED
  BY <1>4, <1>5

(* Emptying the ring keeps the slots that readers hold.                     *)
LEMMA Cleared ==
    ASSUME IInv, SpaceClear
    PROVE  IInv'
<1>1. /\ tail' = tail /\ puts' = puts /\ gets' = gets
      /\ head' = [wr |-> IF head.wr = head.rd THEN tail.rd ELSE head.wr, rd |-> tail.rd]
  BY DEF SpaceClear
<1>2. PutsPart'
  BY <1>1 DEF IInv, PutsPart, PutSlot
<1>3. Dist(tail.rd, tail.rd) = 0
  BY Placed, DistType
<1>4. CASE head.wr = head.rd
  <2>1. Dist(head.wr, head.rd) = 0
    BY <1>4, Placed, DistType
  <2>2. Len(gets) = 0
    <3> SUFFICES ASSUME Len(gets) # 0 PROVE FALSE
      OBVIOUS
    <3>1. Len(gets) \in Nat
      BY LenProperties DEF IInv, GetsPart
    <3>2. Dist(head.wr, GetSlot(1)) < Dist(head.wr, head.rd) /\ GetSlot(1) = head.wr
      BY <3>1 DEF IInv, GetsPart
    <3> QED
      BY <2>1, <3>2, <1>4
  <2>3. head' \in PosTag /\ head'.wr = tail.rd /\ head'.rd = tail.rd
    BY <1>1, <1>4, Placed DEF PosTag
  <2>4. GetsPart'
    BY <1>1, <2>2, <2>3 DEF IInv, GetsPart
  <2>5. Room'
    BY <1>1, <1>3, <2>3, Placed, SizeAssumption DEF IInv, Room
  <2> QED
    BY <1>2, <2>4, <2>5 DEF IInv
<1>5. CASE head.wr # head.rd
  <2>1. head' \in PosTag /\ head'.wr = head.wr /\ head'.rd = tail.rd
    BY <1>1, <1>5, Placed DEF PosTag
  <2>2. Len(gets) # 0
    BY <1>5 DEF IInv, GetsPart
  <2>3. \A i \in 1 .. Len(gets) : Dist(head.wr, GetSlot(i)) < Dist(head.wr, tail.rd)
    <3>1. \A i \in 1 .. Len(gets) : gets[i] \in PosTag
      BY ElementOfSeq DEF IInv, GetsPart
    <3>2. \A i \in 1 .. Len(gets) : Dist(head.wr, GetSlot(i)) \in Nat
      BY <3>1, Placed, DistType DEF PosTag, GetSlot
    <3> QED
      BY <3>2, Placed DEF IInv, GetsPart
  <2>4. GetsPart'
    BY <1>1, <2>1, <2>2, <2>3 DEF IInv, GetsPart, GetSlot
  <2>5. Room'
    BY <1>1, <1>3, <2>1, Placed DEF IInv, Room
  <2> QED
    BY <1>2, <2>4, <2>5 DEF IInv
<1> QED
  BY <1>4, <1>5

LEMMA Step == IInv /\ [Next]_vars => IInv'
<1> SUFFICES ASSUME IInv, [Next]_vars PROVE IInv'
  OBVIOUS
<1>1. ASSUME NEW x \in Items, ItemAlloc(x) PROVE IInv'
  BY <1>1, Alloc
<1>2. CASE Fill
  BY <1>2, Filled
<1>3. CASE ItemPut
  BY <1>3, Published
<1>4. CASE ItemGet
  BY <1>4, Got
<1>5. CASE ItemFree
  BY <1>5, Freed
<1>6. CASE SpaceClear
  BY <1>6, Cleared
<1>7. CASE UNCHANGED vars
  BY <1>7 DEF vars, IInv, PutsPart, GetsPart, Room, PutSlot, GetSlot
<1> QED
  BY <1>1, <1>2, <1>3, <1>4, <1>5, <1>6, <1>7 DEF Next

(* The slots in hand and the free slots keep their order round the ring.    *)
THEOREM RingInvariant == Spec => []IInv
<1> QED
  BY Start, Step, PTL DEF Spec

(* However puts and gets interrupt one another, no slot has two owners: the *)
(* exclusive accesses of nrf_atfifo_internal.h are enough to share the ring *)
(* without a lock.                                                          *)
THEOREM OneOwner == Spec => []SlotsOwned
<1> QED
  BY RingInvariant, Apart, PTL

(* What is being read, what is to be read and what is being filled never    *)
(* fill the ring: one slot stays free, so that a full ring is not taken for *)
(* an empty one (the comparison with head.wr in wspace_req).                *)
THEOREM OneSlotFree == Spec => []Room
<1>1. IInv => Room
  BY DEF IInv
<1> QED
  BY <1>1, RingInvariant, PTL

-----------------------------------------------------------------------------
(* The ring is a queue *)

\* The slots hold items, and a claimed slot holds, or is promised, the item of
\* its put.
BufPart == buf \in [Positions -> Items]
PromisedPart ==
    /\ Promised \in [Positions -> Items]
    /\ \A i \in 1 .. Len(puts) : ~puts[i].written => Promised[PutSlot(i)] = puts[i].item
    /\ \A p \in Positions :
         (\A i \in 1 .. Len(puts) : PutSlot(i) = p => puts[i].written) => Promised[p] = buf[p]
MapInv == IInv /\ BufPart /\ PromisedPart

(* The puts in hand, one slot each.                                         *)
LEMMA PutFrames ==
    ASSUME IInv
    PROVE  /\ DOMAIN puts = 1 .. Len(puts) /\ Len(puts) \in Nat
           /\ \A i \in 1 .. Len(puts) :
                puts[i] \in PutFrame /\ puts[i].item \in Items /\ PutSlot(i) \in Positions
           /\ \A i, j \in 1 .. Len(puts) : PutSlot(i) = PutSlot(j) => i = j
<1>1. /\ DOMAIN puts = 1 .. Len(puts) /\ Len(puts) \in Nat
      /\ \A i \in 1 .. Len(puts) : puts[i] \in PutFrame
  BY LenProperties, ElementOfSeq DEF IInv, PutsPart
<1>2. \A i \in 1 .. Len(puts) : puts[i].item \in Items /\ PutSlot(i) \in Positions
  BY <1>1 DEF PutFrame, PosTag, PutSlot
<1>3. \A i, j \in 1 .. Len(puts) : PutSlot(i) = PutSlot(j) => i = j
  BY <1>1, Apart DEF SlotsOwned
<1> QED
  BY <1>1, <1>2, <1>3

(* What Promised is follows from the rest.                                  *)
LEMMA PromisesKnown == IInv /\ BufPart => PromisedPart
<1> SUFFICES ASSUME IInv, BufPart PROVE PromisedPart
  OBVIOUS
<1>1. ASSUME NEW p \in Positions
      PROVE  /\ Waiting(p) \subseteq 1 .. Len(puts)
             /\ Promised[p] = IF Waiting(p) = {} THEN buf[p]
                              ELSE puts[CHOOSE i \in Waiting(p) : TRUE].item
             /\ Waiting(p) # {} => (CHOOSE i \in Waiting(p) : TRUE) \in Waiting(p)
  BY PutFrames DEF Waiting, Promised
<1>2. ASSUME NEW p \in Positions
      PROVE  (IF Waiting(p) = {} THEN buf[p]
              ELSE puts[CHOOSE i \in Waiting(p) : TRUE].item) \in Items
  <2>1. CASE Waiting(p) = {}
    BY <2>1 DEF BufPart
  <2>2. CASE Waiting(p) # {}
    <3>1. (CHOOSE i \in Waiting(p) : TRUE) \in 1 .. Len(puts)
      BY <1>1, <2>2
    <3> QED
      BY <2>2, <3>1, PutFrames
  <2> QED
    BY <2>1, <2>2
<1>3. Promised \in [Positions -> Items]
  BY <1>2 DEF Promised
<1>4. ASSUME NEW i \in 1 .. Len(puts), ~puts[i].written
      PROVE  Promised[PutSlot(i)] = puts[i].item
  <2>1. PutSlot(i) \in Positions
    BY PutFrames
  <2>2. i \in Waiting(PutSlot(i))
    BY <1>4, PutFrames DEF Waiting
  <2>3. \A j \in Waiting(PutSlot(i)) : j = i
    BY PutFrames DEF Waiting
  <2> QED
    BY <1>1, <2>1, <2>2, <2>3
<1>5. ASSUME NEW p \in Positions,
             \A i \in 1 .. Len(puts) : PutSlot(i) = p => puts[i].written
      PROVE  Promised[p] = buf[p]
  <2>1. Waiting(p) = {}
    BY <1>5, PutFrames DEF Waiting
  <2> QED
    BY <1>1, <2>1
<1> QED
  BY <1>3, <1>4, <1>5 DEF PromisedPart

(* The slots hold items from the start and always.                          *)
LEMMA BufStart == Init => BufPart
BY ItemsAssumption DEF Init, BufPart

LEMMA BufStep == IInv /\ BufPart /\ [Next]_vars => BufPart'
<1> SUFFICES ASSUME IInv, BufPart, [Next]_vars PROVE BufPart'
  OBVIOUS
<1>1. CASE Fill
  <2>1. Len(puts) \in 1 .. Len(puts) /\ Last(puts) = puts[Len(puts)]
    <3>1. puts # <<>> /\ puts \in Seq(PutFrame)
      BY <1>1 DEF Fill, IInv, PutsPart
    <3>2. Len(puts) \in Nat \ {0} /\ Last(puts) = puts[Len(puts)]
      BY <3>1, Popped
    <3>3. Len(puts) \in Nat /\ 1 <= Len(puts) /\ Len(puts) <= Len(puts)
      BY <3>2
    <3> QED
      BY <3>2, <3>3
  <2>2. Last(puts).item \in Items /\ Last(puts).last.wr \in Positions
    BY <2>1, PutFrames DEF PutSlot
  <2> QED
    BY <1>1, <2>2 DEF Fill, BufPart
<1>2. CASE UNCHANGED buf
  BY <1>2 DEF BufPart
<1> QED
  BY <1>1, <1>2 DEF Next, ItemAlloc, ItemPut, ItemGet, ItemFree, SpaceClear, vars

(* The lengths of the three arcs, and of the sequences they stand for.      *)
LEMMA MapTypes ==
    ASSUME MapInv
    PROVE  /\ Queue!vars = <<Run(head.rd, Dist(head.rd, tail.rd), buf),
                             Run(tail.rd, Dist(tail.rd, tail.wr), Promised),
                             Run(head.wr, Dist(head.wr, head.rd), buf)>>
           /\ Dist(head.rd, tail.rd) < Size /\ Dist(tail.rd, tail.wr) < Size
           /\ Dist(head.wr, head.rd) < Size /\ Dist(head.wr, tail.wr) < Size
           /\ Len(Run(head.rd, Dist(head.rd, tail.rd), buf)) = Dist(head.rd, tail.rd)
           /\ Len(Run(tail.rd, Dist(tail.rd, tail.wr), Promised)) = Dist(tail.rd, tail.wr)
           /\ Len(Run(head.wr, Dist(head.wr, head.rd), buf)) = Dist(head.wr, head.rd)
<1>1. /\ Dist(head.rd, tail.rd) < Size /\ Dist(tail.rd, tail.wr) < Size
      /\ Dist(head.wr, head.rd) < Size /\ Dist(head.wr, tail.wr) < Size
  BY Placed, DistType DEF MapInv
<1>2. /\ Dist(head.rd, tail.rd) <= Size /\ Dist(tail.rd, tail.wr) <= Size
      /\ Dist(head.wr, head.rd) <= Size
  BY <1>1, Placed, SizeAssumption DEF MapInv
<1>3. Len(Run(head.rd, Dist(head.rd, tail.rd), buf)) = Dist(head.rd, tail.rd)
  BY <1>2, Placed, RunType DEF MapInv, BufPart
<1>4. Len(Run(tail.rd, Dist(tail.rd, tail.wr), Promised)) = Dist(tail.rd, tail.wr)
  BY <1>2, Placed, RunType DEF MapInv, PromisedPart
<1>5. Len(Run(head.wr, Dist(head.wr, head.rd), buf)) = Dist(head.wr, head.rd)
  BY <1>2, Placed, RunType DEF MapInv, BufPart
<1> QED
  BY <1>1, <1>3, <1>4, <1>5 DEF Queue!vars

(* A claim adds its item to those claimed.                                  *)
LEMMA MapAlloc ==
    ASSUME MapInv, MapInv', NEW x \in Items, ItemAlloc(x)
    PROVE  Queue!Claim(x)
<1>1. /\ head' = head /\ buf' = buf /\ tail'.wr = NextPos(tail.wr) /\ tail'.rd = tail.rd
      /\ puts' = Append(puts, [last |-> tail, item |-> x, written |-> FALSE])
      /\ NextPos(tail.wr) # head.wr
  BY DEF ItemAlloc, MapInv, IInv, PutsPart, PosTag
<1>2. /\ Len(puts) \in Nat /\ Len(puts') = Len(puts) + 1
      /\ \A i \in 1 .. Len(puts) : puts'[i] = puts[i]
      /\ puts'[Len(puts) + 1] = [last |-> tail, item |-> x, written |-> FALSE]
  <2>1. [last |-> tail, item |-> x, written |-> FALSE] \in PutFrame /\ puts \in Seq(PutFrame)
    BY DEF PutFrame, MapInv, IInv, PutsPart
  <2> QED
    BY <1>1, <2>1, Pushed
<1> DEFINE d == Dist(tail.rd, tail.wr)
<1>3. /\ NextPos(tail.wr) \in Positions /\ d \in Nat /\ d + 1 < Size /\ d < Size
      /\ Dist(head.wr, NextPos(tail.wr)) = Dist(head.wr, tail.wr) + 1
      /\ Dist(head.wr, NextPos(tail.wr)) < Size
      /\ Dist(tail.rd, NextPos(tail.wr)) = d + 1
  <2>1. /\ NextPos(tail.wr) \in Positions
        /\ Dist(head.wr, NextPos(tail.wr)) = Dist(head.wr, tail.wr) + 1
        /\ Dist(tail.rd, NextPos(tail.wr)) = d + 1
    BY <1>1, ClaimedMore DEF MapInv
  <2>2. /\ Dist(head.wr, NextPos(tail.wr)) < Size /\ Dist(tail.rd, NextPos(tail.wr)) < Size
        /\ d \in Nat /\ d < Size
    BY <2>1, Placed, DistType DEF MapInv
  <2> QED
    BY <2>1, <2>2
<1>4. \A q \in Positions : Dist(tail.rd, q) < d => Promised'[q] = Promised[q]
  <2> SUFFICES ASSUME NEW q \in Positions, Dist(tail.rd, q) < d
               PROVE  Promised'[q] = Promised[q]
    OBVIOUS
  <2>1. q # tail.wr
    BY <1>3
  <2>2. CASE \E i \in 1 .. Len(puts) : PutSlot(i) = q /\ ~puts[i].written
    <3>1. PICK i \in 1 .. Len(puts) : PutSlot(i) = q /\ ~puts[i].written
      BY <2>2
    <3>2. i \in 1 .. Len(puts') /\ PutSlot(i)' = q /\ ~puts'[i].written
      BY <1>2, <3>1 DEF PutSlot
    <3>3. Promised[q] = puts[i].item
      BY <3>1 DEF MapInv, PromisedPart
    <3>4. Promised'[q] = puts'[i].item
      BY <3>2 DEF MapInv, PromisedPart
    <3> QED
      BY <1>2, <3>3, <3>4
  <2>3. CASE \A i \in 1 .. Len(puts) : PutSlot(i) = q => puts[i].written
    <3>1. ASSUME NEW i \in 1 .. Len(puts'), PutSlot(i)' = q PROVE puts'[i].written
      <4>1. CASE i \in 1 .. Len(puts)
        BY <1>2, <2>3, <3>1, <4>1 DEF PutSlot
      <4>2. CASE i = Len(puts) + 1
        BY <1>2, <2>1, <3>1, <4>2 DEF PutSlot
      <4> QED
        BY <1>2, <4>1, <4>2
    <3>2. Promised[q] = buf[q]
      BY <2>3 DEF MapInv, PromisedPart
    <3>3. Promised'[q] = buf'[q]
      BY <3>1 DEF MapInv, PromisedPart
    <3> QED
      BY <1>1, <3>2, <3>3
  <2> QED
    BY <2>2, <2>3
<1>5. Promised'[tail.wr] = x
  <2>1. PICK k \in Nat : k = Len(puts) + 1
    BY <1>2
  <2>2. k \in 1 .. Len(puts') /\ ~puts'[k].written /\ puts'[k].item = x
        /\ PutSlot(k)' = tail.wr
    BY <1>2, <2>1 DEF PutSlot
  <2>3. Promised'[PutSlot(k)'] = puts'[k].item
    BY <2>2 DEF MapInv, PromisedPart
  <2> QED
    BY <2>2, <2>3
<1>6. Run(tail.rd, d + 1, Promised') = Append(Run(tail.rd, d, Promised), x)
  <2>1. Run(tail.rd, d, Promised') = Run(tail.rd, d, Promised)
    <3> HIDE DEF d
    <3> QED
      BY <1>3, <1>4, Placed, RunSame DEF MapInv
  <2>2. Promised' \in [Positions -> Items]
    BY DEF MapInv, PromisedPart
  <2>3. Run(tail.rd, d + 1, Promised') = Append(Run(tail.rd, d, Promised'), Promised'[tail.wr])
    BY <1>3, <2>2, Placed, RunAppend DEF MapInv
  <2> QED
    BY <1>5, <2>1, <2>3
<1>7. Dist(head.rd, tail.rd) + d + Dist(head.wr, head.rd) < Size - 1
  BY <1>3, Placed, SizeAssumption DEF MapInv
<1> QED
  BY <1>1, <1>3, <1>6, <1>7, MapTypes DEF Queue!Claim

(* Filling a slot keeps the promise, and shows nowhere else.                *)
LEMMA MapFill ==
    ASSUME MapInv, MapInv', Fill
    PROVE  UNCHANGED Queue!vars
<1> DEFINE n == Len(puts)
<1>1. /\ puts # <<>> /\ puts \in Seq(PutFrame)
      /\ tail' = tail /\ head' = head
      /\ ~Last(puts).written
      /\ buf' = [buf EXCEPT ![Last(puts).last.wr] = Last(puts).item]
      /\ puts' = [puts EXCEPT ![n] = [puts[n] EXCEPT !.written = TRUE]]
  BY DEF MapInv, IInv, PutsPart, Fill
<1>2. n \in Nat \ {0} /\ Last(puts) = puts[n]
  BY <1>1, Popped
<1>3. n \in 1 .. n
  <2> HIDE DEF n
  <2> QED
    BY <1>2
<1>4. /\ puts[n] \in PutFrame /\ PutSlot(n) \in Positions
      /\ \A i, j \in 1 .. n : PutSlot(i) = PutSlot(j) => i = j
  BY <1>3, PutFrames DEF MapInv
<1>5. /\ [puts[n] EXCEPT !.written = TRUE] \in PutFrame
      /\ [puts[n] EXCEPT !.written = TRUE].last = puts[n].last
      /\ [puts[n] EXCEPT !.written = TRUE].item = puts[n].item
      /\ [puts[n] EXCEPT !.written = TRUE].written
  BY <1>4 DEF PutFrame
<1>6. /\ Len(puts') = n /\ puts'[n].last = puts[n].last /\ puts'[n].written
      /\ \A i \in 1 .. n : i # n => puts'[i] = puts[i]
  BY <1>1, <1>3, <1>5, ExceptSeq
<1>7. /\ buf'[PutSlot(n)] = puts[n].item
      /\ \A q \in Positions : q # PutSlot(n) => buf'[q] = buf[q]
  BY <1>1, <1>2, <1>4 DEF MapInv, BufPart, PutSlot
<1>8. ASSUME NEW q \in Positions PROVE Promised'[q] = Promised[q]
  <2>1. CASE q = PutSlot(n)
    <3>1. Promised[q] = puts[n].item
      BY <1>1, <1>2, <1>3, <2>1 DEF MapInv, PromisedPart
    <3>2. ASSUME NEW i \in 1 .. Len(puts'), PutSlot(i)' = q PROVE puts'[i].written
      <4>1. CASE i = n
        BY <1>6, <4>1
      <4>2. CASE i # n
        BY <1>3, <1>4, <1>6, <2>1, <3>2, <4>2 DEF PutSlot
      <4> QED
        BY <4>1, <4>2
    <3>3. Promised'[q] = buf'[q]
      BY <3>2 DEF MapInv, PromisedPart
    <3> QED
      BY <1>7, <2>1, <3>1, <3>3
  <2>2. CASE q # PutSlot(n) /\ \E i \in 1 .. n : PutSlot(i) = q /\ ~puts[i].written
    <3>1. PICK i \in 1 .. n : PutSlot(i) = q /\ ~puts[i].written
      BY <2>2
    <3>2. i # n /\ i \in 1 .. Len(puts') /\ PutSlot(i)' = q /\ ~puts'[i].written
      BY <1>6, <2>2, <3>1 DEF PutSlot
    <3>3. Promised[q] = puts[i].item
      BY <3>1 DEF MapInv, PromisedPart
    <3>4. Promised'[q] = puts'[i].item
      BY <3>2 DEF MapInv, PromisedPart
    <3> QED
      BY <1>6, <3>2, <3>3, <3>4
  <2>3. CASE q # PutSlot(n) /\ \A i \in 1 .. n : PutSlot(i) = q => puts[i].written
    <3>1. ASSUME NEW i \in 1 .. Len(puts'), PutSlot(i)' = q PROVE puts'[i].written
      BY <1>6, <2>3, <3>1 DEF PutSlot
    <3>2. Promised[q] = buf[q]
      BY <2>3 DEF MapInv, PromisedPart
    <3>3. Promised'[q] = buf'[q]
      BY <3>1 DEF MapInv, PromisedPart
    <3> QED
      BY <1>7, <2>3, <3>2, <3>3
  <2> QED
    BY <2>1, <2>2, <2>3
<1>9. Run(tail.rd, Dist(tail.rd, tail.wr), Promised') = Run(tail.rd, Dist(tail.rd, tail.wr), Promised)
  <2>1. /\ tail.rd \in Positions /\ Dist(tail.rd, tail.wr) \in Nat
        /\ Dist(tail.rd, tail.wr) < Size
    BY MapTypes, Placed DEF MapInv
  <2> QED
    BY <1>8, <2>1, RunSame
<1>10. \A q \in Positions : Dist(head.wr, q) < Dist(head.wr, tail.rd) => buf'[q] = buf[q]
  <2>1. PutSlot(n) \notin Arc(head.wr, tail.rd)
    BY <1>3, Apart, PutFrames DEF MapInv, SlotsOwned
  <2> QED
    BY <1>7, <2>1 DEF Arc
<1>11. Run(head.rd, Dist(head.rd, tail.rd), buf') = Run(head.rd, Dist(head.rd, tail.rd), buf)
  <2>1. ASSUME NEW q \in Positions, Dist(head.rd, q) < Dist(head.rd, tail.rd)
        PROVE  Dist(head.wr, q) < Dist(head.wr, tail.rd)
    <3>1. /\ Dist(head.rd, q) \in Nat
          /\ Dist(head.wr, tail.rd) = Dist(head.wr, head.rd) + Dist(head.rd, tail.rd)
          /\ Dist(head.wr, tail.rd) < Size
          /\ Dist(head.wr, head.rd) \in Nat /\ Dist(head.rd, tail.rd) \in Nat
      BY Placed, DistType DEF MapInv
    <3>2. Dist(head.wr, head.rd) + Dist(head.rd, q) < Size
      BY <2>1, <3>1, SizeAssumption
    <3>3. Dist(head.wr, q) = Dist(head.wr, head.rd) + Dist(head.rd, q)
      BY <3>2, Placed, DistSum DEF MapInv
    <3> QED
      BY <2>1, <3>1, <3>3
  <2>2. \A q \in Positions : Dist(head.rd, q) < Dist(head.rd, tail.rd) => buf'[q] = buf[q]
    BY <1>10, <2>1
  <2>3. /\ head.rd \in Positions /\ Dist(head.rd, tail.rd) \in Nat
        /\ Dist(head.rd, tail.rd) < Size
    BY MapTypes, Placed DEF MapInv
  <2> QED
    BY <2>2, <2>3, RunSame
<1>12. Run(head.wr, Dist(head.wr, head.rd), buf') = Run(head.wr, Dist(head.wr, head.rd), buf)
  <2>1. ASSUME NEW q \in Positions, Dist(head.wr, q) < Dist(head.wr, head.rd)
        PROVE  Dist(head.wr, q) < Dist(head.wr, tail.rd)
    <3>1. Dist(head.wr, q) \in Nat
      BY Placed, DistType DEF MapInv
    <3> QED
      BY <2>1, <3>1, Placed DEF MapInv
  <2>2. \A q \in Positions : Dist(head.wr, q) < Dist(head.wr, head.rd) => buf'[q] = buf[q]
    BY <1>10, <2>1
  <2>3. /\ head.wr \in Positions /\ Dist(head.wr, head.rd) \in Nat
        /\ Dist(head.wr, head.rd) < Size
    BY MapTypes, Placed DEF MapInv
  <2> QED
    BY <2>2, <2>3, RunSame
<1> QED
  BY <1>1, <1>9, <1>11, <1>12 DEF Queue!vars

(* The outermost put publishes what is claimed, another one nothing.        *)
LEMMA MapPut ==
    ASSUME MapInv, MapInv', ItemPut
    PROVE  Queue!Publish \/ UNCHANGED Queue!vars
<1> DEFINE n == Len(puts)
<1>1. /\ puts # <<>> /\ puts \in Seq(PutFrame) /\ puts' = Front(puts) /\ Last(puts).written
      /\ head' = head /\ buf' = buf
      /\ tail' = IF Last(puts).last.wr = Last(puts).last.rd
                   THEN [tail EXCEPT !.rd = tail.wr] ELSE tail
  BY DEF MapInv, IInv, PutsPart, ItemPut
<1>2. /\ n \in Nat \ {0} /\ Len(puts') = n - 1 /\ Last(puts) = puts[n]
      /\ \A i \in 1 .. n - 1 : puts'[i] = puts[i]
  BY <1>1, Popped
<1>3. Last(puts).last.wr = Last(puts).last.rd <=> n = 1
  BY <1>1, OutermostPut DEF MapInv
<1>4. UNCHANGED Run(head.wr, Dist(head.wr, head.rd), buf)
  BY <1>1
<1>5. CASE n = 1
  <2>1. tail'.wr = tail.wr /\ tail'.rd = tail.wr
    BY <1>1, <1>3, <1>5 DEF MapInv, IInv, PutsPart, PosTag
  <2>2. ASSUME NEW q \in Positions PROVE Promised[q] = buf[q]
    <3>1. \A i \in 1 .. Len(puts) : puts[i].written
      BY <1>1, <1>2, <1>5
    <3> QED
      BY <3>1 DEF MapInv, PromisedPart
  <2>3. Run(tail.rd, Dist(tail.rd, tail.wr), buf) = Run(tail.rd, Dist(tail.rd, tail.wr), Promised)
    BY <2>2, MapTypes, Placed, RunSame DEF MapInv
  <2>4. Run(head.rd, Dist(head.rd, tail.wr), buf)
          = Run(head.rd, Dist(head.rd, tail.rd), buf) \o Run(tail.rd, Dist(tail.rd, tail.wr), buf)
    <3>1. Dist(head.rd, tail.rd) + Dist(tail.rd, tail.wr) < Size
      BY Placed, DistType DEF MapInv
    <3>2. buf \in [Positions -> Items]
      BY DEF MapInv, BufPart
    <3> QED
      BY <3>1, <3>2, Placed, RunJoined DEF MapInv
  <2>5. Run(tail.rd, Dist(tail.rd, tail.wr), Promised) # <<>>
    <3>1. 1 \in 1 .. Len(puts)
      BY <1>5
    <3>2. Dist(tail.rd, PutSlot(1)) < Dist(tail.rd, tail.wr)
      BY <3>1 DEF MapInv, IInv, PutsPart
    <3>3. Dist(tail.rd, PutSlot(1)) \in Nat
      BY <3>1, Placed, PutFrames, DistType DEF MapInv
    <3>4. Dist(tail.rd, tail.wr) # 0 /\ Len(<<>>) = 0
      BY <3>2, <3>3, Placed DEF MapInv
    <3> QED
      BY <3>4, MapTypes
  <2>6. Dist(tail.wr, tail.wr) = 0
    BY Placed, DistType DEF MapInv
  <2>7. Run(tail'.rd, Dist(tail'.rd, tail'.wr), Promised') = <<>>
    BY <2>1, <2>6, RunEmpty
  <2>8. Run(head'.rd, Dist(head'.rd, tail'.rd), buf')
          = Run(head.rd, Dist(head.rd, tail.rd), buf) \o Run(tail.rd, Dist(tail.rd, tail.wr), Promised)
    BY <1>1, <2>1, <2>3, <2>4
  <2> QED
    BY <1>4, <2>5, <2>7, <2>8 DEF Queue!Publish
<1>6. CASE n # 1
  <2>1. tail' = tail
    BY <1>1, <1>3, <1>6
  <2>2. ASSUME NEW q \in Positions PROVE Promised'[q] = Promised[q]
    <3>1. CASE \E i \in 1 .. n : PutSlot(i) = q /\ ~puts[i].written
      <4>1. PICK i \in 1 .. n : PutSlot(i) = q /\ ~puts[i].written
        BY <3>1
      <4>2. i \in 1 .. n - 1
        BY <1>1, <1>2, <4>1
      <4>3. i \in 1 .. Len(puts') /\ PutSlot(i)' = q /\ ~puts'[i].written
        BY <1>2, <4>1, <4>2 DEF PutSlot
      <4>4. Promised[q] = puts[i].item
        BY <4>1 DEF MapInv, PromisedPart
      <4>5. Promised'[q] = puts'[i].item
        BY <4>3 DEF MapInv, PromisedPart
      <4> QED
        BY <1>2, <4>2, <4>4, <4>5
    <3>2. CASE \A i \in 1 .. n : PutSlot(i) = q => puts[i].written
      <4>1. ASSUME NEW i \in 1 .. Len(puts'), PutSlot(i)' = q PROVE puts'[i].written
        <5>1. i \in 1 .. n - 1 /\ i \in 1 .. n
          BY <1>2
        <5> QED
          BY <1>2, <3>2, <4>1, <5>1 DEF PutSlot
      <4>2. Promised[q] = buf[q]
        BY <3>2 DEF MapInv, PromisedPart
      <4>3. Promised'[q] = buf'[q]
        BY <4>1 DEF MapInv, PromisedPart
      <4> QED
        BY <1>1, <4>2, <4>3
    <3> QED
      BY <3>1, <3>2
  <2>3. Run(tail.rd, Dist(tail.rd, tail.wr), Promised') = Run(tail.rd, Dist(tail.rd, tail.wr), Promised)
    BY <2>2, MapTypes, Placed, RunSame DEF MapInv
  <2> QED
    BY <1>1, <1>4, <2>1, <2>3 DEF Queue!vars
<1> QED
  BY <1>5, <1>6

(* A get takes the oldest item.                                             *)
LEMMA MapGet ==
    ASSUME MapInv, MapInv', ItemGet
    PROVE  Queue!Take
<1>1. /\ tail' = tail /\ puts' = puts /\ buf' = buf
      /\ head'.wr = head.wr /\ head'.rd = NextPos(head.rd) /\ head.rd # tail.rd
  BY DEF ItemGet, MapInv, IInv, GetsPart, PosTag
<1>2. buf \in [Positions -> Items]
  BY DEF MapInv, BufPart
<1>3. /\ NextPos(head.rd) \in Positions
      /\ Dist(NextPos(head.rd), tail.rd) = Dist(head.rd, tail.rd) - 1
      /\ Dist(head.wr, NextPos(head.rd)) = Dist(head.wr, head.rd) + 1
      /\ Dist(head.wr, head.rd) + 1 < Size
      /\ Dist(head.rd, tail.rd) \in Nat \ {0} /\ Dist(head.rd, tail.rd) < Size
  <2>1. /\ NextPos(head.rd) \in Positions
        /\ Dist(NextPos(head.rd), tail.rd) = Dist(head.rd, tail.rd) - 1
        /\ Dist(head.wr, NextPos(head.rd)) = Dist(head.wr, head.rd) + 1
    BY <1>1, TakenMore DEF MapInv
  <2>2. Dist(head.wr, NextPos(head.rd)) < Size
    BY <2>1, Placed, DistType DEF MapInv
  <2>3. Dist(head.rd, tail.rd) \in Nat /\ Dist(head.rd, tail.rd) # 0 /\ Dist(head.rd, tail.rd) < Size
    BY <1>1, Placed, DistType DEF MapInv
  <2> QED
    BY <2>1, <2>2, <2>3
<1>4. /\ Run(head.rd, Dist(head.rd, tail.rd), buf) # <<>>
      /\ Head(Run(head.rd, Dist(head.rd, tail.rd), buf)) = buf[head.rd]
      /\ Tail(Run(head.rd, Dist(head.rd, tail.rd), buf))
           = Run(NextPos(head.rd), Dist(head.rd, tail.rd) - 1, buf)
  BY <1>2, <1>3, Placed, RunTail DEF MapInv
<1>5. Run(head.wr, Dist(head.wr, head.rd) + 1, buf)
        = Append(Run(head.wr, Dist(head.wr, head.rd), buf), buf[head.rd])
  BY <1>2, <1>3, Placed, RunAppend DEF MapInv
<1>6. Promised' = Promised
  BY <1>1 DEF Promised, Waiting, PutSlot
<1> QED
  BY <1>1, <1>3, <1>4, <1>5, <1>6 DEF Queue!Take

(* The outermost get gives everything taken back, another one nothing.      *)
LEMMA MapFree ==
    ASSUME MapInv, MapInv', ItemFree
    PROVE  Queue!Release \/ UNCHANGED Queue!vars
<1>1. /\ gets # <<>> /\ tail' = tail /\ puts' = puts /\ buf' = buf
      /\ head' = IF Last(gets).wr = Last(gets).rd THEN [head EXCEPT !.wr = head.rd] ELSE head
  BY DEF ItemFree
<1>2. Last(gets).wr = Last(gets).rd <=> Len(gets) = 1
  BY <1>1, OutermostGet DEF MapInv
<1>3. Promised' = Promised
  BY <1>1 DEF Promised, Waiting, PutSlot
<1>4. CASE Len(gets) = 1
  <2>1. head'.wr = head.rd /\ head'.rd = head.rd
    BY <1>1, <1>2, <1>4 DEF MapInv, IInv, GetsPart, PosTag
  <2>2. Run(head.wr, Dist(head.wr, head.rd), buf) # <<>>
    <3>1. 1 \in 1 .. Len(gets) /\ gets[1] \in PosTag
      <4>1. 1 \in 1 .. Len(gets) /\ gets \in Seq(PosTag)
        BY <1>4 DEF MapInv, IInv, GetsPart
      <4> QED
        BY <4>1, ElementOfSeq
    <3>2. Dist(head.wr, GetSlot(1)) < Dist(head.wr, head.rd) /\ GetSlot(1) \in Positions
      BY <3>1 DEF MapInv, IInv, GetsPart, GetSlot, PosTag
    <3>3. Dist(head.wr, GetSlot(1)) \in Nat
      BY <3>2, Placed, DistType DEF MapInv
    <3>4. Dist(head.wr, head.rd) # 0 /\ Len(<<>>) = 0
      BY <3>2, <3>3, Placed DEF MapInv
    <3> QED
      BY <3>4, MapTypes
  <2>3. Dist(head.rd, head.rd) = 0
    BY Placed, DistType DEF MapInv
  <2>4. Run(head'.wr, Dist(head'.wr, head'.rd), buf') = <<>>
    BY <2>1, <2>3, RunEmpty
  <2> QED
    BY <1>1, <1>3, <2>1, <2>2, <2>4 DEF Queue!Release
<1>5. CASE Len(gets) # 1
  BY <1>1, <1>2, <1>3, <1>5 DEF Queue!vars
<1> QED
  BY <1>4, <1>5

(* Clearing drops the queue, and keeps its slots while a get is open.       *)
LEMMA MapClear ==
    ASSUME MapInv, MapInv', SpaceClear
    PROVE  Queue!Clear
<1>1. /\ tail' = tail /\ puts' = puts /\ buf' = buf
      /\ head' = [wr |-> IF head.wr = head.rd THEN tail.rd ELSE head.wr, rd |-> tail.rd]
  BY DEF SpaceClear
<1>2. buf \in [Positions -> Items]
  BY DEF MapInv, BufPart
<1>3. Promised' = Promised
  BY <1>1 DEF Promised, Waiting, PutSlot
<1>4. Dist(tail.rd, tail.rd) = 0 /\ \A f, p : Run(p, 0, f) = <<>>
  BY Placed, DistType, RunEmpty DEF MapInv
<1>5. Run(head'.rd, Dist(head'.rd, tail'.rd), buf') = <<>>
  BY <1>1, <1>4
<1>6. CASE head.wr = head.rd
  <2>1. Dist(head.wr, head.rd) = 0
    BY <1>6, Placed, DistType DEF MapInv
  <2>2. /\ Run(head.wr, Dist(head.wr, head.rd), buf) = <<>>
        /\ Run(head'.wr, Dist(head'.wr, head'.rd), buf') = <<>>
    BY <1>1, <1>4, <1>6, <2>1
  <2> QED
    BY <1>1, <1>3, <1>5, <2>2 DEF Queue!Clear
<1>7. CASE head.wr # head.rd
  <2>1. Dist(head.wr, head.rd) # 0
    BY <1>7, Placed, DistType DEF MapInv
  <2>2. Run(head.wr, Dist(head.wr, head.rd), buf) # <<>>
    <3>1. Len(<<>>) = 0
      OBVIOUS
    <3> QED
      BY <2>1, <3>1, MapTypes
  <2>3. Run(head.wr, Dist(head.wr, tail.rd), buf)
          = Run(head.wr, Dist(head.wr, head.rd), buf) \o Run(head.rd, Dist(head.rd, tail.rd), buf)
    <3>1. Dist(head.wr, head.rd) + Dist(head.rd, tail.rd) < Size
      BY Placed, DistType DEF MapInv
    <3>2. PICK p \in Positions, q \in Positions, r \in Positions :
             p = head.wr /\ q = head.rd /\ r = tail.rd
      BY Placed DEF MapInv
    <3>3. Run(p, Dist(p, r), buf) = Run(p, Dist(p, q), buf) \o Run(q, Dist(q, r), buf)
      BY <1>2, <3>1, <3>2, RunJoined
    <3> QED
      BY <3>2, <3>3
  <2>4. Run(head'.wr, Dist(head'.wr, head'.rd), buf')
          = Run(head.wr, Dist(head.wr, head.rd), buf) \o Run(head.rd, Dist(head.rd, tail.rd), buf)
    BY <1>1, <1>7, <2>3
  <2> QED
    BY <1>1, <1>3, <1>5, <2>2, <2>4 DEF Queue!Clear
<1> QED
  BY <1>6, <1>7

(* An empty ring is an empty queue.                                         *)
LEMMA MapStart == Init => Queue!Init
<1> SUFFICES ASSUME Init PROVE Queue!Init
  OBVIOUS
<1>1. Dist(0, 0) = 0 /\ \A f, p : Run(p, 0, f) = <<>>
  BY RunEmpty DEF Dist
<1> QED
  BY <1>1 DEF Init, Queue!Init

(* Every step of the ring is a step of the queue or none.                   *)
LEMMA MapStep == MapInv /\ MapInv' /\ [Next]_vars => [Queue!Next]_(Queue!vars)
<1> SUFFICES ASSUME MapInv, MapInv', [Next]_vars PROVE [Queue!Next]_(Queue!vars)
  OBVIOUS
<1>1. ASSUME NEW x \in Items, ItemAlloc(x) PROVE Queue!Next
  BY <1>1, MapAlloc DEF Queue!Next
<1>2. CASE Fill
  BY <1>2, MapFill
<1>3. CASE ItemPut
  BY <1>3, MapPut DEF Queue!Next
<1>4. CASE ItemGet
  BY <1>4, MapGet DEF Queue!Next
<1>5. CASE ItemFree
  BY <1>5, MapFree DEF Queue!Next
<1>6. CASE SpaceClear
  BY <1>6, MapClear DEF Queue!Next
<1>7. CASE UNCHANGED vars
  BY <1>7 DEF vars, Queue!vars, Promised, Waiting, PutSlot
<1> QED
  BY <1>1, <1>2, <1>3, <1>4, <1>5, <1>6, <1>7 DEF Next

(* The ring is a bounded queue for its users, whatever interrupts whatever: *)
(* items come out once each, in the order in which their slots were         *)
(* claimed, and only after the puts that claimed before them are done.      *)
THEOREM RingIsAQueue == Spec => ImplementsQueue
<1>1. Init => IInv /\ BufPart
  BY Start, BufStart
<1>2. IInv /\ BufPart /\ [Next]_vars => (IInv /\ BufPart)'
  BY Step, BufStep
<1>3. IInv /\ BufPart => MapInv
  BY PromisesKnown DEF MapInv
<1> QED
  BY <1>1, <1>2, <1>3, MapStart, MapStep, PTL DEF Spec, ImplementsQueue, Queue!Spec
=============================================================================
